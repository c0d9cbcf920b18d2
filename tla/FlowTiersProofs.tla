---------------------------- MODULE FlowTiersProofs ----------------------------
(* Proofs about FlowTiers, for every finite set of ids and places, any number *)
(* of requests at a time, and every number of texts, requests and edits.      *)
EXTENDS FlowTiers, FiniteSetTheorems, SequenceTheorems, TLAPS

-----------------------------------------------------------------------------
(* Sequences and the sets of what is in them                               *)

\* A finite set in some order is a sequence of its elements.
LEMMA SetToSeqLists ==
  ASSUME NEW S, IsFiniteSet(S)
  PROVE  /\ SetToSeq(S) \in Seq(S) /\ ToSet(SetToSeq(S)) = S
         /\ SetToSeq(S) = <<>> <=> S = {}
<1> DEFINE n == Cardinality(S)
           f == SetToSeq(S)
<1>1. n \in Nat /\ ExistsBijection(1 .. n, S)
  BY FS_CardinalityType
<1>2. PICK g \in [1 .. n -> S] : IsInjective(g)
  BY <1>1 DEF ExistsBijection, Bijection, Injection
<1>3. f \in [1 .. n -> S] /\ IsInjective(f)
  BY <1>2 DEF SetToSeq
<1>4. f \in Injection(1 .. n, S)
  BY <1>3 DEF Injection
<1>5. IsFiniteSet(1 .. n) /\ Cardinality(1 .. n) = n
  BY <1>1, FS_Interval
<1>6. f \in Surjection(1 .. n, S)
  BY <1>4, <1>5, FS_Injection
<1>7. f \in Seq(S) /\ DOMAIN f = 1 .. n
  BY <1>1, <1>3
<1>8. ToSet(f) = S
  BY <1>3, <1>6, <1>7 DEF ToSet, Surjection
<1>9. f = <<>> <=> S = {}
  <2>1. f = <<>> => S = {}
    BY <1>8 DEF ToSet
  <2>2. f # <<>> => 1 \in 1 .. n
    BY <1>1, <1>7, EmptySeq
  <2> QED
    BY <1>3, <2>1, <2>2
<1> QED
  BY <1>7, <1>8, <1>9

LEMMA ToSetConcat ==
  ASSUME NEW S, NEW s \in Seq(S), NEW t \in Seq(S)
  PROVE  s \o t \in Seq(S) /\ ToSet(s \o t) = ToSet(s) \cup ToSet(t)
<1>1. /\ s \o t \in Seq(S) /\ DOMAIN (s \o t) = 1 .. Len(s) + Len(t)
      /\ DOMAIN s = 1 .. Len(s) /\ DOMAIN t = 1 .. Len(t)
      /\ Len(s) \in Nat /\ Len(t) \in Nat
      /\ \A i \in 1 .. Len(s) + Len(t) :
            (s \o t)[i] = IF i <= Len(s) THEN s[i] ELSE t[i - Len(s)]
  BY ConcatProperties
<1>2. ToSet(s \o t) \subseteq ToSet(s) \cup ToSet(t)
  BY <1>1 DEF ToSet
<1>3. ToSet(s) \subseteq ToSet(s \o t)
  BY <1>1 DEF ToSet
<1>4. ASSUME NEW i \in 1 .. Len(t) PROVE t[i] \in ToSet(s \o t)
  <2>1. i + Len(s) \in 1 .. Len(s) + Len(t) /\ (s \o t)[i + Len(s)] = t[i]
    BY <1>1
  <2> QED
    BY <1>1, <2>1 DEF ToSet
<1> QED
  BY <1>1, <1>2, <1>3, <1>4 DEF ToSet

LEMMA ToSetHeadTail ==
  ASSUME NEW S, NEW s \in Seq(S), s # <<>>
  PROVE  /\ Head(s) \in S /\ Tail(s) \in Seq(S)
         /\ ToSet(s) = {Head(s)} \cup ToSet(Tail(s))
         /\ Len(s) = 1 <=> Tail(s) = <<>>
<1>1. /\ Head(s) = s[1] /\ Tail(s) \in Seq(S) /\ Len(Tail(s)) = Len(s) - 1 /\ Len(s) \in Nat \ {0}
      /\ DOMAIN s = 1 .. Len(s) /\ DOMAIN Tail(s) = 1 .. Len(s) - 1
      /\ \A i \in 1 .. Len(s) - 1 : Tail(s)[i] = s[i + 1]
  BY HeadTailProperties, EmptySeq
<1>2. ToSet(s) \subseteq {Head(s)} \cup ToSet(Tail(s))
  <2>1. ASSUME NEW i \in 1 .. Len(s), i # 1 PROVE s[i] \in ToSet(Tail(s))
    <3>1. i - 1 \in 1 .. Len(s) - 1 /\ Tail(s)[i - 1] = s[i]
      BY <1>1, <2>1
    <3> QED
      BY <1>1, <3>1 DEF ToSet
  <2> QED
    BY <1>1, <2>1 DEF ToSet
<1>3. ToSet(Tail(s)) \subseteq ToSet(s)
  BY <1>1 DEF ToSet
<1>4. Head(s) \in ToSet(s) /\ Head(s) \in S
  BY <1>1 DEF ToSet
<1>5. Len(s) = 1 <=> Tail(s) = <<>>
  <2>1. Len(Tail(s)) = 0 <=> Tail(s) = <<>>
    BY <1>1, EmptySeq
  <2> QED
    BY <1>1, <2>1
<1> QED
  BY <1>1, <1>2, <1>3, <1>4, <1>5

LEMMA FilesAreFinite ==
  ASSUME NEW t
  PROVE  IsFiniteSet(FilesIn(t)) /\ FilesIn(t) \subseteq Ids \X Places
<1>1. IsFiniteSet(Ids \X Places)
  BY IdsAssumption, PlacesAssumption, FS_Product
<1>2. FilesIn(t) \subseteq Ids \X Places
  BY DEF FilesIn
<1> QED
  BY <1>1, <1>2, FS_Subset

-----------------------------------------------------------------------------
(* Types                                                                   *)

Rebuilding == {"list", "rows", "parse", "upsert"}
Stages == {"idle", "save", "move", "leave", "unlink", "check"} \cup Rebuilding
RowRecords == [id : Ids, place : Places, text : Texts]
Jobs == [at : Stages, op : {"none", "create", "update", "relocate", "delete", "watch", "open"},
         id : Ids \cup {NoOne}, old : Places \cup {Nowhere}, new : Places \cup {Nowhere},
         text : Texts \cup {Gone}, tiers : Seq(Tiers), prev : SUBSET RowRecords,
         todo : Seq(Ids \X Places), listed : SUBSET (Ids \X Places), found : Seq(RowRecords),
         areas : Seq(Tiers), fp : SUBSET ((Ids \X Places) \X Nat)]

\* What a job holds where it is.
JobSound(j) ==
    /\ j.at \in {"save", "move", "leave", "unlink"} => j.id \in Ids /\ j.tiers # <<>>
    /\ j.at = "save" => j.new \in Places /\ j.text \in Texts
    /\ j.at \in {"move", "leave"} => j.old \in Places /\ j.new \in Places /\ j.old # j.new
    /\ j.at = "unlink" => j.old \in Places
    /\ j.at \in Rebuilding => j.tiers # <<>>

\* What a rebuild has read and found of its tier.
RebuildSound(j) ==
    /\ \A x \in ToSet(j.todo) : x \in j.listed
    /\ \A x \in ToSet(j.found) : \E q \in Places : <<x.id, q>> \in j.listed
    /\ IsFiniteSet(j.prev)
    /\ j.at = "list" => j.prev = {} /\ j.found = <<>>
    /\ j.at \in {"rows", "parse", "upsert"} =>
         /\ \A x \in j.prev : Tier(x.place) = Head(j.tiers)
         /\ \A x \in ToSet(j.found) : Tier(x.place) = Head(j.tiers)
         /\ \A x \in ToSet(j.todo) : Tier(x[2]) = Head(j.tiers)
    /\ (j.at = "rows" \/ j.at = "parse") <=> j.todo # <<>>

\* The tier that Open rebuilds is the area it has taken the fingerprint of.
AreasInOrder(j) ==
    j.op = "open" =>
        /\ j.at \in Rebuilding \cup {"check"}
        /\ j.areas \in {BothTiers, <<"local">>, <<>>}
        /\ j.at \in Rebuilding =>
             /\ j.areas # <<>>
             /\ \A x \in j.fp : Tier(x[1][2]) = Head(j.areas)

SoundJobs == {j \in Jobs : JobSound(j) /\ RebuildSound(j) /\ AreasInOrder(j)}

Typed ==
    /\ file \in [Ids -> [Places -> Texts \cup {Gone, Malformed}]]
    /\ row \in [Ids -> [place : Places, text : Texts] \cup {NoRow}]
    /\ job \in [Procs -> SoundJobs]
    /\ phase \in {"down", "opening", "up"} /\ pending \in BOOLEAN /\ missed \in BOOLEAN
    /\ stored \in [Tiers -> SUBSET ((Ids \X Places) \X Nat)]
    /\ texts \in 0 .. MaxTexts /\ requests \in 0 .. MaxRequests /\ edits \in 0 .. MaxEdits
    /\ touched \subseteq Tiers /\ alone \subseteq Ids /\ owed \in [Ids -> SUBSET Texts]
    /\ \A t \in Tiers : \A x \in stored[t] : Tier(x[1][2]) = t

LEMMA IdleSound == Idle \in SoundJobs
<1>1. <<>> \in Seq(Tiers) /\ <<>> \in Seq(RowRecords) /\ <<>> \in Seq(Ids \X Places)
  OBVIOUS
<1>2. Idle \in Jobs
  BY <1>1 DEF Idle, Jobs, Stages
<1>3. JobSound(Idle) /\ AreasInOrder(Idle)
  BY DEF Idle, JobSound, AreasInOrder, Rebuilding
<1>4. RebuildSound(Idle)
  BY FS_EmptySet DEF Idle, RebuildSound, ToSet
<1> QED
  BY <1>2, <1>3, <1>4 DEF SoundJobs

\* A rebuild of some tiers begins with nothing read.
LEMMA RebuildStarts ==
  ASSUME NEW j \in SoundJobs, j.todo = <<>>, NEW ts \in Seq(Tiers), ts # <<>>,
         j.op = "open" => /\ j.areas # <<>>
                          /\ \A x \in j.fp : Tier(x[1][2]) = Head(j.areas)
  PROVE  Rebuild(j, ts) \in SoundJobs
<1> DEFINE k == Rebuild(j, ts)
<1>1. j \in Jobs /\ JobSound(j) /\ RebuildSound(j) /\ AreasInOrder(j)
  BY DEF SoundJobs
<1>2. <<>> \in Seq(RowRecords)
  OBVIOUS
<1>3. /\ k.at = "list" /\ k.tiers = ts /\ k.prev = {} /\ k.listed = {} /\ k.found = <<>>
      /\ k.todo = <<>> /\ k.op = j.op /\ k.areas = j.areas /\ k.fp = j.fp
  BY <1>1 DEF Rebuild, Jobs
<1>4. k \in Jobs
  BY <1>1, <1>2 DEF Rebuild, Jobs, Stages, Rebuilding
<1>5. JobSound(k)
  BY <1>3 DEF JobSound
<1>6. RebuildSound(k)
  BY <1>3, FS_EmptySet DEF RebuildSound, ToSet
<1>7. AreasInOrder(k)
  BY <1>1, <1>3 DEF AreasInOrder, Rebuilding
<1> QED
  BY <1>4, <1>5, <1>6, <1>7 DEF SoundJobs

\* A request that has changed its files has no more than its id and its tiers.
LEMMA RequestRebuilds ==
  ASSUME NEW j \in SoundJobs, j.id \in Ids, j.tiers # <<>>
  PROVE  ThenRebuild(j) \in SoundJobs
<1> DEFINE k == [Idle EXCEPT !.id = j.id]
<1>1. /\ k.at = "idle" /\ k.op = "none" /\ k.todo = <<>> /\ k.found = <<>> /\ k.prev = {}
  BY DEF Idle
<1>2. k \in Jobs
  BY IdleSound DEF SoundJobs, Jobs, Idle
<1>3. JobSound(k) /\ AreasInOrder(k)
  BY <1>1 DEF JobSound, AreasInOrder, Rebuilding
<1>4. RebuildSound(k)
  <2> HIDE DEF k
  <2> QED
    BY <1>1, FS_EmptySet DEF RebuildSound, ToSet
<1>5. j.tiers \in Seq(Tiers) /\ k \in SoundJobs
  BY <1>2, <1>3, <1>4 DEF SoundJobs, Jobs
<1> QED
  BY <1>1, <1>5, RebuildStarts DEF ThenRebuild

LEMMA TypedInit == Init => Typed
<1> SUFFICES ASSUME Init PROVE Typed
  OBVIOUS
<1>1. file \in [Ids -> [Places -> Texts \cup {Gone, Malformed}]]
  BY DEF Init
<1>2. row \in [Ids -> [place : Places, text : Texts] \cup {NoRow}]
  BY DEF Init
<1>3. job \in [Procs -> SoundJobs]
  BY IdleSound DEF Init
<1>4. /\ stored \in [Tiers -> SUBSET ((Ids \X Places) \X Nat)]
      /\ \A t \in Tiers : \A x \in stored[t] : Tier(x[1][2]) = t
  BY DEF Init
<1>5. owed \in [Ids -> SUBSET Texts] /\ alone \subseteq Ids /\ touched \subseteq Tiers
  BY DEF Init
<1>6. texts \in 0 .. MaxTexts /\ requests \in 0 .. MaxRequests /\ edits \in 0 .. MaxEdits
  BY BoundsAssumption DEF Init
<1>7. phase \in {"down", "opening", "up"} /\ pending \in BOOLEAN /\ missed \in BOOLEAN
  BY DEF Init
<1> QED
  BY <1>1, <1>2, <1>3, <1>4, <1>5, <1>6, <1>7 DEF Typed

LEMMA TierOfPlace ==
  ASSUME NEW p \in Places
  PROVE  Tier(p) \in Tiers
  BY PlacesAssumption DEF Tier

\* A change of a flow's files keeps the files, and what is noted of them, in type.
LEMMA ChangesTyped ==
  ASSUME Typed, NEW i \in Ids, NEW new \in [Places -> Texts \cup {Gone, Malformed}],
         Changes(i, new)
  PROVE  /\ file' \in [Ids -> [Places -> Texts \cup {Gone, Malformed}]]
         /\ touched' \subseteq Tiers /\ pending' \in BOOLEAN /\ missed' \in BOOLEAN
  BY TierOfPlace DEF Typed, Changes

\* The jobs that requests begin with, and those of a request that goes on.
LEMMA RequestBegins ==
  ASSUME NEW i \in Ids, NEW p \in Places, NEW q \in Places, NEW x \in Texts,
         NEW ts \in Seq(Tiers), ts # <<>>
  PROVE  /\ \A op \in {"create", "update"} :
              [Idle EXCEPT !.at = "save", !.op = op, !.id = i, !.new = p, !.text = x,
                           !.tiers = ts] \in SoundJobs
         /\ p # q => [Idle EXCEPT !.at = "move", !.op = "relocate", !.id = i, !.old = p,
                                  !.new = q, !.tiers = ts] \in SoundJobs
         /\ [Idle EXCEPT !.at = "unlink", !.op = "delete", !.id = i, !.old = p,
                         !.tiers = ts] \in SoundJobs
<1>0. Idle \in Jobs /\ RebuildSound(Idle)
  BY IdleSound DEF SoundJobs
<1>1. ASSUME NEW op \in {"create", "update"}
      PROVE  [Idle EXCEPT !.at = "save", !.op = op, !.id = i, !.new = p, !.text = x,
                          !.tiers = ts] \in SoundJobs
  <2> DEFINE j == [Idle EXCEPT !.at = "save", !.op = op, !.id = i, !.new = p, !.text = x,
                               !.tiers = ts]
  <2>1. j \in Jobs
    BY <1>0 DEF Jobs, Idle, Stages
  <2>2. /\ j.at = "save" /\ j.op = op /\ j.id = i /\ j.new = p /\ j.text = x /\ j.tiers = ts
        /\ j.todo = Idle.todo /\ j.found = Idle.found /\ j.prev = Idle.prev /\ j.listed = Idle.listed
        /\ Idle.at = "idle"
    BY DEF Idle
  <2> HIDE DEF j
  <2>3. JobSound(j) /\ AreasInOrder(j)
    BY <2>2 DEF JobSound, AreasInOrder, Rebuilding
  <2>4. RebuildSound(j)
    BY <1>0, <2>2 DEF RebuildSound
  <2> QED
    BY <2>1, <2>3, <2>4 DEF SoundJobs, j
<1>2. ASSUME p # q
      PROVE  [Idle EXCEPT !.at = "move", !.op = "relocate", !.id = i, !.old = p,
                          !.new = q, !.tiers = ts] \in SoundJobs
  <2> DEFINE j == [Idle EXCEPT !.at = "move", !.op = "relocate", !.id = i, !.old = p,
                               !.new = q, !.tiers = ts]
  <2>1. j \in Jobs
    BY <1>0 DEF Jobs, Idle, Stages
  <2>2. /\ j.at = "move" /\ j.op = "relocate" /\ j.id = i /\ j.old = p /\ j.new = q /\ j.tiers = ts
        /\ j.todo = Idle.todo /\ j.found = Idle.found /\ j.prev = Idle.prev /\ j.listed = Idle.listed
        /\ Idle.at = "idle"
    BY DEF Idle
  <2> HIDE DEF j
  <2>3. JobSound(j) /\ AreasInOrder(j)
    BY <1>2, <2>2 DEF JobSound, AreasInOrder, Rebuilding
  <2>4. RebuildSound(j)
    BY <1>0, <2>2 DEF RebuildSound
  <2> QED
    BY <2>1, <2>3, <2>4 DEF SoundJobs, j
<1>3. [Idle EXCEPT !.at = "unlink", !.op = "delete", !.id = i, !.old = p, !.tiers = ts] \in SoundJobs
  <2> DEFINE j == [Idle EXCEPT !.at = "unlink", !.op = "delete", !.id = i, !.old = p,
                               !.tiers = ts]
  <2>1. j \in Jobs
    BY <1>0 DEF Jobs, Idle, Stages
  <2>2. /\ j.at = "unlink" /\ j.op = "delete" /\ j.id = i /\ j.old = p /\ j.tiers = ts
        /\ j.todo = Idle.todo /\ j.found = Idle.found /\ j.prev = Idle.prev /\ j.listed = Idle.listed
        /\ Idle.at = "idle"
    BY DEF Idle
  <2> HIDE DEF j
  <2>3. JobSound(j) /\ AreasInOrder(j)
    BY <2>2 DEF JobSound, AreasInOrder, Rebuilding
  <2>4. RebuildSound(j)
    BY <1>0, <2>2 DEF RebuildSound
  <2> QED
    BY <2>1, <2>3, <2>4 DEF SoundJobs, j
<1> QED
  BY <1>1, <1>2, <1>3

LEMMA MoveLeaves ==
  ASSUME NEW j \in SoundJobs, j.at = "move"
  PROVE  [j EXCEPT !.at = "leave"] \in SoundJobs
<1> DEFINE k == [j EXCEPT !.at = "leave"]
<1>1. j \in Jobs /\ JobSound(j) /\ RebuildSound(j) /\ AreasInOrder(j)
  BY DEF SoundJobs
<1>2. k \in Jobs
  BY <1>1 DEF Jobs, Stages
<1>3. /\ k.at = "leave" /\ k.op = j.op /\ k.id = j.id /\ k.old = j.old /\ k.new = j.new
      /\ k.tiers = j.tiers /\ k.areas = j.areas /\ k.fp = j.fp
      /\ k.todo = j.todo /\ k.found = j.found /\ k.prev = j.prev /\ k.listed = j.listed
  BY <1>1 DEF Jobs
<1> HIDE DEF k
<1>4. JobSound(k) /\ AreasInOrder(k)
  BY <1>1, <1>3 DEF JobSound, AreasInOrder, Rebuilding
<1>5. RebuildSound(k)
  BY <1>1, <1>3 DEF RebuildSound
<1> QED
  BY <1>2, <1>4, <1>5 DEF SoundJobs, k

\* The two areas that Open checks, in their order.
LEMMA AreaLists ==
  /\ BothTiers \in Seq(Tiers) /\ <<"local">> \in Seq(Tiers) /\ <<>> \in Seq(Tiers)
  /\ BothTiers # <<>> /\ <<"local">> # <<>> /\ Len(BothTiers) = 2 /\ Len(<<"local">>) = 1
  /\ Head(BothTiers) = "workspace" /\ Tail(BothTiers) = <<"local">>
  /\ Head(<<"local">>) = "local" /\ Tail(<<"local">>) = <<>>
  /\ ToSet(BothTiers) = Tiers /\ ToSet(<<"local">>) = {"local"} /\ ToSet(<<>>) = {}
<1>1. BothTiers \in Seq(Tiers) /\ <<"local">> \in Seq(Tiers) /\ <<>> \in Seq(Tiers)
  BY DEF BothTiers, Tiers
<1>2. /\ BothTiers # <<>> /\ <<"local">> # <<>> /\ Len(BothTiers) = 2 /\ Len(<<"local">>) = 1
      /\ Head(BothTiers) = "workspace" /\ Head(<<"local">>) = "local"
  BY DEF BothTiers
<1>3. Tail(BothTiers) = <<"local">> /\ Tail(<<"local">>) = <<>>
  BY DEF BothTiers
<1>4. ToSet(BothTiers) = Tiers
  BY DEF BothTiers, ToSet, Tiers
<1>5. ToSet(<<"local">>) = {"local"} /\ ToSet(<<>>) = {}
  BY DEF ToSet
<1> QED
  BY <1>1, <1>2, <1>3, <1>4, <1>5

LEMMA RowsAreFinite ==
  ASSUME Typed, NEW t \in Tiers
  PROVE  /\ RowsIn(t) \subseteq RowRecords /\ IsFiniteSet(RowsIn(t))
         /\ \A x \in RowsIn(t) : Tier(x.place) = t
<1> DEFINE S == {k \in Ids : ListedIn(k, t)}
           f == [i \in S |-> [id |-> i, place |-> row[i].place, text |-> row[i].text]]
<1>1. IsFiniteSet(S)
  BY IdsAssumption, FS_Subset
<1>2. f \in Surjection(S, RowsIn(t))
  BY DEF Surjection, RowsIn
<1>3. IsFiniteSet(RowsIn(t))
  BY <1>1, <1>2, FS_Surjection
<1>4. RowsIn(t) \subseteq RowRecords /\ \A x \in RowsIn(t) : Tier(x.place) = t
  BY DEF RowsIn, RowRecords, ListedIn, Typed
<1> QED
  BY <1>3, <1>4

\* A job keeps its type when what it has read and found is replaced in type.
LEMMA ReadingTyped ==
  ASSUME NEW j \in Jobs, NEW at \in Stages, NEW todo \in Seq(Ids \X Places),
         NEW found \in Seq(RowRecords), NEW listed \in SUBSET (Ids \X Places), NEW prev \in SUBSET RowRecords
  PROVE  /\ [j EXCEPT !.at = at, !.todo = todo, !.listed = listed] \in Jobs
         /\ [j EXCEPT !.at = at, !.prev = prev] \in Jobs
         /\ [j EXCEPT !.todo = todo, !.found = found, !.at = at] \in Jobs
  BY DEF Jobs

\* What List leaves in the job.
Listed(j) ==
    LET files == FilesIn(Head(j.tiers)) IN
    [j EXCEPT !.at = IF files = {} THEN "upsert" ELSE "rows",
              !.todo = SetToSeq(files), !.listed = files]

LEMMA ListSound ==
  ASSUME Typed, NEW j \in SoundJobs, j.at = "list"
  PROVE  Listed(j) \in SoundJobs
<1> DEFINE t == Head(j.tiers)
           k == Listed(j)
<1>1. j \in Jobs /\ JobSound(j) /\ RebuildSound(j) /\ AreasInOrder(j)
  BY DEF SoundJobs
<1>2. t \in Tiers /\ j.tiers # <<>>
  BY <1>1 DEF JobSound, Rebuilding, Jobs
<1>3. /\ SetToSeq(FilesIn(t)) \in Seq(Ids \X Places) /\ ToSet(SetToSeq(FilesIn(t))) = FilesIn(t)
      /\ SetToSeq(FilesIn(t)) = <<>> <=> FilesIn(t) = {}
  BY FilesAreFinite, SetToSeqLists, SeqMonotonic
<1>4. /\ k.at = (IF FilesIn(t) = {} THEN "upsert" ELSE "rows")
      /\ k.todo = SetToSeq(FilesIn(t)) /\ k.found = j.found /\ k.listed = FilesIn(t)
      /\ k.prev = j.prev /\ k.op = j.op /\ k.id = j.id /\ k.tiers = j.tiers
      /\ k.areas = j.areas /\ k.fp = j.fp
  BY <1>1 DEF Listed, Jobs
<1>5. k \in Jobs
  <2>1. FilesIn(t) \in SUBSET (Ids \X Places)
    BY FilesAreFinite
  <2>2. (IF FilesIn(t) = {} THEN "upsert" ELSE "rows") \in Stages
    BY DEF Stages, Rebuilding
  <2>3. j.found \in Seq(RowRecords) /\ j.prev \in SUBSET RowRecords
    BY <1>1 DEF Jobs
  <2> QED
    BY <1>1, <1>3, <2>1, <2>2, <2>3, ReadingTyped DEF Listed
<1> HIDE DEF k
<1>6. JobSound(k) /\ AreasInOrder(k)
  BY <1>1, <1>2, <1>4 DEF JobSound, AreasInOrder, Rebuilding
<1>7. RebuildSound(k)
  <2>1. \A x \in FilesIn(t) : Tier(x[2]) = t
    BY DEF FilesIn
  <2>2. j.prev = {} /\ j.found = <<>>
    BY <1>1 DEF RebuildSound
  <2>3. ToSet(k.todo) = FilesIn(t) /\ ToSet(k.found) = {} /\ k.prev = {} /\ Head(k.tiers) = t
    BY <1>3, <1>4, <2>2, AreaLists
  <2>4. k.at # "list" /\ ((k.at = "rows" \/ k.at = "parse") <=> k.todo # <<>>)
    BY <1>3, <1>4
  <2>5. k.listed = FilesIn(t)
    BY <1>4
  <2> QED
    BY <2>1, <2>3, <2>4, <2>5, FS_EmptySet DEF RebuildSound
<1> QED
  BY <1>5, <1>6, <1>7 DEF SoundJobs, k

\* What ReadRows leaves in the job: the tier's rows or, when it cannot read them, none.
WithRows(j, rows) == [j EXCEPT !.at = "parse", !.prev = rows]

LEMMA RowsSound ==
  ASSUME Typed, NEW j \in SoundJobs, j.at = "rows", NEW rows \in SUBSET RowsIn(Head(j.tiers))
  PROVE  /\ WithRows(j, rows) \in SoundJobs
         /\ WithRows(j, rows).at = "parse" /\ WithRows(j, rows).prev = rows
         /\ WithRows(j, rows).todo = j.todo /\ WithRows(j, rows).found = j.found
         /\ WithRows(j, rows).listed = j.listed /\ WithRows(j, rows).tiers = j.tiers
         /\ WithRows(j, rows).op = j.op /\ WithRows(j, rows).id = j.id
         /\ WithRows(j, rows).areas = j.areas /\ WithRows(j, rows).fp = j.fp
<1> DEFINE k == WithRows(j, rows)
<1>1. j \in Jobs /\ JobSound(j) /\ RebuildSound(j) /\ AreasInOrder(j)
  BY DEF SoundJobs
<1>2. Head(j.tiers) \in Tiers
  BY <1>1 DEF JobSound, Rebuilding, Jobs
<1>3. /\ rows \in SUBSET RowRecords /\ IsFiniteSet(rows)
      /\ \A x \in rows : Tier(x.place) = Head(j.tiers)
  BY <1>2, RowsAreFinite, FS_Subset
<1>4. /\ k.at = "parse" /\ k.prev = rows /\ k.todo = j.todo /\ k.found = j.found
      /\ k.listed = j.listed /\ k.tiers = j.tiers /\ k.op = j.op /\ k.id = j.id
      /\ k.areas = j.areas /\ k.fp = j.fp
  BY <1>1 DEF WithRows, Jobs
<1>5. k \in Jobs
  <2>1. "parse" \in Stages
    BY DEF Stages, Rebuilding
  <2>2. /\ j.todo \in Seq(Ids \X Places) /\ j.found \in Seq(RowRecords)
        /\ j.listed \in SUBSET (Ids \X Places)
    BY <1>1 DEF Jobs
  <2> QED
    BY <1>1, <1>3, <2>1, <2>2, ReadingTyped DEF WithRows
<1> HIDE DEF k
<1>6. JobSound(k) /\ AreasInOrder(k)
  BY <1>1, <1>4 DEF JobSound, AreasInOrder, Rebuilding
<1>7. RebuildSound(k)
  BY <1>1, <1>3, <1>4 DEF RebuildSound
<1> QED
  BY <1>4, <1>5, <1>6, <1>7 DEF SoundJobs, k

\* What a file adds to what is found: rows of its id, in its tier, and none only
\* when it does not parse and no row had its path, or the id its name says.
LEMMA SummarySound ==
  ASSUME Typed, NEW j \in SoundJobs, j.at = "parse", NEW x \in Ids \X Places,
         Tier(x[2]) = Head(j.tiers)
  PROVE  LET S == Summary(j, x[1], x[2]) IN
         /\ S \subseteq RowRecords /\ IsFiniteSet(S)
         /\ \A y \in S : y.id = x[1] /\ Tier(y.place) = Head(j.tiers)
         /\ S = {} => /\ ~Readable(x[1], x[2])
                      /\ \A y \in j.prev : y.id = x[1] => x[2] \notin Named \cup {y.place}
<1> DEFINE S == Summary(j, x[1], x[2])
<1>1. j \in Jobs /\ RebuildSound(j)
  BY DEF SoundJobs
<1>2. /\ j.prev \subseteq RowRecords /\ IsFiniteSet(j.prev)
      /\ \A y \in j.prev : Tier(y.place) = Head(j.tiers)
  BY <1>1 DEF Jobs, RebuildSound
<1>3. CASE Readable(x[1], x[2])
  <2>1. S = {[id |-> x[1], place |-> x[2], text |-> file[x[1]][x[2]]]}
    BY <1>3 DEF Summary
  <2>2. [id |-> x[1], place |-> x[2], text |-> file[x[1]][x[2]]] \in RowRecords
    BY <1>3 DEF RowRecords, Readable
  <2>3. IsFiniteSet(S)
    BY <2>1, FS_Singleton
  <2> QED
    BY <2>1, <2>2, <2>3
<1>4. CASE ~Readable(x[1], x[2])
  <2>1. S = {y \in j.prev : y.id = x[1] /\ (y.place = x[2] \/ x[2] \in Named)}
    BY <1>4 DEF Summary
  <2>2. IsFiniteSet(S)
    BY <1>2, <2>1, FS_Subset
  <2> QED
    BY <1>2, <1>4, <2>1, <2>2
<1> QED
  BY <1>3, <1>4

\* What ParseNext leaves in the job.
Parsed(j) ==
    LET next == Head(j.todo) IN
    [j EXCEPT !.todo = Tail(@), !.found = @ \o SetToSeq(Summary(j, next[1], next[2])),
              !.at = IF Len(j.todo) = 1 THEN "upsert" ELSE "parse"]

\* One file fewer to parse, and its summary is among what is found.
LEMMA ParseSound ==
  ASSUME Typed, NEW j \in SoundJobs, j.at = "parse"
  PROVE  /\ Parsed(j) \in SoundJobs
         /\ Head(j.todo) \in Ids \X Places /\ Tier(Head(j.todo)[2]) = Head(j.tiers)
         /\ ToSet(j.todo) = {Head(j.todo)} \cup ToSet(Parsed(j).todo)
         /\ ToSet(Parsed(j).found) =
                ToSet(j.found) \cup Summary(j, Head(j.todo)[1], Head(j.todo)[2])
         /\ Parsed(j).at \in {"parse", "upsert"} /\ Parsed(j).tiers = j.tiers
         /\ Parsed(j).prev = j.prev /\ Parsed(j).listed = j.listed /\ Parsed(j).id = j.id
         /\ Parsed(j).op = j.op /\ Parsed(j).areas = j.areas /\ Parsed(j).fp = j.fp
<1> DEFINE next == Head(j.todo)
           S == Summary(j, next[1], next[2])
           k == Parsed(j)
<1>1. j \in Jobs /\ JobSound(j) /\ RebuildSound(j) /\ AreasInOrder(j)
  BY DEF SoundJobs
<1>2. j.todo \in Seq(Ids \X Places) /\ j.todo # <<>> /\ j.found \in Seq(RowRecords)
  BY <1>1 DEF Jobs, RebuildSound
<1>3. /\ next \in Ids \X Places /\ Tail(j.todo) \in Seq(Ids \X Places)
      /\ ToSet(j.todo) = {next} \cup ToSet(Tail(j.todo))
      /\ Len(j.todo) = 1 <=> Tail(j.todo) = <<>>
  BY <1>2, ToSetHeadTail
<1>4. Tier(next[2]) = Head(j.tiers) /\ next \in j.listed
  BY <1>1, <1>3 DEF RebuildSound
<1>5. /\ S \subseteq RowRecords /\ IsFiniteSet(S)
      /\ \A y \in S : y.id = next[1] /\ Tier(y.place) = Head(j.tiers)
  BY <1>3, <1>4, SummarySound
<1>6. SetToSeq(S) \in Seq(RowRecords) /\ ToSet(SetToSeq(S)) = S
  BY <1>5, SetToSeqLists, SeqMonotonic
<1>7. /\ j.found \o SetToSeq(S) \in Seq(RowRecords)
      /\ ToSet(j.found \o SetToSeq(S)) = ToSet(j.found) \cup S
  BY <1>2, <1>6, ToSetConcat
<1>8. /\ k.todo = Tail(j.todo) /\ k.found = j.found \o SetToSeq(S)
      /\ k.at = (IF Len(j.todo) = 1 THEN "upsert" ELSE "parse")
      /\ k.op = j.op /\ k.id = j.id /\ k.tiers = j.tiers /\ k.areas = j.areas /\ k.fp = j.fp
      /\ k.prev = j.prev /\ k.listed = j.listed
  BY <1>1 DEF Parsed, Jobs
<1>9. k \in Jobs
  <2>1. (IF Len(j.todo) = 1 THEN "upsert" ELSE "parse") \in Stages
    BY DEF Stages, Rebuilding
  <2>2. j.listed \in SUBSET (Ids \X Places) /\ j.prev \in SUBSET RowRecords
    BY <1>1 DEF Jobs
  <2> HIDE DEF S
  <2>3. [j EXCEPT !.todo = Tail(j.todo), !.found = j.found \o SetToSeq(S),
                  !.at = IF Len(j.todo) = 1 THEN "upsert" ELSE "parse"] \in Jobs
    BY <1>1, <1>3, <1>7, <2>1, <2>2, ReadingTyped
  <2> QED
    BY <1>1, <2>3 DEF Parsed, S, Jobs
<1> HIDE DEF k, S, next
<1>10. JobSound(k) /\ AreasInOrder(k)
  BY <1>1, <1>8 DEF JobSound, AreasInOrder, Rebuilding
<1>11. RebuildSound(k)
  <2>1. ToSet(k.todo) \subseteq ToSet(j.todo) /\ ToSet(k.found) = ToSet(j.found) \cup S
    BY <1>3, <1>7, <1>8
  <2>2. k.at # "list" /\ ((k.at = "rows" \/ k.at = "parse") <=> k.todo # <<>>)
    BY <1>3, <1>8
  <2>3. next = <<next[1], next[2]>> /\ next[2] \in Places
    BY <1>3
  <2> QED
    BY <1>1, <1>4, <1>5, <1>8, <2>1, <2>2, <2>3 DEF RebuildSound
<1>12. k \in SoundJobs
  BY <1>9, <1>10, <1>11 DEF SoundJobs
<1> QED
  BY <1>3, <1>4, <1>7, <1>8, <1>12 DEF k, S, next

\* Open checks its areas one after the other.
CheckOf(as) == [Idle EXCEPT !.at = "check", !.op = "open", !.areas = as]

LEMMA CheckSound ==
  ASSUME NEW as \in {BothTiers, <<"local">>, <<>>}
  PROVE  CheckOf(as) \in SoundJobs
<1> DEFINE k == CheckOf(as)
<1>0. Idle \in Jobs /\ RebuildSound(Idle) /\ as \in Seq(Tiers)
  BY IdleSound, AreaLists DEF SoundJobs
<1>1. k \in Jobs
  BY <1>0 DEF CheckOf, Jobs, Stages, Idle
<1>2. /\ k.at = "check" /\ k.op = "open" /\ k.areas = as
      /\ k.todo = Idle.todo /\ k.found = Idle.found /\ k.prev = Idle.prev
      /\ k.listed = Idle.listed /\ Idle.at = "idle"
  BY DEF CheckOf, Idle
<1> HIDE DEF k
<1>3. JobSound(k) /\ AreasInOrder(k)
  BY <1>2 DEF JobSound, AreasInOrder, Rebuilding
<1>4. RebuildSound(k)
  BY <1>0, <1>2 DEF RebuildSound
<1> QED
  BY <1>1, <1>3, <1>4 DEF SoundJobs, k

\* An area that has not changed is passed over.
LEMMA AreaSkipped ==
  ASSUME NEW j \in SoundJobs, j.at = "check", j.op = "open", j.areas # <<>>
  PROVE  /\ [j EXCEPT !.areas = Tail(@)] \in SoundJobs
         /\ Head(j.areas) \in Tiers /\ Tail(j.areas) \in {<<"local">>, <<>>}
         /\ ToSet(j.areas) = {Head(j.areas)} \cup ToSet(Tail(j.areas))
<1> DEFINE k == [j EXCEPT !.areas = Tail(@)]
<1>1. j \in Jobs /\ JobSound(j) /\ RebuildSound(j) /\ AreasInOrder(j)
  BY DEF SoundJobs
<1>2. /\ j.areas \in {BothTiers, <<"local">>}
      /\ Head(j.areas) \in Tiers /\ Tail(j.areas) \in {<<"local">>, <<>>}
      /\ ToSet(j.areas) = {Head(j.areas)} \cup ToSet(Tail(j.areas))
  BY <1>1, AreaLists DEF AreasInOrder, Tiers
<1>3. k \in Jobs
  <2>1. Tail(j.areas) \in Seq(Tiers)
    BY <1>2, AreaLists
  <2> QED
    BY <1>1, <2>1 DEF Jobs
<1>4. /\ k.at = j.at /\ k.op = j.op /\ k.id = j.id /\ k.old = j.old /\ k.new = j.new
      /\ k.tiers = j.tiers /\ k.areas = Tail(j.areas) /\ k.fp = j.fp
      /\ k.todo = j.todo /\ k.found = j.found /\ k.prev = j.prev /\ k.listed = j.listed
  BY <1>1 DEF Jobs
<1> HIDE DEF k
<1>5. JobSound(k) /\ AreasInOrder(k)
  BY <1>2, <1>4 DEF JobSound, AreasInOrder, Rebuilding
<1>6. RebuildSound(k)
  BY <1>1, <1>4 DEF RebuildSound
<1> QED
  BY <1>2, <1>3, <1>5, <1>6 DEF SoundJobs, k

\* A fingerprint is of the tier's files.
LEMMA FingerprintTyped ==
  ASSUME Typed, NEW t
  PROVE  /\ Fingerprint(t) \subseteq (Ids \X Places) \X Nat
         /\ \A x \in Fingerprint(t) : Tier(x[1][2]) = t
<1>1. ASSUME NEW x \in FilesIn(t)
      PROVE  x \in Ids \X Places /\ file[x[1]][x[2]] \in Nat /\ Tier(x[2]) = t
  BY <1>1, BoundsAssumption DEF FilesIn, Typed, Texts, Gone, Malformed
<1> QED
  BY <1>1 DEF Fingerprint

\* An area that has changed is rebuilt, the workspace tier with the local one.
LEMMA AreaRebuilt ==
  ASSUME Typed, NEW j \in SoundJobs, j.at = "check", j.op = "open", j.areas # <<>>,
         NEW ts \in {BothTiers, <<Head(j.areas)>>}
  PROVE  Rebuild([j EXCEPT !.fp = Fingerprint(Head(j.areas))], ts) \in SoundJobs
<1> DEFINE k == [j EXCEPT !.fp = Fingerprint(Head(j.areas))]
<1>1. j \in Jobs /\ JobSound(j) /\ RebuildSound(j) /\ AreasInOrder(j)
  BY DEF SoundJobs
<1>2. k \in Jobs
  BY <1>1, FingerprintTyped DEF Jobs
<1>3. /\ k.at = j.at /\ k.op = j.op /\ k.id = j.id /\ k.old = j.old /\ k.new = j.new
      /\ k.tiers = j.tiers /\ k.areas = j.areas /\ k.fp = Fingerprint(Head(j.areas))
      /\ k.todo = j.todo /\ k.found = j.found /\ k.prev = j.prev /\ k.listed = j.listed
  BY <1>1 DEF Jobs
<1> HIDE DEF k
<1>4. JobSound(k) /\ AreasInOrder(k)
  BY <1>1, <1>3 DEF JobSound, AreasInOrder, Rebuilding
<1>5. RebuildSound(k)
  BY <1>1, <1>3 DEF RebuildSound
<1>6. k \in SoundJobs
  BY <1>2, <1>4, <1>5 DEF SoundJobs
<1>7. k.todo = <<>> /\ k.areas # <<>> /\ \A x \in k.fp : Tier(x[1][2]) = Head(k.areas)
  BY <1>1, <1>3, FingerprintTyped DEF RebuildSound
<1>8. ts \in Seq(Tiers) /\ ts # <<>>
  <2>1. Head(j.areas) \in Tiers
    BY AreaSkipped
  <2>2. <<Head(j.areas)>> \in Seq(Tiers) /\ <<Head(j.areas)>> # <<>>
    BY <2>1
  <2> QED
    BY <2>2, AreaLists
<1> QED
  BY <1>6, <1>7, <1>8, RebuildStarts DEF k

\* The watcher rebuilds both tiers.
LEMMA WatchRebuilds == Rebuild([Idle EXCEPT !.op = "watch"], BothTiers) \in SoundJobs
<1> DEFINE k == [Idle EXCEPT !.op = "watch"]
<1>0. Idle \in Jobs /\ RebuildSound(Idle)
  BY IdleSound DEF SoundJobs
<1>1. k \in Jobs
  BY <1>0 DEF Jobs, Idle
<1>2. /\ k.at = "idle" /\ k.op = "watch" /\ k.todo = <<>> /\ Idle.todo = <<>> /\ Idle.at = "idle"
      /\ k.found = Idle.found /\ k.prev = Idle.prev /\ k.listed = Idle.listed
  BY DEF Idle
<1> HIDE DEF k
<1>3. JobSound(k) /\ AreasInOrder(k)
  BY <1>2 DEF JobSound, AreasInOrder, Rebuilding
<1>4. RebuildSound(k)
  BY <1>0, <1>2 DEF RebuildSound
<1>5. k \in SoundJobs
  BY <1>1, <1>3, <1>4 DEF SoundJobs
<1> QED
  BY <1>2, <1>5, RebuildStarts, AreaLists DEF k

\* A rebuild goes on with the tiers after the one it has done.
LEMMA NextTier ==
  ASSUME NEW j \in SoundJobs, j.at = "upsert", Len(j.tiers) # 1
  PROVE  Rebuild(j, Tail(j.tiers)) \in SoundJobs
<1>1. j \in Jobs /\ JobSound(j) /\ RebuildSound(j) /\ AreasInOrder(j)
  BY DEF SoundJobs
<1>2. j.tiers \in Seq(Tiers) /\ j.tiers # <<>> /\ j.todo = <<>> /\ j.todo \in Seq(Ids \X Places)
  BY <1>1 DEF Jobs, JobSound, Rebuilding, RebuildSound
<1>3. Tail(j.tiers) \in Seq(Tiers) /\ Tail(j.tiers) # <<>>
  BY <1>2, ToSetHeadTail
<1>4. j.op = "open" => j.areas # <<>> /\ \A x \in j.fp : Tier(x[1][2]) = Head(j.areas)
  BY <1>1 DEF AreasInOrder, Rebuilding
<1> QED
  BY <1>2, <1>3, <1>4, RebuildStarts

LEMMA StepTyped ==
  ASSUME Typed, NEW p \in Procs, NEW k \in SoundJobs, Step(p, k)
  PROVE  /\ job' \in [Procs -> SoundJobs] /\ job'[p] = k
         /\ \A q \in Procs \ {p} : job'[q] = job[q]
  BY DEF Typed, Step

LEMMA RowTyped ==
  ASSUME Typed, NEW i \in Ids, row[i] # NoRow
  PROVE  /\ row[i].place \in Places /\ row[i].text \in Texts
         /\ <<Tier(row[i].place)>> \in Seq(Tiers) /\ <<Tier(row[i].place)>> # <<>>
<1>1. row[i].place \in Places /\ row[i].text \in Texts
  BY DEF Typed
<1>2. Tier(row[i].place) \in Tiers
  BY <1>1, TierOfPlace
<1> QED
  BY <1>1, <1>2

LEMMA StepShape ==
  ASSUME Typed, NEW p \in Procs, NEW k, Step(p, k)
  PROVE  job'[p] = k /\ \A q \in Procs \ {p} : job'[q] = job[q]
  BY DEF Typed, Step

\* Each request begins with a job of its own.
LEMMA RequestsTyped ==
  ASSUME Typed, NEW c \in Clients
  PROVE  /\ CreateIn(c) => Typed'
         /\ Update(c) => Typed'
         /\ Relocate(c) => Typed'
         /\ Delete(c) => Typed'
<1> c \in Procs
  BY DEF Procs
<1>0. ASSUME texts < MaxTexts PROVE texts + 1 \in Texts /\ texts + 1 \in 0 .. MaxTexts
  BY <1>0, BoundsAssumption DEF Typed, Texts
<1>e. ASSUME NEW i \in Ids, Enters(c, i)
      PROVE  requests' \in 0 .. MaxRequests /\ alone' \subseteq Ids
  BY <1>e, BoundsAssumption DEF Typed, Enters
<1>1. ASSUME CreateIn(c) PROVE Typed'
  <2>1. PICK i \in Ids, to \in Places :
          /\ Enters(c, i) /\ texts < MaxTexts /\ texts' = texts + 1
          /\ Step(c, [Idle EXCEPT !.at = "save", !.op = "create", !.id = i, !.new = to,
                                  !.text = texts + 1, !.tiers = <<Tier(to)>>])
    BY <1>1 DEF CreateIn
  <2>2. <<Tier(to)>> \in Seq(Tiers) /\ <<Tier(to)>> # <<>>
    <3>1. Tier(to) \in Tiers
      BY TierOfPlace
    <3> QED
      BY <3>1
  <2>3. job' \in [Procs -> SoundJobs]
    BY <1>0, <2>1, <2>2, RequestBegins, StepTyped
  <2> QED
    BY <1>0, <1>1, <1>e, <2>1, <2>3 DEF Typed, CreateIn
<1>2. ASSUME Update(c) PROVE Typed'
  <2>1. PICK i \in Ids :
          /\ Enters(c, i) /\ texts < MaxTexts /\ texts' = texts + 1 /\ row[i] # NoRow
          /\ Step(c, [Idle EXCEPT !.at = "save", !.op = "update", !.id = i,
                                  !.new = row[i].place, !.text = texts + 1,
                                  !.tiers = <<Tier(row[i].place)>>])
    BY <1>2 DEF Update
  <2>3. job' \in [Procs -> SoundJobs]
    BY <1>0, <2>1, RowTyped, RequestBegins, StepTyped
  <2> QED
    BY <1>0, <1>2, <1>e, <2>1, <2>3 DEF Typed, Update
<1>3. ASSUME Relocate(c) PROVE Typed'
  <2>1. PICK i \in Ids : Enters(c, i) /\ row[i] # NoRow
          /\ \E to \in Relocated(row[i].place) :
               Step(c, [Idle EXCEPT !.at = "move", !.op = "relocate", !.id = i,
                                    !.old = row[i].place, !.new = to,
                                    !.tiers = TiersOfMove(row[i].place, to)])
    BY <1>3 DEF Relocate
  <2>2. PICK to \in Relocated(row[i].place) :
               Step(c, [Idle EXCEPT !.at = "move", !.op = "relocate", !.id = i,
                                    !.old = row[i].place, !.new = to,
                                    !.tiers = TiersOfMove(row[i].place, to)])
    BY <2>1
  <2>3. to \in Places /\ row[i].place \in Places /\ row[i].place # to
    BY <2>1, RowTyped DEF Relocated
  <2>4. TiersOfMove(row[i].place, to) \in Seq(Tiers) /\ TiersOfMove(row[i].place, to) # <<>>
    <3>1. Tier(to) \in Tiers /\ Tier(row[i].place) \in Tiers
      BY <2>3, TierOfPlace
    <3> QED
      BY <3>1 DEF TiersOfMove
  <2>5. job' \in [Procs -> SoundJobs]
    <3>1. [Idle EXCEPT !.at = "move", !.op = "relocate", !.id = i, !.old = row[i].place,
                       !.new = to, !.tiers = TiersOfMove(row[i].place, to)] \in SoundJobs
      BY <2>1, <2>3, <2>4, RowTyped, RequestBegins
    <3> QED
      BY <2>2, <3>1, StepTyped
  <2> QED
    BY <1>3, <1>e, <2>1, <2>5 DEF Typed, Relocate, dataVars
<1>4. ASSUME Delete(c) PROVE Typed'
  <2>1. PICK i \in Ids :
          /\ Enters(c, i) /\ row[i] # NoRow
          /\ Step(c, [Idle EXCEPT !.at = "unlink", !.op = "delete", !.id = i,
                                  !.old = row[i].place, !.tiers = <<Tier(row[i].place)>>])
    BY <1>4 DEF Delete
  <2>3. job' \in [Procs -> SoundJobs]
    BY <2>1, RowTyped, RequestBegins, StepTyped
  <2> QED
    BY <1>4, <1>e, <2>1, <2>3 DEF Typed, Delete, dataVars
<1> QED
  BY <1>1, <1>2, <1>3, <1>4

\* A request changes its files and goes on to their rows.
LEMMA ChangesOfRequestsTyped ==
  ASSUME Typed, NEW c \in Clients
  PROVE  /\ Save(c) => Typed'
         /\ MoveFile(c) => Typed'
         /\ LeaveOld(c) => Typed'
         /\ Unlink(c) => Typed'
<1> c \in Procs
  BY DEF Procs
<1> DEFINE j == job[c]
<1>0. j \in SoundJobs /\ j \in Jobs /\ JobSound(j) /\ Idle \in SoundJobs
  BY IdleSound DEF Typed, SoundJobs
<1>1. ASSUME Save(c) PROVE Typed'
  <2>1. /\ j.at = "save" /\ j.id \in Ids /\ j.tiers # <<>> /\ j.new \in Places /\ j.text \in Texts
    BY <1>0, <1>1 DEF Save, JobSound
  <2>2. job' \in [Procs -> SoundJobs]
    BY <1>0, <1>1, <2>1, RequestRebuilds, StepTyped DEF Save
  <2>3. [file[j.id] EXCEPT ![j.new] = j.text] \in [Places -> Texts \cup {Gone, Malformed}]
    BY <2>1 DEF Typed
  <2>4. Changes(j.id, [file[j.id] EXCEPT ![j.new] = j.text])
    BY <1>1 DEF Save
  <2>5. /\ file' \in [Ids -> [Places -> Texts \cup {Gone, Malformed}]]
        /\ touched' \subseteq Tiers /\ pending' \in BOOLEAN /\ missed' \in BOOLEAN
    BY <2>1, <2>3, <2>4, ChangesTyped
  <2>6. owed' \in [Ids -> SUBSET Texts]
    BY <1>1, <2>1 DEF Typed, Save, NotOwed
  <2> QED
    BY <1>1, <2>2, <2>5, <2>6 DEF Typed, Save
<1>2. ASSUME MoveFile(c) PROVE Typed'
  <2>1. /\ j.at = "move" /\ j.id \in Ids /\ j.tiers # <<>> /\ j.new \in Places /\ j.old \in Places
    BY <1>0, <1>2 DEF MoveFile, JobSound
  <2>2. file[j.id][j.old] \in Texts \cup {Gone, Malformed}
    BY <2>1 DEF Typed
  <2>3. /\ [file[j.id] EXCEPT ![j.new] = file[j.id][j.old], ![j.old] = Gone]
              \in [Places -> Texts \cup {Gone, Malformed}]
        /\ [file[j.id] EXCEPT ![j.new] = file[j.id][j.old]]
              \in [Places -> Texts \cup {Gone, Malformed}]
    BY <2>1, <2>2 DEF Typed
  <2>4. job' \in [Procs -> SoundJobs]
    BY <1>0, <1>2, <2>1, RequestRebuilds, MoveLeaves, StepTyped DEF MoveFile, Ends
  <2>5. /\ file' \in [Ids -> [Places -> Texts \cup {Gone, Malformed}]]
        /\ touched' \subseteq Tiers /\ pending' \in BOOLEAN /\ missed' \in BOOLEAN
    <3>1. CASE UNCHANGED <<file, touched, pending, missed>>
      BY <3>1 DEF Typed
    <3>2. CASE Changes(j.id, [file[j.id] EXCEPT ![j.new] = file[j.id][j.old], ![j.old] = Gone])
      BY <2>1, <2>3, <3>2, ChangesTyped
    <3>3. CASE Changes(j.id, [file[j.id] EXCEPT ![j.new] = file[j.id][j.old]])
      BY <2>1, <2>3, <3>3, ChangesTyped
    <3> QED
      BY <1>2, <3>1, <3>2, <3>3 DEF MoveFile
  <2> QED
    BY <1>2, <2>4, <2>5 DEF Typed, MoveFile
<1>3. ASSUME LeaveOld(c) PROVE Typed'
  <2>1. /\ j.at = "leave" /\ j.id \in Ids /\ j.tiers # <<>> /\ j.old \in Places
    BY <1>0, <1>3 DEF LeaveOld, JobSound
  <2>2. [file[j.id] EXCEPT ![j.old] = Gone] \in [Places -> Texts \cup {Gone, Malformed}]
    BY <2>1 DEF Typed
  <2>3. job' \in [Procs -> SoundJobs]
    BY <1>0, <1>3, <2>1, RequestRebuilds, StepTyped DEF LeaveOld, Ends
  <2>4. /\ file' \in [Ids -> [Places -> Texts \cup {Gone, Malformed}]]
        /\ touched' \subseteq Tiers /\ pending' \in BOOLEAN /\ missed' \in BOOLEAN
    <3>1. CASE UNCHANGED <<file, touched, pending, missed>>
      BY <3>1 DEF Typed
    <3>2. CASE Changes(j.id, [file[j.id] EXCEPT ![j.old] = Gone])
      BY <2>1, <2>2, <3>2, ChangesTyped
    <3> QED
      BY <1>3, <3>1, <3>2 DEF LeaveOld
  <2> QED
    BY <1>3, <2>3, <2>4 DEF Typed, LeaveOld
<1>4. ASSUME Unlink(c) PROVE Typed'
  <2>1. /\ j.at = "unlink" /\ j.id \in Ids /\ j.tiers # <<>> /\ j.old \in Places
    BY <1>0, <1>4 DEF Unlink, JobSound
  <2>2. [file[j.id] EXCEPT ![j.old] = Gone] \in [Places -> Texts \cup {Gone, Malformed}]
    BY <2>1 DEF Typed
  <2>3. job' \in [Procs -> SoundJobs]
    BY <1>0, <1>4, <2>1, RequestRebuilds, StepTyped DEF Unlink
  <2>4. /\ file' \in [Ids -> [Places -> Texts \cup {Gone, Malformed}]]
        /\ touched' \subseteq Tiers /\ pending' \in BOOLEAN /\ missed' \in BOOLEAN
    <3>1. CASE UNCHANGED <<file, touched, pending, missed>>
      BY <3>1 DEF Typed
    <3>2. CASE Changes(j.id, [file[j.id] EXCEPT ![j.old] = Gone])
      BY <2>1, <2>2, <3>2, ChangesTyped
    <3> QED
      BY <1>4, <3>1, <3>2 DEF Unlink
  <2>5. owed' \in [Ids -> SUBSET Texts]
    BY <1>4, <2>1 DEF Typed, Unlink, NotOwed
  <2> QED
    BY <1>4, <2>3, <2>4, <2>5 DEF Typed, Unlink
<1> QED
  BY <1>1, <1>2, <1>3, <1>4

\* What replaces the rows of a tier are rows, each of a file that was found.
LEMMA ReplacedTyped ==
  ASSUME Typed, NEW j \in SoundJobs
  PROVE  /\ Replaced(j) \in [Ids -> [place : Places, text : Texts] \cup {NoRow}]
         /\ \A i \in Ids :
              IF \E x \in ToSet(j.found) : x.id = i
              THEN \E x \in ToSet(j.found) :
                     x.id = i /\ Replaced(j)[i] = [place |-> x.place, text |-> x.text]
              ELSE Replaced(j)[i] = IF ListedIn(i, Head(j.tiers)) THEN NoRow ELSE row[i]
<1>1. j.found \in Seq(RowRecords)
  BY DEF SoundJobs, Jobs
<1>2. \A x \in ToSet(j.found) : x \in RowRecords
  BY <1>1 DEF ToSet
<1>3. ASSUME NEW i \in Ids
      PROVE  /\ Replaced(j)[i] \in [place : Places, text : Texts] \cup {NoRow}
             /\ IF \E x \in ToSet(j.found) : x.id = i
                THEN \E x \in ToSet(j.found) :
                       x.id = i /\ Replaced(j)[i] = [place |-> x.place, text |-> x.text]
                ELSE Replaced(j)[i] = IF ListedIn(i, Head(j.tiers)) THEN NoRow ELSE row[i]
  <2>1. CASE \E x \in ToSet(j.found) : x.id = i
    <3> DEFINE y == CHOOSE z \in ToSet(j.found) : z.id = i
    <3>1. y \in ToSet(j.found) /\ y.id = i
      BY <2>1
    <3>2. Replaced(j)[i] = [place |-> y.place, text |-> y.text]
      BY <2>1 DEF Replaced
    <3> HIDE DEF y
    <3>3. y \in RowRecords
      BY <1>2, <3>1
    <3> QED
      BY <2>1, <3>1, <3>2, <3>3 DEF RowRecords
  <2>2. CASE ~\E x \in ToSet(j.found) : x.id = i
    <3>1. Replaced(j)[i] = IF ListedIn(i, Head(j.tiers)) THEN NoRow ELSE row[i]
      BY <2>2 DEF Replaced
    <3>2. row[i] \in [place : Places, text : Texts] \cup {NoRow}
      BY DEF Typed
    <3> QED
      BY <2>2, <3>1, <3>2
  <2> QED
    BY <2>1, <2>2
<1>4. Replaced(j) = [i \in Ids |-> Replaced(j)[i]]
  BY DEF Replaced
<1> QED
  BY <1>3, <1>4

-----------------------------------------------------------------------------
(* The process *)

\* Requests are there only while the daemon is up, and the engine is where the
\* phase says: nowhere while it is down, in Open while it is opening, and in a
\* rebuild of the watcher, or nowhere, while it is up.
PhaseInv ==
    /\ phase # "up" => ~pending /\ \A c \in Clients : job[c] = Idle
    /\ phase = "down" => job[Engine] = Idle
    /\ phase = "opening" <=> job[Engine].op = "open"
    /\ \A c \in Clients : job[c].op \notin {"open", "watch"} /\ job[c].at # "check"
    /\ job[Engine].op \in {"open", "watch", "none"}
    /\ job[Engine].op = "none" => job[Engine] = Idle
    /\ job[Engine].at = "check" => job[Engine].op = "open"
    /\ job[Engine].op = "watch" => job[Engine].at \in Rebuilding

\* What a rebuild leaves when it is over.
LEMMA FinishesTyped ==
  ASSUME Typed, NEW p \in Procs, job[p].at = "upsert", NEW ok \in BOOLEAN, Finishes(p, ok)
  PROVE  /\ job' \in [Procs -> SoundJobs] /\ touched' \subseteq Tiers
         /\ stored' \in [Tiers -> SUBSET ((Ids \X Places) \X Nat)]
         /\ \A t \in Tiers : \A x \in stored'[t] : Tier(x[1][2]) = t
<1> DEFINE j == job[p]
<1>1. j \in SoundJobs /\ j \in Jobs /\ AreasInOrder(j)
  BY DEF Typed, SoundJobs
<1>2. CASE j.op # "open"
  <2>1. Ends(p) /\ UNCHANGED <<stored, touched>>
    BY <1>2 DEF Finishes
  <2>2. job' \in [Procs -> SoundJobs]
    BY <2>1, IdleSound, StepTyped DEF Ends
  <2> QED
    BY <2>1, <2>2 DEF Typed
<1>3. CASE j.op = "open"
  <2>1. /\ j.areas \in {BothTiers, <<"local">>}
        /\ \A x \in j.fp : Tier(x[1][2]) = Head(j.areas)
    BY <1>1, <1>3 DEF AreasInOrder, Rebuilding
  <2>2. Head(j.areas) \in Tiers /\ Tail(j.areas) \in {<<"local">>, <<>>}
    BY <2>1, AreaLists DEF Tiers
  <2>3. Step(p, CheckOf(Tail(j.areas)))
    BY <1>3 DEF Finishes, CheckOf
  <2>4. job' \in [Procs -> SoundJobs]
    BY <2>2, <2>3, CheckSound, StepTyped
  <2>5. touched' \subseteq Tiers
    BY <1>3, <2>2 DEF Finishes, Typed
  <2>6. /\ stored' \in [Tiers -> SUBSET ((Ids \X Places) \X Nat)]
        /\ \A t \in Tiers : \A x \in stored'[t] : Tier(x[1][2]) = t
    <3>1. CASE ok
      <4>1. stored' = [stored EXCEPT ![Head(j.areas)] = j.fp]
        BY <1>3, <3>1 DEF Finishes
      <4>2. j.fp \in SUBSET ((Ids \X Places) \X Nat)
        BY <1>1 DEF Jobs
      <4> QED
        BY <2>1, <2>2, <4>1, <4>2 DEF Typed
    <3>2. CASE ~ok
      BY <1>3, <3>2 DEF Finishes, Typed
    <3> QED
      BY <3>1, <3>2
  <2> QED
    BY <2>4, <2>5, <2>6
<1> QED
  BY <1>2, <1>3

LEMMA RebuildsTyped ==
  ASSUME Typed, NEW p \in Procs
  PROVE  /\ List(p) => Typed'
         /\ ReadRows(p) => Typed'
         /\ ParseNext(p) => Typed'
         /\ Upsert(p) => Typed'
<1> DEFINE j == job[p]
<1>0. j \in SoundJobs
  BY DEF Typed
<1>1. ASSUME List(p) PROVE Typed'
  <2>1. j.at = "list" /\ Step(p, Listed(j))
    BY <1>1 DEF List, Listed
  <2>2. job' \in [Procs -> SoundJobs]
    BY <1>0, <2>1, ListSound, StepTyped
  <2> QED
    BY <1>1, <2>2 DEF Typed, List, sameInRebuild
<1>r. ASSUME ReadRows(p) PROVE Typed'
  <2>1. PICK rows \in SUBSET RowsIn(Head(j.tiers)) : j.at = "rows" /\ Step(p, WithRows(j, rows))
    BY <1>r DEF ReadRows, WithRows
  <2>2. job' \in [Procs -> SoundJobs]
    BY <1>0, <2>1, RowsSound, StepTyped
  <2> QED
    BY <1>r, <2>2 DEF Typed, ReadRows, sameInRebuild
<1>2. ASSUME ParseNext(p) PROVE Typed'
  <2>1. j.at = "parse" /\ Step(p, Parsed(j))
    BY <1>2 DEF ParseNext, Parsed
  <2>2. job' \in [Procs -> SoundJobs]
    BY <1>0, <2>1, ParseSound, StepTyped
  <2> QED
    BY <1>2, <2>2 DEF Typed, ParseNext, sameInRebuild
<1>3. ASSUME Upsert(p) PROVE Typed'
  <2>1. j.at = "upsert"
    BY <1>3 DEF Upsert
  <2>2. /\ job' \in [Procs -> SoundJobs] /\ touched' \subseteq Tiers
        /\ stored' \in [Tiers -> SUBSET ((Ids \X Places) \X Nat)]
        /\ \A t \in Tiers : \A x \in stored'[t] : Tier(x[1][2]) = t
    <3>1. CASE \E ok \in BOOLEAN : Finishes(p, ok)
      BY <2>1, <3>1, FinishesTyped
    <3>2. CASE /\ Len(j.tiers) # 1 /\ Step(p, Rebuild(j, Tail(j.tiers)))
               /\ UNCHANGED <<stored, touched>>
      <4>1. job' \in [Procs -> SoundJobs]
        BY <1>0, <2>1, <3>2, NextTier, StepTyped
      <4> QED
        BY <3>2, <4>1 DEF Typed
    <3> QED
      BY <1>3, <3>1, <3>2 DEF Upsert
  <2>3. row' \in [Ids -> [place : Places, text : Texts] \cup {NoRow}]
    <3>1. row' = Replaced(j) \/ row' = row
      BY <1>3 DEF Upsert
    <3> QED
      BY <1>0, <3>1, ReplacedTyped DEF Typed
  <2>4. missed' \in BOOLEAN
    BY <1>3 DEF Upsert, Typed
  <2> QED
    BY <1>3, <2>2, <2>3, <2>4 DEF Typed, Upsert, sameInRebuild
<1> QED
  BY <1>1, <1>r, <1>2, <1>3

LEMMA EngineTyped ==
  ASSUME Typed, PhaseInv
  PROVE  /\ OnWatchChange => Typed'
         /\ Open => Typed'
         /\ CheckArea => Typed'
         /\ Opened => Typed'
         /\ Crash => Typed'
<1> Engine \in Procs
  BY DEF Procs
<1>1. ASSUME OnWatchChange PROVE Typed'
  <2>1. job' \in [Procs -> SoundJobs]
    BY <1>1, WatchRebuilds, StepTyped DEF OnWatchChange
  <2> QED
    BY <1>1, <2>1 DEF Typed, OnWatchChange, dataVars
<1>2. ASSUME Open PROVE Typed'
  <2>1. job' \in [Procs -> SoundJobs]
    BY <1>2, CheckSound, StepTyped DEF Open, CheckOf
  <2> QED
    BY <1>2, <2>1 DEF Typed, Open, dataVars
<1>3. ASSUME CheckArea PROVE Typed'
  <2> DEFINE j == job[Engine]
  <2>1. j \in SoundJobs /\ j.at = "check" /\ j.op = "open" /\ j.areas # <<>>
    BY <1>3 DEF CheckArea, PhaseInv, Typed
  <2>2. job' \in [Procs -> SoundJobs]
    <3>1. CASE Fingerprint(Head(j.areas)) = stored[Head(j.areas)]
      BY <1>3, <2>1, <3>1, AreaSkipped, StepTyped DEF CheckArea
    <3>2. CASE Fingerprint(Head(j.areas)) # stored[Head(j.areas)]
      BY <1>3, <2>1, <3>2, AreaRebuilt, StepTyped DEF CheckArea
    <3> QED
      BY <3>1, <3>2
  <2>3. touched' \subseteq Tiers
    BY <1>3 DEF CheckArea, Typed
  <2> QED
    BY <1>3, <2>2, <2>3 DEF Typed, CheckArea, dataVars
<1>4. ASSUME Opened PROVE Typed'
  <2>1. job' \in [Procs -> SoundJobs]
    BY <1>4, IdleSound, StepTyped DEF Opened, Ends
  <2> QED
    BY <1>4, <2>1 DEF Typed, Opened, dataVars, ghostVars
<1>5. ASSUME Crash PROVE Typed'
  <2>1. job' \in [Procs -> SoundJobs]
    BY <1>5, IdleSound DEF Crash
  <2> QED
    BY <1>5, <2>1 DEF Typed, Crash, dataVars
<1> QED
  BY <1>1, <1>2, <1>3, <1>4, <1>5

\* What an edit makes of a flow's files.
Edited(i, p, new) ==
    \/ \E to \in {Gone, Malformed} \cup Texts : new = [file[i] EXCEPT ![p] = to]
    \/ \E q \in Places \ {p} : new = [file[i] EXCEPT ![q] = file[i][p], ![p] = Gone]

LEMMA EditChanges ==
  ASSUME Typed, Edit
  PROVE  \E i \in Ids, p \in Places : \E new \in [Places -> Texts \cup {Gone, Malformed}] :
            /\ \A q \in Places \ {p} : file[i][q] = Gone
            /\ Changes(i, new) /\ Edited(i, p, new)
            /\ alone' = IF \E c \in Clients : job[c].id = i THEN alone \ {i} ELSE alone
<1>1. PICK i \in Ids, p \in Places :
         /\ \A q \in Places \ {p} : file[i][q] = Gone
         /\ \/ \E to \in {Gone, Malformed} \cup Texts :
                 Changes(i, [file[i] EXCEPT ![p] = to])
            \/ \E q \in Places \ {p} :
                 Changes(i, [file[i] EXCEPT ![q] = file[i][p], ![p] = Gone])
         /\ alone' = IF \E c \in Clients : job[c].id = i THEN alone \ {i} ELSE alone
  BY DEF Edit
<1>2. /\ \A to \in {Gone, Malformed} \cup Texts :
            [file[i] EXCEPT ![p] = to] \in [Places -> Texts \cup {Gone, Malformed}]
      /\ \A q \in Places \ {p} :
            [file[i] EXCEPT ![q] = file[i][p], ![p] = Gone] \in [Places -> Texts \cup {Gone, Malformed}]
  BY DEF Typed
<1> QED
  BY <1>1, <1>2 DEF Edited

LEMMA EditTyped ==
  ASSUME Typed, Edit
  PROVE  Typed'
<1>1. /\ file' \in [Ids -> [Places -> Texts \cup {Gone, Malformed}]] /\ alone' \subseteq Ids
      /\ touched' \subseteq Tiers /\ pending' \in BOOLEAN /\ missed' \in BOOLEAN
  <2>1. PICK i \in Ids, p \in Places : \E new \in [Places -> Texts \cup {Gone, Malformed}] :
            /\ Changes(i, new)
            /\ alone' = IF \E c \in Clients : job[c].id = i THEN alone \ {i} ELSE alone
    BY EditChanges
  <2>2. alone' \subseteq Ids
    BY <2>1 DEF Typed
  <2> QED
    BY <2>1, <2>2, ChangesTyped
<1>2. texts' \in 0 .. MaxTexts /\ owed' \in [Ids -> SUBSET Texts]
  <2>1. PICK i \in Ids, p \in Places :
          \/ \E to \in {Gone, Malformed} \cup ({texts + 1} \cap Texts) :
                 /\ texts' = IF to \in Texts THEN to ELSE texts
                 /\ owed' = [owed EXCEPT ![i] = NotOwed(i, p)]
          \/ UNCHANGED <<texts, owed>>
    BY DEF Edit
  <2> QED
    BY <2>1, BoundsAssumption DEF Typed, NotOwed, Texts
<1>3. edits' \in 0 .. MaxEdits
  BY BoundsAssumption DEF Typed, Edit
<1> QED
  BY <1>1, <1>2, <1>3 DEF Typed, Edit

LEMMA TypedInductive ==
  ASSUME Typed, PhaseInv, [Next]_vars
  PROVE  Typed'
<1>1. CASE \E c \in Clients : RequestStep(c)
  BY <1>1, RequestsTyped, ChangesOfRequestsTyped DEF RequestStep
<1>2. CASE \E p \in Procs : RebuildStep(p)
  BY <1>2, RebuildsTyped DEF RebuildStep
<1>3. CASE OnWatchChange \/ Open \/ CheckArea \/ Opened \/ Crash
  BY <1>3, EngineTyped
<1>4. CASE Edit
  BY <1>4, EditTyped
<1>5. CASE UNCHANGED vars
  BY <1>5 DEF Typed, vars, dataVars, ghostVars
<1> QED
  BY <1>1, <1>2, <1>3, <1>4, <1>5 DEF Next

LEMMA IdleShape ==
  /\ Idle.at = "idle" /\ Idle.op = "none" /\ Idle.id = NoOne /\ Idle.prev = {}
  /\ Idle.todo = <<>>
  BY DEF Idle

\* The jobs that operations begin with, or go on with.
SaveOf(op, i, p, x, ts) ==
    [Idle EXCEPT !.at = "save", !.op = op, !.id = i, !.new = p, !.text = x, !.tiers = ts]
MoveOf(i, p, q, ts) ==
    [Idle EXCEPT !.at = "move", !.op = "relocate", !.id = i, !.old = p, !.new = q, !.tiers = ts]
UnlinkOf(i, p, ts) ==
    [Idle EXCEPT !.at = "unlink", !.op = "delete", !.id = i, !.old = p, !.tiers = ts]
LeaveOf(j) == [j EXCEPT !.at = "leave"]
SkipOf(j) == [j EXCEPT !.areas = Tail(@)]
AreaOf(j, F, ts) == Rebuild([j EXCEPT !.fp = F], ts)

\* Where these jobs are, and what for.
LEMMA SaveShape ==
  ASSUME NEW op, NEW i, NEW p, NEW x, NEW ts
  PROVE  LET k == SaveOf(op, i, p, x, ts) IN
         k.at = "save" /\ k.op = op /\ k.id = i /\ k.new = p /\ k.text = x /\ k.prev = {}
  BY DEF SaveOf, Idle

LEMMA MoveShape ==
  ASSUME NEW i, NEW p, NEW q, NEW ts
  PROVE  LET k == MoveOf(i, p, q, ts) IN
         k.at = "move" /\ k.op = "relocate" /\ k.id = i /\ k.old = p /\ k.new = q /\ k.prev = {}
  BY DEF MoveOf, Idle

LEMMA UnlinkShape ==
  ASSUME NEW i, NEW p, NEW ts
  PROVE  LET k == UnlinkOf(i, p, ts) IN
         k.at = "unlink" /\ k.op = "delete" /\ k.id = i /\ k.old = p /\ k.prev = {}
  BY DEF UnlinkOf, Idle

LEMMA RequestShapes ==
  ASSUME NEW j \in Jobs
  PROVE  /\ LET k == ThenRebuild(j)
            IN  /\ k.at = "list" /\ k.op = "none" /\ k.id = j.id /\ k.tiers = j.tiers
                /\ k.prev = {}
         /\ LET k == LeaveOf(j)
            IN  /\ k.at = "leave" /\ k.op = j.op /\ k.id = j.id /\ k.old = j.old
                /\ k.new = j.new /\ k.prev = j.prev
  BY DEF ThenRebuild, Rebuild, LeaveOf, Idle, Jobs

LEMMA RebuildShape ==
  ASSUME NEW j \in Jobs, NEW ts
  PROVE  LET k == Rebuild(j, ts) IN
         /\ k.at = "list" /\ k.op = j.op /\ k.id = j.id /\ k.tiers = ts
         /\ k.areas = j.areas /\ k.fp = j.fp /\ k.prev = {}
  BY DEF Rebuild, Jobs

LEMMA AreaShape ==
  ASSUME NEW j \in Jobs, NEW F, NEW ts
  PROVE  LET k == AreaOf(j, F, ts) IN
         /\ k.at = "list" /\ k.op = j.op /\ k.id = j.id /\ k.tiers = ts
         /\ k.areas = j.areas /\ k.fp = F /\ k.prev = {}
  BY DEF AreaOf, Rebuild, Jobs

LEMMA ListShape ==
  ASSUME NEW j \in Jobs
  PROVE  LET k == Listed(j) IN
         /\ k.at = (IF FilesIn(Head(j.tiers)) = {} THEN "upsert" ELSE "rows")
         /\ k.todo = SetToSeq(FilesIn(Head(j.tiers))) /\ k.found = j.found
         /\ k.listed = FilesIn(Head(j.tiers))
         /\ k.prev = j.prev /\ k.op = j.op /\ k.id = j.id
         /\ k.tiers = j.tiers /\ k.areas = j.areas /\ k.fp = j.fp
  BY DEF Listed, Jobs

LEMMA SkipShape ==
  ASSUME NEW j \in Jobs
  PROVE  LET k == SkipOf(j) IN
         /\ k.at = j.at /\ k.op = j.op /\ k.areas = Tail(j.areas) /\ k.prev = j.prev
         /\ k.id = j.id
  BY DEF SkipOf, Jobs

LEMMA EngineShapes ==
  /\ LET k == Rebuild([Idle EXCEPT !.op = "watch"], BothTiers)
     IN  /\ k.at = "list" /\ k.op = "watch" /\ k.tiers = BothTiers /\ k.prev = {}
         /\ k.id = NoOne
  /\ \A as : LET k == CheckOf(as) IN
        k.at = "check" /\ k.op = "open" /\ k.areas = as /\ k.prev = {} /\ k.id = NoOne
  BY DEF Rebuild, Idle, CheckOf

\* A client's step is taken while the daemon is up, by a client that is not in
\* the engine, and leaves the engine where it is.
LEMMA ClientSteps ==
  ASSUME Typed, PhaseInv, NEW c \in Clients, RequestStep(c) \/ RebuildStep(c)
  PROVE  /\ phase = "up" /\ UNCHANGED phase /\ job'[Engine] = job[Engine]
         /\ \A d \in Clients \ {c} : job'[d] = job[d]
         /\ job'[c].op \notin {"open", "watch"} /\ job'[c].at # "check"
<1> c \in Procs /\ Engine \in Procs /\ c # Engine
  BY ClientsAssumption DEF Procs
<1>0. job[c] \in SoundJobs /\ job[c] \in Jobs /\ job[c].op \notin {"open", "watch"}
  BY DEF Typed, SoundJobs, PhaseInv
<1>1. /\ phase = "up" /\ UNCHANGED phase
      /\ \E k : Step(c, k) /\ k.op \notin {"open", "watch"} /\ k.at # "check"
  <2>1. CASE CreateIn(c) \/ Update(c) \/ Relocate(c) \/ Delete(c)
    <3>1. phase = "up" /\ UNCHANGED phase
      BY <2>1 DEF CreateIn, Update, Relocate, Delete, Enters
    <3>2. \E k : Step(c, k) /\ k.op \notin {"open", "watch"} /\ k.at # "check"
      <4>1. CASE CreateIn(c)
        <5>1. PICK i \in Ids, p \in Places :
                Step(c, SaveOf("create", i, p, texts + 1, <<Tier(p)>>))
          BY <4>1 DEF CreateIn, SaveOf
        <5> QED
          BY <5>1, SaveShape
      <4>2. CASE Update(c)
        <5>1. PICK i \in Ids :
                Step(c, SaveOf("update", i, row[i].place, texts + 1, <<Tier(row[i].place)>>))
          BY <4>2 DEF Update, SaveOf
        <5> QED
          BY <5>1, SaveShape
      <4>3. CASE Relocate(c)
        <5>1. PICK i \in Ids : \E to \in Relocated(row[i].place) :
                Step(c, MoveOf(i, row[i].place, to, TiersOfMove(row[i].place, to)))
          BY <4>3 DEF Relocate, MoveOf
        <5> QED
          BY <5>1, MoveShape
      <4>4. CASE Delete(c)
        <5>1. PICK i \in Ids :
                Step(c, UnlinkOf(i, row[i].place, <<Tier(row[i].place)>>))
          BY <4>4 DEF Delete, UnlinkOf
        <5> QED
          BY <5>1, UnlinkShape
      <4> QED
        BY <2>1, <4>1, <4>2, <4>3, <4>4
    <3> QED
      BY <3>1, <3>2
  <2>2. CASE Save(c) \/ MoveFile(c) \/ LeaveOld(c) \/ Unlink(c)
    <3>1. phase = "up" /\ UNCHANGED phase
      BY <2>2, IdleShape DEF Save, MoveFile, LeaveOld, Unlink, PhaseInv
    <3>2. \E k : Step(c, k) /\ k.op \notin {"open", "watch"} /\ k.at # "check"
      BY <1>0, <2>2, IdleShape, RequestShapes
        DEF Save, MoveFile, LeaveOld, Unlink, Ends, LeaveOf
    <3> QED
      BY <3>1, <3>2
  <2>3. CASE RebuildStep(c)
    <3>1. phase = "up" /\ UNCHANGED phase
      <4>1. job[c].at \in {"list", "rows", "parse", "upsert"} /\ UNCHANGED phase
        BY <2>3 DEF RebuildStep, List, ReadRows, ParseNext, Upsert, sameInRebuild
      <4> QED
        BY <4>1, IdleShape DEF PhaseInv
    <3>2. \E k : Step(c, k) /\ k.op \notin {"open", "watch"} /\ k.at # "check"
      <4>1. CASE List(c)
        <5>1. Step(c, Listed(job[c])) /\ job[c].at = "list"
          BY <4>1 DEF List, Listed
        <5>2. Listed(job[c]).op = job[c].op /\ Listed(job[c]).at \in {"rows", "parse", "upsert"}
          BY <1>0 DEF Listed, Jobs
        <5> QED
          BY <1>0, <5>1, <5>2
      <4>r. CASE ReadRows(c)
        <5>1. PICK rows \in SUBSET RowsIn(Head(job[c].tiers)) :
                job[c].at = "rows" /\ Step(c, WithRows(job[c], rows))
          BY <4>r DEF ReadRows, WithRows
        <5> QED
          BY <1>0, <5>1, RowsSound
      <4>2. CASE ParseNext(c)
        <5>1. Step(c, Parsed(job[c])) /\ job[c].at = "parse"
          BY <4>2 DEF ParseNext, Parsed
        <5> QED
          BY <1>0, <5>1, ParseSound
      <4>3. CASE Upsert(c)
        <5>1. CASE \E ok \in BOOLEAN : Finishes(c, ok)
          BY <1>0, <5>1, IdleShape DEF Finishes, Ends
        <5>2. CASE Step(c, Rebuild(job[c], Tail(job[c].tiers)))
          BY <1>0, <5>2, RebuildShape
        <5> QED
          BY <4>3, <5>1, <5>2 DEF Upsert
      <4> QED
        BY <2>3, <4>1, <4>r, <4>2, <4>3 DEF RebuildStep
    <3> QED
      BY <3>1, <3>2
  <2> QED
    BY <2>1, <2>2, <2>3 DEF RequestStep
<1>2. PICK k : Step(c, k) /\ k.op \notin {"open", "watch"} /\ k.at # "check"
  BY <1>1
<1>3. job'[c] = k /\ \A q \in Procs \ {c} : job'[q] = job[q]
  BY <1>2, StepShape
<1>4. \A d \in Clients : d \in Procs
  BY DEF Procs
<1> QED
  BY <1>1, <1>2, <1>3, <1>4

\* So is a step of a rebuild in the engine, but for the phase.
LEMMA EngineRebuilds ==
  ASSUME Typed, PhaseInv, RebuildStep(Engine)
  PROVE  /\ UNCHANGED phase /\ \A d \in Clients : job'[d] = job[d]
         /\ \/ job'[Engine].op = job[Engine].op /\ job'[Engine].at \in Rebuilding
            \/ job[Engine].op # "open" /\ job'[Engine] = Idle
            \/ job[Engine].op = "open" /\ job'[Engine] = CheckOf(Tail(job[Engine].areas))
<1> Engine \in Procs /\ \A d \in Clients : d \in Procs /\ d # Engine
  BY ClientsAssumption DEF Procs
<1> DEFINE j == job[Engine]
<1>0. j \in SoundJobs /\ j \in Jobs
  BY DEF Typed, SoundJobs
<1>1. \E k : /\ Step(Engine, k)
             /\ \/ k.op = j.op /\ k.at \in Rebuilding
                \/ j.op # "open" /\ k = Idle
                \/ j.op = "open" /\ k = CheckOf(Tail(j.areas))
  <2>1. CASE List(Engine)
    <3>1. Step(Engine, Listed(j))
      BY <2>1 DEF List, Listed
    <3>2. Listed(j).op = j.op /\ Listed(j).at \in Rebuilding
      BY <1>0 DEF Listed, Jobs, Rebuilding
    <3> QED
      BY <3>1, <3>2
  <2>r. CASE ReadRows(Engine)
    <3>1. PICK rows \in SUBSET RowsIn(Head(j.tiers)) : j.at = "rows" /\ Step(Engine, WithRows(j, rows))
      BY <2>r DEF ReadRows, WithRows
    <3> QED
      BY <1>0, <3>1, RowsSound DEF Rebuilding
  <2>2. CASE ParseNext(Engine)
    <3>1. Step(Engine, Parsed(j)) /\ j.at = "parse"
      BY <2>2 DEF ParseNext, Parsed
    <3> QED
      BY <1>0, <3>1, ParseSound DEF Rebuilding
  <2>3. CASE Upsert(Engine)
    <3>1. CASE \E ok \in BOOLEAN : Finishes(Engine, ok)
      BY <3>1 DEF Finishes, Ends, CheckOf
    <3>2. CASE Step(Engine, Rebuild(j, Tail(j.tiers)))
      <4>1. /\ Rebuild(j, Tail(j.tiers)).op = j.op
            /\ Rebuild(j, Tail(j.tiers)).at \in Rebuilding
        BY <1>0, RebuildShape DEF Rebuilding
      <4> QED
        BY <3>2, <4>1
    <3> QED
      BY <2>3, <3>1, <3>2 DEF Upsert
  <2> QED
    BY <2>1, <2>r, <2>2, <2>3 DEF RebuildStep
<1>2. UNCHANGED phase
  BY DEF RebuildStep, List, ReadRows, ParseNext, Upsert, sameInRebuild
<1> QED
  BY <1>1, <1>2, StepShape

LEMMA PhaseInductive ==
  ASSUME Typed, PhaseInv, [Next]_vars
  PROVE  PhaseInv'
<1> Engine \in Procs /\ \A d \in Clients : d \in Procs /\ d # Engine
  BY ClientsAssumption DEF Procs
<1>0. \A p \in Procs : job[p] \in SoundJobs /\ job[p] \in Jobs
  BY DEF Typed, SoundJobs
<1>1. CASE \E c \in Clients : RequestStep(c) \/ RebuildStep(c)
  <2>1. PICK c \in Clients : RequestStep(c) \/ RebuildStep(c)
    BY <1>1
  <2> QED
    BY <2>1, ClientSteps DEF PhaseInv
<1>2. CASE RebuildStep(Engine)
  <2>1. job[Engine].at \in Rebuilding
    BY <1>2 DEF RebuildStep, List, ReadRows, ParseNext, Upsert, Rebuilding
  <2>2. pending' = pending
    BY <1>2 DEF RebuildStep, List, ReadRows, ParseNext, Upsert, sameInRebuild
  <2>3. phase = phase' /\ \A d \in Clients : job'[d] = job[d]
    BY <1>2, EngineRebuilds
  <2>4. CASE job'[Engine].op = job[Engine].op /\ job'[Engine].at \in Rebuilding
    <3>1. job[Engine] # Idle /\ job'[Engine].at # "check"
      BY <2>1, <2>4, IdleShape DEF Rebuilding
    <3> QED
      BY <2>2, <2>3, <2>4, <3>1 DEF PhaseInv
  <2>5. CASE job[Engine].op # "open" /\ job'[Engine] = Idle
    BY <2>2, <2>3, <2>5, IdleShape DEF PhaseInv
  <2>6. CASE job[Engine].op = "open" /\ job'[Engine] = CheckOf(Tail(job[Engine].areas))
    BY <2>2, <2>3, <2>6, EngineShapes DEF PhaseInv
  <2> QED
    BY <1>2, <2>4, <2>5, <2>6, EngineRebuilds
<1>3. CASE OnWatchChange
  BY <1>3, EngineShapes, StepShape DEF OnWatchChange, PhaseInv, Rebuilding
<1>4. CASE Open
  <2>1. Step(Engine, CheckOf(BothTiers))
    BY <1>4 DEF Open, CheckOf
  <2>2. job'[Engine] = CheckOf(BothTiers) /\ \A d \in Clients : job'[d] = job[d]
    BY <2>1, StepShape
  <2>3. job'[Engine].op = "open" /\ phase' = "opening" /\ UNCHANGED pending
    BY <1>4, <2>2, EngineShapes DEF Open
  <2> QED
    BY <1>4, <2>2, <2>3 DEF Open, PhaseInv
<1>5. CASE CheckArea
  <2>1. job[Engine].at = "check" /\ job[Engine].op = "open" /\ job[Engine].areas # <<>>
    BY <1>5 DEF CheckArea, PhaseInv
  <2>2. job'[Engine].op = "open" /\ \A d \in Clients : job'[d] = job[d]
    <3>1. CASE Fingerprint(Head(job[Engine].areas)) = stored[Head(job[Engine].areas)]
      <4>1. Step(Engine, SkipOf(job[Engine]))
        BY <1>5, <3>1 DEF CheckArea, SkipOf
      <4>2. SkipOf(job[Engine]).op = "open"
        BY <1>0, <2>1, SkipShape
      <4> QED
        BY <4>1, <4>2, StepShape
    <3>2. CASE Fingerprint(Head(job[Engine].areas)) # stored[Head(job[Engine].areas)]
      <4> DEFINE ts == IF Head(job[Engine].areas) = "workspace" THEN BothTiers
                       ELSE <<Head(job[Engine].areas)>>
                 k == AreaOf(job[Engine], Fingerprint(Head(job[Engine].areas)), ts)
      <4>1. Step(Engine, k)
        BY <1>5, <3>2 DEF CheckArea, AreaOf
      <4>2. k.op = "open"
        BY <1>0, <2>1, AreaShape
      <4> HIDE DEF k
      <4> QED
        BY <4>1, <4>2, StepShape
    <3> QED
      BY <3>1, <3>2
  <2> QED
    BY <1>5, <2>1, <2>2, IdleShape DEF CheckArea, PhaseInv
<1>6. CASE Opened
  BY <1>6, IdleShape, StepShape DEF Opened, Ends, PhaseInv
<1>7. CASE Crash
  <2>1. \A p \in Procs : job'[p] = Idle
    BY <1>7 DEF Crash
  <2> QED
    BY <1>7, <2>1, IdleShape DEF Crash, PhaseInv
<1>8. CASE Edit
  <2>1. phase # "up" => UNCHANGED pending
    BY <1>8 DEF Edit, Changes
  <2> QED
    BY <1>8, <2>1 DEF Edit, PhaseInv
<1>9. CASE UNCHANGED vars
  BY <1>9 DEF PhaseInv, vars, dataVars
<1> QED
  BY <1>1, <1>2, <1>3, <1>4, <1>5, <1>6, <1>7, <1>8, <1>9 DEF Next, Procs

LEMMA ProcessInit == Init => Typed /\ PhaseInv
<1>1. Init => PhaseInv
  BY IdleShape DEF Init, PhaseInv, Procs
<1> QED
  BY <1>1, TypedInit

\* The types of the state hold at every step, and the engine and the requests
\* are where the phase of the daemon says.
THEOREM TypeCorrect == Spec => []TypeOK
<1>1. Init => Typed /\ PhaseInv
  BY ProcessInit
<1>2. Typed /\ PhaseInv /\ [Next]_vars => Typed' /\ PhaseInv'
  BY TypedInductive, PhaseInductive
<1>3. Typed => TypeOK
  <2> SUFFICES ASSUME Typed PROVE TypeOK
    OBVIOUS
  <2>1. ASSUME NEW p \in Procs
        PROVE  /\ job[p].at \in {"idle", "save", "move", "leave", "unlink",
                                 "list", "rows", "parse", "upsert", "check"}
               /\ job[p].at \in {"save", "move", "leave", "unlink"} => job[p].id \in Ids
               /\ job[p].at \in {"list", "rows", "parse", "upsert"} => job[p].tiers # <<>>
               /\ \A x \in ToSet(job[p].found) :
                    x.text \in Texts /\ \E q \in Places : <<x.id, q>> \in job[p].listed
    <3>1. job[p] \in Jobs /\ JobSound(job[p]) /\ RebuildSound(job[p])
      BY DEF Typed, SoundJobs
    <3>2. \A x \in ToSet(job[p].found) : x \in RowRecords
      BY <3>1 DEF Jobs, ToSet
    <3> QED
      BY <3>1, <3>2 DEF Jobs, Stages, Rebuilding, JobSound, RebuildSound, RowRecords
  <2>2. \A i \in Ids : row[i] = NoRow \/ (row[i].place \in Places /\ row[i].text \in Texts)
    BY RowTyped
  <2> QED
    BY <2>1, <2>2 DEF Typed, TypeOK
<1> QED
  BY <1>1, <1>2, <1>3, PTL DEF Spec

-----------------------------------------------------------------------------
(* Texts                                                                   *)

\* At most one request is on a flow whose requests have not overlapped; where it
\* will write there is no file, unless it updates one; between the two halves of
\* a move across volumes both places have the text.
Exclusive ==
    \A c, d \in Clients : job[c].id = job[d].id /\ job[c].id \in alone => c = d
TargetFree(c) ==
    job[c].id \in alone =>
        /\ job[c].at = "save" => job[c].op \in {"create", "update"}
        /\ job[c].at = "save" /\ job[c].op = "create" => file[job[c].id][job[c].new] = Gone
        /\ job[c].at = "move" => file[job[c].id][job[c].new] = Gone
        /\ job[c].at = "leave" => file[job[c].id][job[c].new] = file[job[c].id][job[c].old]
Kept(i) == \A t \in owed[i] : \E p \in Places : file[i][p] = t
TextInv ==
    /\ Exclusive
    /\ \A c \in Clients : TargetFree(c)
    /\ \A i \in alone : Kept(i)

\* A request that goes on disturbs no other request and no other flow.
LEMMA OthersAreKept ==
  ASSUME Typed, TextInv, NEW c \in Clients, NEW h, h = job[c].id,
         UNCHANGED alone, job'[c].id \in {job[c].id, NoOne},
         \A d \in Clients \ {c} : job'[d] = job[d],
         \A i \in Ids \ {job[c].id} : file'[i] = file[i] /\ owed'[i] = owed[i],
         TargetFree(c)', h \in alone => Kept(h)'
  PROVE  TextInv'
<1>0. alone \subseteq Ids /\ NoOne \notin alone
  BY IdsAssumption DEF Typed
<1>1. Exclusive'
  BY <1>0 DEF TextInv, Exclusive
<1>2. ASSUME NEW d \in Clients \ {c}
      PROVE  TargetFree(d)'
  <2>1. TargetFree(d) /\ job'[d] = job[d] /\ (job[d].id \in alone => job[d].id # job[c].id)
    BY <1>2 DEF TextInv, Exclusive
  <2>2. job[d].id \in alone => file'[job[d].id] = file[job[d].id]
    BY <1>0, <2>1
  <2> QED
    BY <2>1, <2>2 DEF TargetFree
<1>3. ASSUME NEW i \in alone
      PROVE  Kept(i)'
  <2>1. CASE i = h
    BY <2>1
  <2>2. CASE i # h
    BY <1>0, <1>3, <2>2 DEF TextInv, Kept
  <2> QED
    BY <2>1, <2>2
<1> QED
  BY <1>1, <1>2, <1>3 DEF TextInv

\* A request that begins while another is on its flow takes the flow out.
LEMMA BeginningKeeps ==
  ASSUME Typed, TextInv, NEW c \in Clients, NEW i \in Ids, Enters(c, i),
         job'[c].id = i, \A d \in Clients \ {c} : job'[d] = job[d],
         UNCHANGED <<file, owed>>, TargetFree(c)'
  PROVE  TextInv'
<1>0. alone' \subseteq alone /\ (i \in alone' => \A d \in Clients : job[d].id # i)
  BY DEF Enters
<1>1. Exclusive'
  BY <1>0 DEF TextInv, Exclusive
<1>2. ASSUME NEW d \in Clients \ {c}
      PROVE  TargetFree(d)'
  BY <1>0, <1>2 DEF TextInv, TargetFree
<1>3. ASSUME NEW k \in alone'
      PROVE  Kept(k)'
  BY <1>0, <1>3 DEF TextInv, Kept
<1> QED
  BY <1>1, <1>2, <1>3 DEF TextInv

LEMMA RequestsKeepTexts ==
  ASSUME Typed, TextInv, NEW c \in Clients, RequestStep(c)
  PROVE  TextInv'
<1> c \in Procs /\ Clients \subseteq Procs
  BY DEF Procs
<1> DEFINE j == job[c]
<1>0. j \in SoundJobs /\ j \in Jobs /\ JobSound(j)
  BY DEF Typed, SoundJobs
<1>h. PICK h : h = j.id
  OBVIOUS
<1>1. CASE CreateIn(c)
  <2>1. PICK i \in Ids, p \in Places :
          /\ Enters(c, i) /\ Free(i, p)
          /\ Step(c, SaveOf("create", i, p, texts + 1, <<Tier(p)>>))
    BY <1>1 DEF CreateIn, SaveOf
  <2> DEFINE k == SaveOf("create", i, p, texts + 1, <<Tier(p)>>)
  <2>2. k.at = "save" /\ k.op = "create" /\ k.id = i /\ k.new = p
    BY SaveShape
  <2> HIDE DEF k
  <2>3. job'[c] = k /\ \A d \in Clients \ {c} : job'[d] = job[d]
    BY <2>1, StepShape DEF k
  <2>4. TargetFree(c)'
    BY <1>1, <2>1, <2>2, <2>3 DEF CreateIn, TargetFree, Free
  <2> QED
    BY <1>1, <2>1, <2>2, <2>3, <2>4, BeginningKeeps DEF CreateIn
<1>2. CASE Update(c)
  <2>1. PICK i \in Ids :
          /\ Enters(c, i)
          /\ Step(c, SaveOf("update", i, row[i].place, texts + 1, <<Tier(row[i].place)>>))
    BY <1>2 DEF Update, SaveOf
  <2> DEFINE k == SaveOf("update", i, row[i].place, texts + 1, <<Tier(row[i].place)>>)
  <2>2. k.at = "save" /\ k.op = "update" /\ k.id = i
    BY SaveShape
  <2> HIDE DEF k
  <2>3. job'[c] = k /\ \A d \in Clients \ {c} : job'[d] = job[d]
    BY <2>1, StepShape DEF k
  <2>4. TargetFree(c)'
    BY <2>2, <2>3 DEF TargetFree
  <2> QED
    BY <1>2, <2>1, <2>2, <2>3, <2>4, BeginningKeeps DEF Update
<1>3. CASE Relocate(c)
  <2>1. PICK i \in Ids : /\ Enters(c, i)
          /\ \E to \in Relocated(row[i].place) :
               /\ file[i][to] = Gone
               /\ Step(c, MoveOf(i, row[i].place, to, TiersOfMove(row[i].place, to)))
    BY <1>3 DEF Relocate, MoveOf
  <2>2. PICK to \in Relocated(row[i].place) :
               /\ file[i][to] = Gone
               /\ Step(c, MoveOf(i, row[i].place, to, TiersOfMove(row[i].place, to)))
    BY <2>1
  <2> DEFINE k == MoveOf(i, row[i].place, to, TiersOfMove(row[i].place, to))
  <2>3. k.at = "move" /\ k.id = i /\ k.new = to
    BY MoveShape
  <2> HIDE DEF k
  <2>4. job'[c] = k /\ \A d \in Clients \ {c} : job'[d] = job[d]
    BY <2>2, StepShape DEF k
  <2>5. TargetFree(c)'
    BY <1>3, <2>2, <2>3, <2>4 DEF Relocate, dataVars, TargetFree
  <2> QED
    BY <1>3, <2>1, <2>3, <2>4, <2>5, BeginningKeeps DEF Relocate, dataVars
<1>4. CASE Delete(c)
  <2>1. PICK i \in Ids :
          /\ Enters(c, i)
          /\ Step(c, UnlinkOf(i, row[i].place, <<Tier(row[i].place)>>))
    BY <1>4 DEF Delete, UnlinkOf
  <2> DEFINE k == UnlinkOf(i, row[i].place, <<Tier(row[i].place)>>)
  <2>2. k.at = "unlink" /\ k.id = i
    BY UnlinkShape
  <2> HIDE DEF k
  <2>3. job'[c] = k /\ \A d \in Clients \ {c} : job'[d] = job[d]
    BY <2>1, StepShape DEF k
  <2>4. TargetFree(c)'
    BY <2>2, <2>3 DEF TargetFree
  <2> QED
    BY <1>4, <2>1, <2>2, <2>3, <2>4, BeginningKeeps DEF Delete, dataVars
<1>5. CASE Save(c)
  <2>1. /\ j.at = "save" /\ j.id \in Ids /\ j.new \in Places /\ j.text \in Texts
    BY <1>0, <1>5 DEF Save, JobSound
  <2>2. /\ job'[c].at = "list" /\ job'[c].id = j.id
        /\ \A d \in Clients \ {c} : job'[d] = job[d]
    BY <1>0, <1>5, StepShape, RequestShapes DEF Save
  <2>3. /\ file' = [file EXCEPT ![j.id] = [file[j.id] EXCEPT ![j.new] = j.text]]
        /\ UNCHANGED alone
        /\ owed' = [owed EXCEPT ![j.id] =
              (IF j.op = "update" THEN NotOwed(j.id, j.new) ELSE owed[j.id]) \cup {j.text}]
    BY <1>5 DEF Save, Changes
  <2>4. /\ \A i \in Ids \ {j.id} : file'[i] = file[i] /\ owed'[i] = owed[i]
        /\ file'[j.id] = [file[j.id] EXCEPT ![j.new] = j.text]
        /\ owed'[j.id] = (IF j.op = "update" THEN NotOwed(j.id, j.new) ELSE owed[j.id])
                             \cup {j.text}
    BY <2>1, <2>3 DEF Typed
  <2>5. TargetFree(c)'
    BY <2>2 DEF TargetFree
  <2>6. ASSUME h \in alone PROVE Kept(h)'
    <3>1. /\ Kept(j.id) /\ file[j.id] \in [Places -> Texts \cup {Gone, Malformed}]
          /\ owed[j.id] \subseteq Texts /\ Gone \notin Texts
      BY <1>h, <2>1, <2>6 DEF TextInv, Typed, Gone, Texts
    <3>2. j.op = "update" \/ file[j.id][j.new] = Gone
      BY <1>h, <2>1, <2>6 DEF TextInv, TargetFree
    <3>3. ASSUME NEW t \in owed[j.id], t # file[j.id][j.new]
          PROVE  \E p \in Places : file'[j.id][p] = t
      <4>1. PICK p \in Places : file[j.id][p] = t
        BY <1>h, <3>1, <3>3 DEF Kept
      <4> QED
        BY <2>1, <2>4, <3>1, <3>3, <4>1
    <3>4. file'[j.id][j.new] = j.text
      BY <2>1, <2>4, <3>1
    <3> QED
      BY <1>h, <2>1, <2>4, <3>1, <3>2, <3>3, <3>4 DEF Kept, NotOwed
  <2> QED
    BY <1>h, <2>2, <2>3, <2>4, <2>5, <2>6, OthersAreKept
<1>6. CASE MoveFile(c)
  <2>1. /\ j.at = "move" /\ j.id \in Ids /\ j.new \in Places /\ j.old \in Places /\ j.old # j.new
    BY <1>0, <1>6 DEF MoveFile, JobSound
  <2>2. UNCHANGED <<alone, owed>>
    BY <1>6 DEF MoveFile
  <2>3. /\ file[j.id] \in [Places -> Texts \cup {Gone, Malformed}]
        /\ owed[j.id] \subseteq Texts /\ Gone \notin Texts
    BY <2>1 DEF Typed, Gone, Texts
  <2>4. CASE Ends(c) /\ UNCHANGED file
    <3>1. job'[c] = Idle /\ \A d \in Clients \ {c} : job'[d] = job[d]
      BY <2>4, StepShape DEF Ends
    <3>2. TargetFree(c)' /\ job'[c].id = NoOne
      BY <3>1, IdleShape DEF TargetFree
    <3>3. h \in alone => Kept(h)'
      BY <1>h, <2>2, <2>4 DEF TextInv, Kept
    <3> QED
      BY <1>h, <2>2, <2>4, <3>1, <3>2, <3>3, OthersAreKept
  <2>5. CASE /\ Changes(j.id, [file[j.id] EXCEPT ![j.new] = file[j.id][j.old], ![j.old] = Gone])
             /\ Step(c, ThenRebuild(j))
    <3>1. /\ job'[c].at = "list" /\ job'[c].id = j.id
          /\ \A d \in Clients \ {c} : job'[d] = job[d]
      BY <1>0, <2>5, StepShape, RequestShapes
    <3>2. /\ \A i \in Ids \ {j.id} : file'[i] = file[i]
          /\ file'[j.id] = [file[j.id] EXCEPT ![j.new] = file[j.id][j.old], ![j.old] = Gone]
      BY <2>1, <2>5 DEF Typed, Changes
    <3>3. TargetFree(c)'
      BY <3>1 DEF TargetFree
    <3>4. ASSUME h \in alone PROVE Kept(h)'
      <4>1. Kept(j.id) /\ file[j.id][j.new] = Gone
        BY <1>h, <2>1, <3>4 DEF TextInv, TargetFree
      <4>2. ASSUME NEW t \in owed[j.id] PROVE \E p \in Places : file'[j.id][p] = t
        <5>1. PICK p \in Places : file[j.id][p] = t
          BY <1>h, <4>1, <4>2 DEF Kept
        <5>2. p # j.new
          BY <2>3, <4>1, <4>2, <5>1
        <5> QED
          BY <2>1, <2>3, <3>2, <5>1, <5>2
      <4> QED
        BY <1>h, <2>2, <4>2 DEF Kept
    <3> QED
      BY <1>h, <2>2, <3>1, <3>2, <3>3, <3>4, OthersAreKept
  <2>6. CASE /\ file[j.id][j.new] = Gone
             /\ Changes(j.id, [file[j.id] EXCEPT ![j.new] = file[j.id][j.old]])
             /\ Step(c, LeaveOf(j))
    <3>1. /\ job'[c].at = "leave" /\ job'[c].id = j.id /\ job'[c].old = j.old /\ job'[c].new = j.new
          /\ \A d \in Clients \ {c} : job'[d] = job[d]
      BY <1>0, <2>6, StepShape, RequestShapes
    <3>2. /\ \A i \in Ids \ {j.id} : file'[i] = file[i]
          /\ file'[j.id] = [file[j.id] EXCEPT ![j.new] = file[j.id][j.old]]
      BY <2>1, <2>6 DEF Typed, Changes
    <3>3. TargetFree(c)'
      BY <2>1, <2>3, <3>1, <3>2 DEF TargetFree
    <3>4. ASSUME h \in alone PROVE Kept(h)'
      <4>1. Kept(j.id)
        BY <1>h, <3>4 DEF TextInv
      <4>2. ASSUME NEW t \in owed[j.id] PROVE \E p \in Places : file'[j.id][p] = t
        <5>1. PICK p \in Places : file[j.id][p] = t
          BY <1>h, <4>1, <4>2 DEF Kept
        <5>2. p # j.new
          BY <2>3, <2>6, <4>2, <5>1
        <5> QED
          BY <2>1, <2>3, <3>2, <5>1, <5>2
      <4> QED
        BY <1>h, <2>2, <4>2 DEF Kept
    <3> QED
      BY <1>h, <2>2, <3>1, <3>2, <3>3, <3>4, OthersAreKept
  <2> QED
    BY <1>6, <2>4, <2>5, <2>6 DEF MoveFile, LeaveOf
<1>7. CASE LeaveOld(c)
  <2>1. /\ j.at = "leave" /\ j.id \in Ids /\ j.new \in Places /\ j.old \in Places /\ j.old # j.new
    BY <1>0, <1>7 DEF LeaveOld, JobSound
  <2>2. UNCHANGED <<alone, owed>>
    BY <1>7 DEF LeaveOld
  <2>3. file[j.id] \in [Places -> Texts \cup {Gone, Malformed}]
    BY <2>1 DEF Typed
  <2>4. CASE Ends(c) /\ UNCHANGED file
    <3>1. job'[c] = Idle /\ \A d \in Clients \ {c} : job'[d] = job[d]
      BY <2>4, StepShape DEF Ends
    <3>2. TargetFree(c)' /\ job'[c].id = NoOne
      BY <3>1, IdleShape DEF TargetFree
    <3>3. h \in alone => Kept(h)'
      BY <1>h, <2>2, <2>4 DEF TextInv, Kept
    <3> QED
      BY <1>h, <2>2, <2>4, <3>1, <3>2, <3>3, OthersAreKept
  <2>5. CASE /\ Changes(j.id, [file[j.id] EXCEPT ![j.old] = Gone])
             /\ Step(c, ThenRebuild(j))
    <3>1. /\ job'[c].at = "list" /\ job'[c].id = j.id
          /\ \A d \in Clients \ {c} : job'[d] = job[d]
      BY <1>0, <2>5, StepShape, RequestShapes
    <3>2. /\ \A i \in Ids \ {j.id} : file'[i] = file[i]
          /\ file'[j.id] = [file[j.id] EXCEPT ![j.old] = Gone]
      BY <2>1, <2>5 DEF Typed, Changes
    <3>3. TargetFree(c)'
      BY <3>1 DEF TargetFree
    <3>4. ASSUME h \in alone PROVE Kept(h)'
      <4>1. Kept(j.id) /\ file[j.id][j.new] = file[j.id][j.old]
        BY <1>h, <2>1, <3>4 DEF TextInv, TargetFree
      <4>2. ASSUME NEW t \in owed[j.id] PROVE \E p \in Places : file'[j.id][p] = t
        <5>1. PICK p \in Places : file[j.id][p] = t /\ p # j.old
          BY <1>h, <2>1, <4>1, <4>2 DEF Kept
        <5> QED
          BY <2>1, <2>3, <3>2, <5>1
      <4> QED
        BY <1>h, <2>2, <4>2 DEF Kept
    <3> QED
      BY <1>h, <2>2, <3>1, <3>2, <3>3, <3>4, OthersAreKept
  <2> QED
    BY <1>7, <2>4, <2>5 DEF LeaveOld
<1>8. CASE Unlink(c)
  <2>1. /\ j.at = "unlink" /\ j.id \in Ids /\ j.old \in Places
    BY <1>0, <1>8 DEF Unlink, JobSound
  <2>2. UNCHANGED alone /\ owed' = [owed EXCEPT ![j.id] = NotOwed(j.id, j.old)]
    BY <1>8 DEF Unlink
  <2>3. file[j.id] \in [Places -> Texts \cup {Gone, Malformed}]
    BY <2>1 DEF Typed
  <2>4. /\ job'[c].at = "list" /\ job'[c].id = j.id
        /\ \A d \in Clients \ {c} : job'[d] = job[d]
    BY <1>0, <1>8, StepShape, RequestShapes DEF Unlink
  <2>5. /\ \A i \in Ids \ {j.id} : file'[i] = file[i] /\ owed'[i] = owed[i]
        /\ \A p \in Places \ {j.old} : file'[j.id][p] = file[j.id][p]
        /\ owed'[j.id] = NotOwed(j.id, j.old)
    BY <1>8, <2>1, <2>2, <2>3 DEF Unlink, Changes, Typed
  <2>6. TargetFree(c)'
    BY <2>4 DEF TargetFree
  <2>7. ASSUME h \in alone PROVE Kept(h)'
    BY <1>h, <2>1, <2>5, <2>7 DEF TextInv, Kept, NotOwed
  <2> QED
    BY <1>h, <2>2, <2>4, <2>5, <2>6, <2>7, OthersAreKept
<1> QED
  BY <1>1, <1>2, <1>3, <1>4, <1>5, <1>6, <1>7, <1>8 DEF RequestStep

\* A rebuild goes on with its tier or its next one, or is over.
LEMMA RebuildGoesOn ==
  ASSUME Typed, NEW p \in Procs, RebuildStep(p)
  PROVE  /\ job[p].at \in Rebuilding
         /\ job'[p].at \in Rebuilding \cup {"idle", "check"}
         /\ job'[p].id \in {job[p].id, NoOne}
         /\ \A q \in Procs \ {p} : job'[q] = job[q]
         /\ UNCHANGED <<file, texts, phase, pending, requests, edits, alone, owed>>
<1> DEFINE j == job[p]
<1>0. j \in SoundJobs /\ j \in Jobs
  BY DEF Typed, SoundJobs
<1>1. CASE List(p)
  <2>1. Step(p, Listed(j)) /\ j.at = "list"
    BY <1>1 DEF List, Listed
  <2>2. Listed(j).at \in Rebuilding /\ Listed(j).id = j.id
    BY <1>0, ListShape DEF Rebuilding
  <2> QED
    BY <1>1, <2>1, <2>2, StepShape DEF List, sameInRebuild, Rebuilding
<1>r. CASE ReadRows(p)
  <2>1. PICK rows \in SUBSET RowsIn(Head(j.tiers)) : j.at = "rows" /\ Step(p, WithRows(j, rows))
    BY <1>r DEF ReadRows, WithRows
  <2>2. WithRows(j, rows).at \in Rebuilding /\ WithRows(j, rows).id = j.id
    BY <1>0, <2>1, RowsSound DEF Rebuilding
  <2> QED
    BY <1>r, <2>1, <2>2, StepShape DEF ReadRows, sameInRebuild, Rebuilding
<1>2. CASE ParseNext(p)
  <2>1. Step(p, Parsed(j)) /\ j.at = "parse"
    BY <1>2 DEF ParseNext, Parsed
  <2>2. Parsed(j).at \in Rebuilding /\ Parsed(j).id = j.id
    BY <1>0, <2>1, ParseSound DEF Rebuilding
  <2> QED
    BY <1>2, <2>1, <2>2, StepShape DEF ParseNext, sameInRebuild, Rebuilding
<1>3. CASE Upsert(p)
  <2>1. \E k : Step(p, k) /\ k.at \in Rebuilding \cup {"idle", "check"} /\ k.id \in {j.id, NoOne}
    <3>1. CASE \E ok \in BOOLEAN : Finishes(p, ok)
      <4>1. Step(p, Idle) \/ Step(p, CheckOf(Tail(j.areas)))
        BY <3>1 DEF Finishes, Ends, CheckOf
      <4> QED
        BY <4>1, IdleShape, EngineShapes
    <3>2. CASE Step(p, Rebuild(j, Tail(j.tiers)))
      BY <1>0, <3>2, RebuildShape DEF Rebuilding
    <3> QED
      BY <1>3, <3>1, <3>2 DEF Upsert
  <2> QED
    BY <1>3, <2>1, StepShape DEF Upsert, sameInRebuild, Rebuilding
<1> QED
  BY <1>1, <1>r, <1>2, <1>3 DEF RebuildStep

\* The engine's own steps leave the requests, unless the process stops.
LEMMA EngineSteps ==
  ASSUME Typed, OnWatchChange \/ Open \/ CheckArea \/ Opened
  PROVE  /\ \A d \in Clients : job'[d] = job[d]
         /\ UNCHANGED <<file, row, texts, requests, edits, alone, owed>>
<1> Engine \in Procs /\ \A d \in Clients : d \in Procs /\ d # Engine
  BY ClientsAssumption DEF Procs
<1>1. \E k : Step(Engine, k)
  BY DEF OnWatchChange, Open, CheckArea, Opened, Ends
<1>2. UNCHANGED <<file, row, texts, requests, edits, alone, owed>>
  BY DEF OnWatchChange, Open, CheckArea, Opened, dataVars, ghostVars
<1> QED
  BY <1>1, <1>2, StepShape

LEMMA TextsInductive ==
  ASSUME Typed, PhaseInv, TextInv, [Next]_vars
  PROVE  TextInv'
<1> Engine \in Procs /\ \A d \in Clients : d \in Procs /\ d # Engine
  BY ClientsAssumption DEF Procs
<1>0. alone \subseteq Ids /\ NoOne \notin alone
  BY IdsAssumption DEF Typed
<1>s. ASSUME \A d \in Clients : job'[d] = job[d], UNCHANGED <<file, alone, owed>>
      PROVE  TextInv'
  BY <1>s DEF TextInv, Exclusive, TargetFree, Kept
<1>1. CASE \E c \in Clients : RequestStep(c)
  BY <1>1, RequestsKeepTexts
<1>2. CASE \E c \in Clients : RebuildStep(c)
  <2>1. PICK c \in Clients : RebuildStep(c)
    BY <1>2
  <2>2. PICK h : h = job[c].id
    OBVIOUS
  <2>3. /\ job'[c].at \in Rebuilding \cup {"idle", "check"} /\ job'[c].id \in {job[c].id, NoOne}
        /\ \A d \in Clients \ {c} : job'[d] = job[d]
        /\ UNCHANGED <<file, alone, owed>>
    BY <2>1, RebuildGoesOn
  <2>4. TargetFree(c)'
    BY <2>3 DEF TargetFree, Rebuilding
  <2>5. h \in alone => Kept(h)'
    BY <2>3 DEF TextInv, Kept
  <2> QED
    BY <2>2, <2>3, <2>4, <2>5, OthersAreKept
<1>3. CASE RebuildStep(Engine)
  BY <1>3, <1>s, RebuildGoesOn
<1>4. CASE OnWatchChange \/ Open \/ CheckArea \/ Opened
  BY <1>4, <1>s, EngineSteps
<1>5. CASE Crash
  <2>1. \A d \in Clients : job'[d] = Idle
    BY <1>5 DEF Crash
  <2>2. UNCHANGED <<file, alone, owed>>
    BY <1>5 DEF Crash, dataVars
  <2> QED
    BY <1>0, <2>1, <2>2, IdleShape DEF TextInv, Exclusive, TargetFree, Kept
<1>6. CASE Edit
  <2>1. PICK i \in Ids, p \in Places :
          /\ \A q \in Places \ {p} : file[i][q] = Gone
          /\ \/ \E to \in {Gone, Malformed} \cup ({texts + 1} \cap Texts) :
                  owed' = [owed EXCEPT ![i] = NotOwed(i, p)]
             \/ \E q \in Places \ {p} :
                  /\ Changes(i, [file[i] EXCEPT ![q] = file[i][p], ![p] = Gone])
                  /\ UNCHANGED <<texts, owed>>
          /\ \E new : Changes(i, new)
          /\ alone' = IF \E c \in Clients : job[c].id = i THEN alone \ {i} ELSE alone
    BY <1>6 DEF Edit
  <2>2. UNCHANGED job
    BY <1>6 DEF Edit
  <2>3. /\ \A k \in Ids \ {i} : file'[k] = file[k]
        /\ \A k \in Ids \ {i} : owed'[k] = owed[k]
    BY <2>1 DEF Changes, Typed
  <2>4. Exclusive'
    BY <2>1, <2>2 DEF TextInv, Exclusive
  <2>5. ASSUME NEW c \in Clients PROVE TargetFree(c)'
    <3>1. job[c].id \in alone' => job[c].id \in alone /\ job[c].id # i
      BY <2>1
    <3> QED
      BY <1>0, <2>2, <2>3, <3>1 DEF TextInv, TargetFree
  <2>6. ASSUME NEW k \in alone' PROVE Kept(k)'
    <3>1. k \in alone /\ k \in Ids
      BY <1>0, <2>1, <2>6
    <3>2. CASE k # i
      BY <2>3, <3>1, <3>2 DEF TextInv, Kept
    <3>3. CASE k = i
      <4>1. Kept(i) /\ owed[i] \subseteq Texts /\ Gone \notin Texts
        BY <3>1, <3>3 DEF TextInv, Typed, Gone, Texts
      <4>2. \A t \in owed[i] : t = file[i][p]
        BY <2>1, <4>1 DEF Kept
      <4>3. CASE owed' = [owed EXCEPT ![i] = NotOwed(i, p)]
        <5>1. owed'[i] = {}
          BY <4>2, <4>3 DEF NotOwed, Typed
        <5> QED
          BY <3>3, <5>1 DEF Kept
      <4>4. CASE \E q \in Places \ {p} :
                  /\ Changes(i, [file[i] EXCEPT ![q] = file[i][p], ![p] = Gone])
                  /\ UNCHANGED <<texts, owed>>
        <5>1. PICK q \in Places \ {p} :
                  file' = [file EXCEPT ![i] = [file[i] EXCEPT ![q] = file[i][p], ![p] = Gone]]
          BY <4>4 DEF Changes
        <5>2. file'[i][q] = file[i][p]
          BY <5>1 DEF Typed
        <5> QED
          BY <3>3, <4>2, <4>4, <5>2 DEF Kept
      <4> QED
        BY <2>1, <4>3, <4>4
    <3> QED
      BY <3>2, <3>3
  <2> QED
    BY <2>4, <2>5, <2>6 DEF TextInv
<1>7. CASE UNCHANGED vars
  BY <1>7, <1>s DEF vars, dataVars, ghostVars
<1> QED
  BY <1>1, <1>2, <1>3, <1>4, <1>5, <1>6, <1>7 DEF Next, Procs

\* A flow's text stays in a file until a request or an editor replaces or deletes
\* it: through moves in one step or two, failures and crashes, for every flow
\* whose requests do not overlap.
THEOREM TextsStay == Spec => []TextsAreKept
<1>1. Init => TextInv
  BY IdleShape, IdsAssumption DEF Init, Procs, TextInv, Exclusive, TargetFree, Kept
<1>2. Init => Typed /\ PhaseInv
  BY ProcessInit
<1>3. Typed /\ PhaseInv /\ TextInv /\ [Next]_vars => Typed' /\ PhaseInv' /\ TextInv'
  BY TypedInductive, PhaseInductive, TextsInductive
<1>4. TextInv => TextsAreKept
  BY DEF TextInv, Kept, TextsAreKept
<1> QED
  BY <1>1, <1>2, <1>3, <1>4, PTL DEF Spec

-----------------------------------------------------------------------------
(* What is found                                                           *)

\* A rebuild that has listed its tier has all its files to parse when it has read the
\* rows, and then, for every row there was and every file of it at the row's path, or
\* under the flow's name, that file still to parse or a row of the flow among what it
\* has found.
FoundListed(j) ==
    /\ j.at = "rows" => j.listed \subseteq ToSet(j.todo)
    /\ j.at = "parse" \/ j.at = "upsert" =>
         \A x \in j.prev : \A q \in Named \cup {x.place} :
            \/ <<x.id, q>> \notin j.listed
            \/ <<x.id, q>> \in ToSet(j.todo)
            \/ \E y \in ToSet(j.found) : y.id = x.id
FoundInv == \A p \in Procs : FoundListed(job[p])

\* Only listing a tier, reading its rows and parsing a file bring a job to where it has read files.
LEMMA OnlyRebuildsRead ==
  ASSUME Typed, PhaseInv, NEW p \in Procs, [Next]_vars
  PROVE  \/ job'[p] = job[p]
         \/ List(p) /\ job[p].at = "list" /\ job'[p] = Listed(job[p])
         \/ /\ ReadRows(p) /\ job[p].at = "rows"
            /\ \E rows \in SUBSET RowsIn(Head(job[p].tiers)) : job'[p] = WithRows(job[p], rows)
         \/ ParseNext(p) /\ job[p].at = "parse" /\ job'[p] = Parsed(job[p])
         \/ job'[p].at \notin {"rows", "parse", "upsert"} /\ (job[p].at = "upsert" => Upsert(p) \/ Crash)
<1> Engine \in Procs /\ \A d \in Clients : d \in Procs /\ d # Engine
  BY ClientsAssumption DEF Procs
<1>0. \A q \in Procs : job[q] \in SoundJobs /\ job[q] \in Jobs
  BY DEF Typed, SoundJobs
<1>1. CASE \E q \in Procs : RebuildStep(q)
  <2>1. PICK q \in Procs : RebuildStep(q)
    BY <1>1
  <2>2. CASE q # p
    BY <2>1, <2>2, RebuildGoesOn
  <2>3. CASE q = p
    <3>1. CASE List(p)
      <4>1. Step(p, Listed(job[p])) /\ job[p].at = "list"
        BY <3>1 DEF List, Listed
      <4> QED
        BY <3>1, <4>1, StepShape
    <3>r. CASE ReadRows(p)
      <4>1. PICK rows \in SUBSET RowsIn(Head(job[p].tiers)) :
              job[p].at = "rows" /\ Step(p, WithRows(job[p], rows))
        BY <3>r DEF ReadRows, WithRows
      <4> QED
        BY <3>r, <4>1, StepShape
    <3>2. CASE ParseNext(p)
      <4>1. Step(p, Parsed(job[p])) /\ job[p].at = "parse"
        BY <3>2 DEF ParseNext, Parsed
      <4> QED
        BY <3>2, <4>1, StepShape
    <3>3. CASE Upsert(p)
      <4>1. CASE \E ok \in BOOLEAN : Finishes(p, ok)
        <5>1. Step(p, Idle) \/ Step(p, CheckOf(Tail(job[p].areas)))
          BY <4>1 DEF Finishes, Ends, CheckOf
        <5> QED
          BY <3>3, <5>1, IdleShape, EngineShapes, StepShape
      <4>2. CASE Step(p, Rebuild(job[p], Tail(job[p].tiers)))
        <5>1. Rebuild(job[p], Tail(job[p].tiers)).at = "list"
          BY <1>0, RebuildShape
        <5> QED
          BY <3>3, <4>2, <5>1, StepShape
      <4> QED
        BY <3>3, <4>1, <4>2 DEF Upsert
    <3> QED
      BY <2>1, <2>3, <3>1, <3>r, <3>2, <3>3 DEF RebuildStep
  <2> QED
    BY <2>2, <2>3
<1>2. CASE \E c \in Clients : RequestStep(c)
  <2>1. PICK c \in Clients : RequestStep(c)
    BY <1>2
  <2>2. \E k : Step(c, k) /\ k.at \notin {"rows", "parse", "upsert"} /\ job[c].at # "upsert"
    <3>1. CASE CreateIn(c)
      <4>1. PICK i \in Ids, to \in Places :
              Step(c, SaveOf("create", i, to, texts + 1, <<Tier(to)>>))
        BY <3>1 DEF CreateIn, SaveOf
      <4> QED
        BY <3>1, <4>1, SaveShape, IdleShape DEF CreateIn, Enters
    <3>2. CASE Update(c)
      <4>1. PICK i \in Ids :
              Step(c, SaveOf("update", i, row[i].place, texts + 1, <<Tier(row[i].place)>>))
        BY <3>2 DEF Update, SaveOf
      <4> QED
        BY <3>2, <4>1, SaveShape, IdleShape DEF Update, Enters
    <3>3. CASE Relocate(c)
      <4>1. PICK i \in Ids : \E to \in Relocated(row[i].place) :
              Step(c, MoveOf(i, row[i].place, to, TiersOfMove(row[i].place, to)))
        BY <3>3 DEF Relocate, MoveOf
      <4> QED
        BY <3>3, <4>1, MoveShape, IdleShape DEF Relocate, Enters
    <3>4. CASE Delete(c)
      <4>1. PICK i \in Ids : Step(c, UnlinkOf(i, row[i].place, <<Tier(row[i].place)>>))
        BY <3>4 DEF Delete, UnlinkOf
      <4> QED
        BY <3>4, <4>1, UnlinkShape, IdleShape DEF Delete, Enters
    <3>5. CASE Save(c) \/ MoveFile(c) \/ LeaveOld(c) \/ Unlink(c)
      <4>1. job[c].at \in {"save", "move", "leave", "unlink"}
        BY <3>5 DEF Save, MoveFile, LeaveOld, Unlink
      <4>2. Step(c, ThenRebuild(job[c])) \/ Step(c, Idle) \/ Step(c, LeaveOf(job[c]))
        BY <3>5 DEF Save, MoveFile, LeaveOld, Unlink, Ends, LeaveOf
      <4> QED
        BY <1>0, <4>1, <4>2, RequestShapes, IdleShape
    <3> QED
      BY <2>1, <3>1, <3>2, <3>3, <3>4, <3>5 DEF RequestStep
  <2> QED
    BY <2>2, StepShape
<1>3. CASE OnWatchChange \/ Open \/ CheckArea \/ Opened
  <2>1. \E k : Step(Engine, k) /\ k.at \notin {"rows", "parse", "upsert"} /\ job[Engine].at # "upsert"
    <3>1. CASE OnWatchChange
      BY <3>1, EngineShapes, IdleShape DEF OnWatchChange
    <3>2. CASE Open
      <4>1. Step(Engine, CheckOf(BothTiers)) /\ job[Engine] = Idle
        BY <3>2 DEF Open, CheckOf, PhaseInv
      <4> QED
        BY <4>1, EngineShapes, IdleShape
    <3>3. CASE CheckArea
      <4> DEFINE j == job[Engine]
                 F == Fingerprint(Head(j.areas))
                 ts == IF Head(j.areas) = "workspace" THEN BothTiers ELSE <<Head(j.areas)>>
      <4>1. Step(Engine, SkipOf(j)) \/ Step(Engine, AreaOf(j, F, ts))
        BY <3>3 DEF CheckArea, SkipOf, AreaOf
      <4>2. SkipOf(j).at = "check" /\ AreaOf(j, F, ts).at = "list" /\ j.at = "check"
        BY <1>0, <3>3, SkipShape, AreaShape DEF CheckArea
      <4> HIDE DEF F, ts
      <4> QED
        BY <4>1, <4>2
    <3>4. CASE Opened
      BY <3>4, IdleShape DEF Opened, Ends
    <3> QED
      BY <1>3, <3>1, <3>2, <3>3, <3>4
  <2> QED
    BY <2>1, StepShape
<1>4. CASE Crash
  BY <1>4, IdleShape DEF Crash
<1>5. CASE Edit
  BY <1>5 DEF Edit
<1>6. CASE UNCHANGED vars
  BY <1>6 DEF vars
<1> QED
  BY <1>1, <1>2, <1>3, <1>4, <1>5, <1>6 DEF Next

\* What is listed is still to parse.
LEMMA ListedFindsAll ==
  ASSUME Typed, NEW j \in SoundJobs, j.at = "list"
  PROVE  FoundListed(Listed(j))
<1>1. j \in Jobs /\ j.prev = {}
  BY DEF SoundJobs, RebuildSound
<1>2. /\ ToSet(Listed(j).todo) = FilesIn(Head(j.tiers))
      /\ Listed(j).listed = FilesIn(Head(j.tiers)) /\ Listed(j).prev = {}
  BY <1>1, ListShape, FilesAreFinite, SetToSeqLists
<1> QED
  BY <1>2 DEF FoundListed

\* It still is when the rows have been read.
LEMMA RowsFindAll ==
  ASSUME Typed, NEW j \in SoundJobs, j.at = "rows", FoundListed(j),
         NEW rows \in SUBSET RowsIn(Head(j.tiers))
  PROVE  FoundListed(WithRows(j, rows))
<1>1. /\ WithRows(j, rows).at = "parse" /\ WithRows(j, rows).todo = j.todo
      /\ WithRows(j, rows).listed = j.listed
  BY RowsSound
<1>2. j.listed \subseteq ToSet(j.todo)
  BY DEF FoundListed
<1> QED
  BY <1>1, <1>2 DEF FoundListed

\* Parsing a file leaves a row of its flow, when it had one at its path or by its name.
LEMMA ParsedFindsAll ==
  ASSUME Typed, NEW j \in SoundJobs, j.at = "parse", FoundListed(j)
  PROVE  FoundListed(Parsed(j))
<1> DEFINE next == Head(j.todo)
           S == Summary(j, next[1], next[2])
<1>1. /\ ToSet(j.todo) = {next} \cup ToSet(Parsed(j).todo)
      /\ ToSet(Parsed(j).found) = ToSet(j.found) \cup S
      /\ Parsed(j).prev = j.prev /\ Parsed(j).listed = j.listed
      /\ next \in Ids \X Places /\ Tier(next[2]) = Head(j.tiers)
  BY ParseSound
<1>2. /\ \A y \in S : y.id = next[1]
      /\ S = {} => \A y \in j.prev : y.id = next[1] => next[2] \notin Named \cup {y.place}
  BY <1>1, SummarySound
<1> HIDE DEF next, S
<1>3. ASSUME NEW x \in j.prev, NEW q \in Named \cup {x.place}, <<x.id, q>> \in j.listed
      PROVE  \/ <<x.id, q>> \in ToSet(Parsed(j).todo)
             \/ \E y \in ToSet(Parsed(j).found) : y.id = x.id
  <2>1. \/ <<x.id, q>> \in ToSet(j.todo)
        \/ \E y \in ToSet(j.found) : y.id = x.id
    BY <1>3 DEF FoundListed
  <2>2. CASE <<x.id, q>> = next
    <3>1. next[1] = x.id /\ next[2] = q
      BY <2>2
    <3>2. S # {}
      BY <1>2, <1>3, <3>1
    <3> QED
      BY <1>1, <1>2, <3>1, <3>2
  <2>3. CASE <<x.id, q>> # next
    BY <1>1, <2>1, <2>3
  <2> QED
    BY <2>2, <2>3
<1>4. Parsed(j).at # "rows"
  <2>1. Parsed(j).at \in {"parse", "upsert"}
    BY ParseSound
  <2> QED
    BY <2>1
<1> QED
  BY <1>1, <1>3, <1>4 DEF FoundListed

LEMMA FoundInductive ==
  ASSUME Typed, PhaseInv, FoundInv, [Next]_vars
  PROVE  FoundInv'
<1> SUFFICES ASSUME NEW p \in Procs PROVE FoundListed(job'[p])
  BY DEF FoundInv, FoundListed
<1>1. job[p] \in SoundJobs /\ FoundListed(job[p])
  BY DEF Typed, FoundInv
<1>2. CASE job'[p].at \notin {"rows", "parse", "upsert"}
  BY <1>2 DEF FoundListed
<1>3. CASE List(p) /\ job[p].at = "list" /\ job'[p] = Listed(job[p])
  BY <1>1, <1>3, ListedFindsAll
<1>4. CASE /\ job[p].at = "rows"
           /\ \E rows \in SUBSET RowsIn(Head(job[p].tiers)) : job'[p] = WithRows(job[p], rows)
  BY <1>1, <1>4, RowsFindAll
<1>5. CASE job[p].at = "parse" /\ job'[p] = Parsed(job[p])
  BY <1>1, <1>5, ParsedFindsAll
<1> QED
  BY <1>1, <1>2, <1>3, <1>4, <1>5, OnlyRebuildsRead

\* A rebuild unlists no flow among the rows it has read whose file it has found at the
\* row's path or under the flow's name, whether or not the file parses and whatever
\* became of it since.
THEOREM FoundStayListed == Spec => FoundFilesStayListed
<1> DEFINE Stays == \A p \in Procs : \A x \in job[p].prev :
                       RebuildEnds(p) /\ FoundIn(job[p], x, Named \cup {x.place})
                         /\ row[x.id] # NoRow => row'[x.id] # NoRow
<1>1. Init => FoundInv /\ Typed /\ PhaseInv
  <2>1. Init => FoundInv
    BY IdleShape DEF Init, FoundInv, FoundListed
  <2> QED
    BY <2>1, ProcessInit
<1>2. Typed /\ PhaseInv /\ FoundInv /\ [Next]_vars => Typed' /\ PhaseInv' /\ FoundInv'
  BY TypedInductive, PhaseInductive, FoundInductive
<1>3. Typed /\ PhaseInv /\ FoundInv /\ [Next]_vars => [Stays]_vars
  <2> SUFFICES ASSUME Typed, PhaseInv, FoundInv, [Next]_vars,
                      NEW p \in Procs, NEW x \in job[p].prev,
                      job[p].at = "upsert", job'[p].at # "upsert",
                      NEW q \in Named \cup {x.place}, <<x.id, q>> \in job[p].listed,
                      row[x.id] # NoRow
               PROVE  row'[x.id] # NoRow
    BY DEF RebuildEnds, FoundIn
  <2>1. job[p] \in SoundJobs /\ job[p] \in Jobs /\ RebuildSound(job[p]) /\ FoundListed(job[p])
    BY DEF Typed, SoundJobs, FoundInv
  <2>2. Upsert(p) \/ Crash
    BY OnlyRebuildsRead
  <2>3. CASE Crash
    BY <2>3 DEF Crash, dataVars
  <2>4. CASE Upsert(p)
    <3>1. \E y \in ToSet(job[p].found) : y.id = x.id
      <4>1. ToSet(job[p].todo) = {}
        BY <2>1, AreaLists DEF RebuildSound
      <4> QED
        BY <2>1, <4>1 DEF FoundListed
    <3>2. x.id \in Ids
      BY <2>1 DEF Jobs, RowRecords
    <3>3. Replaced(job[p])[x.id] # NoRow
      <4>1. PICK y \in ToSet(job[p].found) :
              Replaced(job[p])[x.id] = [place |-> y.place, text |-> y.text]
        BY <2>1, <3>1, <3>2, ReplacedTyped
      <4>2. y.text \in Texts
        <5>1. job[p].found \in Seq(RowRecords)
          BY <2>1 DEF Jobs
        <5>2. y \in RowRecords
          BY <4>1, <5>1 DEF ToSet
        <5> QED
          BY <5>2 DEF RowRecords
      <4> QED
        BY <4>1, <4>2 DEF NoRow, Texts, Gone
    <3> QED
      BY <2>4, <3>3 DEF Upsert
  <2> QED
    BY <2>2, <2>3, <2>4
<1>4. Spec => [][Stays]_vars
  BY <1>1, <1>2, <1>3, PTL DEF Spec
<1> QED
  BY <1>4 DEF FoundFilesStayListed

-----------------------------------------------------------------------------
(* Rows                                                                    *)

InTier(i, t) == {p \in Places : Tier(p) = t /\ file[i][p] # Gone}

\* The rows of a tier are those of its files, whatever the other tier has.
TierMatches(t) ==
    \A i \in Ids :
        /\ InTier(i, t) = {} => ~ListedIn(i, t)
        /\ \A p \in Places : InTier(i, t) = {p} /\ Readable(i, p) => row[i] = RowOf(i, p)

\* What j has read of its tier is what the files say now.
Fresh(j) ==
    LET t == Head(j.tiers) IN
    /\ \A x \in ToSet(j.todo) : x \in FilesIn(t)
    /\ \A x \in FilesIn(t) :
          \/ x \in ToSet(j.todo)
          \/ Readable(x[1], x[2]) =>
                [id |-> x[1], place |-> x[2], text |-> file[x[1]][x[2]]] \in ToSet(j.found)
    /\ \A x \in ToSet(j.found) :
          \/ Readable(x.id, x.place) /\ x.text = file[x.id][x.place]
          \/ \E p \in Places : Tier(p) = Head(j.tiers) /\ file[x.id][p] = Malformed

\* Otherwise the tier has been touched, and something will read it again or is missed.
FreshOrTold(j) ==
    j.at \in {"rows", "parse", "upsert"} =>
        Fresh(j) \/ (Head(j.tiers) \in touched /\ (pending \/ missed))

\* The engine, whose job is j, is rebuilding t in an Open that has its fingerprint.
InHand(j, t) ==
    j.op = "open" /\ j.at \in Rebuilding /\ t = Head(j.areas) /\ t \in ToSet(j.tiers)
UntouchedMatch(j) == \A t \in Tiers \ touched : TierMatches(t) \/ InHand(j, t)

\* The engine, whose job is j, will still rebuild t.
Planned(j, t) ==
    \/ j.at \in Rebuilding /\ t \in ToSet(j.tiers)
    \/ /\ j.op = "open" /\ Fingerprint(t) # stored[t]
       /\ t \in ToSet(IF j.at = "check" THEN j.areas ELSE Tail(j.areas))
KnownMatch(j) ==
    ~pending /\ ~missed => \A t \in Tiers : TierMatches(t) \/ Planned(j, t)

RowInv ==
    /\ \A p \in Procs : \A j \in SoundJobs : job[p] = j => FreshOrTold(j)
    /\ \A j \in SoundJobs : job[Engine] = j => UntouchedMatch(j) /\ KnownMatch(j)

\* With the same files, what was fresh is fresh.
LEMMA SameFiles ==
  ASSUME UNCHANGED file
  PROVE  /\ \A t : Fingerprint(t)' = Fingerprint(t)
         /\ \A j : Fresh(j)' <=> Fresh(j)
<1>1. \A t : FilesIn(t)' = FilesIn(t)
  BY DEF FilesIn
<1>2. \A t : Fingerprint(t)' = Fingerprint(t)
  BY <1>1 DEF Fingerprint
<1>3. \A j : Fresh(j)' <=> Fresh(j)
  BY <1>1 DEF Fresh, Readable
<1> QED
  BY <1>2, <1>3

\* With the same files and rows, tiers match as they did.
LEMMA SameTiers ==
  ASSUME UNCHANGED <<file, row>>
  PROVE  /\ \A t : TierMatches(t)' <=> TierMatches(t)
         /\ \A t : Fingerprint(t)' = Fingerprint(t)
         /\ \A j : Fresh(j)' <=> Fresh(j)
  BY SameFiles DEF TierMatches, InTier, ListedIn, Readable, RowOf

\* So they do when none of their own files has changed.
LEMMA UntouchedTiers ==
  ASSUME Typed, NEW i \in Ids, NEW new \in [Places -> Texts \cup {Gone, Malformed}],
         Changes(i, new), UNCHANGED row, NEW t \in Tiers, t \notin touched'
  PROVE  /\ TierMatches(t)' <=> TierMatches(t)
         /\ \A j \in SoundJobs : j.at \in {"rows", "parse", "upsert"} /\ Head(j.tiers) = t
                                   => (Fresh(j)' <=> Fresh(j))
<1>1. \A k \in Ids : \A p \in Places : Tier(p) = t => file'[k][p] = file[k][p]
  <2>1. \A p \in Places : Tier(p) = t => new[p] = file[i][p]
    BY DEF Changes
  <2>2. file' = [file EXCEPT ![i] = new]
    BY DEF Changes
  <2> QED
    BY <2>1, <2>2 DEF Typed
<1>2. \A k \in Ids : InTier(k, t)' = InTier(k, t)
  BY <1>1 DEF InTier
<1>3. TierMatches(t)' <=> TierMatches(t)
  <2>1. ASSUME NEW k \in Ids, NEW p \in Places, InTier(k, t) = {p}
        PROVE  RowOf(k, p)' = RowOf(k, p) /\ (Readable(k, p)' <=> Readable(k, p))
    <3>1. file'[k][p] = file[k][p]
      BY <1>1, <2>1 DEF InTier
    <3> QED
      BY <3>1 DEF RowOf, Readable
  <2>2. \A k \in Ids : ListedIn(k, t)' <=> ListedIn(k, t)
    BY DEF ListedIn
  <2> QED
    BY <1>2, <2>1, <2>2 DEF TierMatches
<1>4. FilesIn(t)' = FilesIn(t)
  BY <1>1 DEF FilesIn
<1>5. ASSUME NEW j \in SoundJobs, j.at \in {"rows", "parse", "upsert"}, Head(j.tiers) = t
      PROVE  Fresh(j)' <=> Fresh(j)
  <2>1. j \in Jobs /\ RebuildSound(j)
    BY DEF SoundJobs
  <2>2. ASSUME NEW x \in ToSet(j.found)
        PROVE  x.id \in Ids /\ x.place \in Places /\ Tier(x.place) = t
    <3>1. x \in RowRecords
      <4>1. j.found \in Seq(RowRecords)
        BY <2>1 DEF Jobs
      <4> QED
        BY <4>1 DEF ToSet
    <3> QED
      BY <1>5, <2>1, <3>1 DEF RowRecords, RebuildSound
  <2>3. \A x \in ToSet(j.found) : /\ file'[x.id][x.place] = file[x.id][x.place]
                                 /\ \A p \in Places : Tier(p) = t => file'[x.id][p] = file[x.id][p]
    BY <1>1, <2>2
  <2>4. \A x \in FilesIn(t) : file'[x[1]][x[2]] = file[x[1]][x[2]]
    BY <1>1 DEF FilesIn
  <2> QED
    <3>1. \A x \in ToSet(j.found) :
            /\ Readable(x.id, x.place)' <=> Readable(x.id, x.place)
            /\ (\E p \in Places : Tier(p) = t /\ file'[x.id][p] = Malformed)
                 <=> (\E p \in Places : Tier(p) = t /\ file[x.id][p] = Malformed)
      BY <2>3 DEF Readable
    <3>2. \A x \in FilesIn(t) : Readable(x[1], x[2])' <=> Readable(x[1], x[2])
      BY <2>4 DEF Readable
    <3> QED
      BY <1>4, <1>5, <2>3, <2>4, <3>1, <3>2 DEF Fresh
<1> QED
  BY <1>3, <1>5

\* Whoever changes files leaves the tiers touched and the change seen or missed.
LEMMA ChangesKeepRows ==
  ASSUME Typed, Typed', RowInv, NEW i \in Ids,
         NEW new \in [Places -> Texts \cup {Gone, Malformed}],
         Changes(i, new), UNCHANGED <<row, stored>>, job'[Engine] = job[Engine],
         \A p \in Procs : job'[p] = job[p] \/ job'[p].at \notin {"rows", "parse", "upsert"}
  PROVE  RowInv'
<1>1. (pending' \/ missed') /\ touched \subseteq touched'
  BY DEF Changes
<1>2. ASSUME NEW p \in Procs, NEW j \in SoundJobs, job'[p] = j
      PROVE  FreshOrTold(j)'
  <2>1. SUFFICES ASSUME j.at \in {"rows", "parse", "upsert"}, Head(j.tiers) \notin touched'
                 PROVE  Fresh(j)'
    BY <1>1 DEF FreshOrTold
  <2>2. job[p] = j
    BY <1>2, <2>1
  <2>3. Fresh(j)
    BY <1>1, <2>1, <2>2 DEF RowInv, FreshOrTold
  <2>4. Head(j.tiers) \in Tiers
    <3>1. j.tiers \in Seq(Tiers) /\ j.tiers # <<>>
      BY <2>1 DEF SoundJobs, Jobs, JobSound, Rebuilding
    <3> QED
      BY <3>1, ToSetHeadTail
  <2> QED
    BY <2>1, <2>3, <2>4, UntouchedTiers
<1>3. ASSUME NEW j \in SoundJobs, job'[Engine] = j
      PROVE  UntouchedMatch(j)' /\ KnownMatch(j)'
  <2>1. UntouchedMatch(j)
    BY <1>3 DEF RowInv
  <2>2. ASSUME NEW t \in Tiers \ touched' PROVE TierMatches(t)' \/ InHand(j, t)
    BY <1>1, <2>1, <2>2, UntouchedTiers DEF UntouchedMatch
  <2> QED
    BY <1>1, <2>2 DEF UntouchedMatch, KnownMatch
<1> QED
  BY <1>2, <1>3 DEF RowInv

\* A step that leaves files, rows and the engine keeps what is fresh or told.
LEMMA QuietSteps ==
  ASSUME Typed', RowInv, UNCHANGED <<file, row, stored, touched, pending, missed>>,
         job'[Engine] = job[Engine],
         \A p \in Procs : \A k \in SoundJobs : job'[p] = k => job[p] = k \/ FreshOrTold(k)'
  PROVE  RowInv'
<1>1. ASSUME NEW p \in Procs, NEW j \in SoundJobs, job'[p] = j
      PROVE  FreshOrTold(j)'
  <2>1. CASE job[p] = j
    BY <2>1, SameTiers DEF RowInv, FreshOrTold
  <2> QED
    BY <1>1, <2>1
<1>2. ASSUME NEW j \in SoundJobs, job'[Engine] = j
      PROVE  UntouchedMatch(j)' /\ KnownMatch(j)'
  <2>1. UntouchedMatch(j) /\ KnownMatch(j)
    BY <1>2 DEF RowInv
  <2>2. UntouchedMatch(j)'
    BY <2>1, SameTiers DEF UntouchedMatch
  <2>3. \A t : Planned(j, t)' <=> Planned(j, t)
    BY SameTiers DEF Planned
  <2>4. KnownMatch(j)'
    BY <2>1, <2>3, SameTiers DEF KnownMatch
  <2> QED
    BY <2>2, <2>4
<1> QED
  BY <1>1, <1>2 DEF RowInv

\* What has just been listed is all still to parse.
LEMMA ListedIsFresh ==
  ASSUME Typed, NEW j \in SoundJobs, j.at = "list"
  PROVE  Fresh(Listed(j))
<1>1. j \in Jobs /\ j.found = <<>>
  BY DEF SoundJobs, RebuildSound
<1>2. /\ Listed(j).tiers = j.tiers /\ ToSet(Listed(j).todo) = FilesIn(Head(j.tiers))
      /\ ToSet(Listed(j).found) = {}
  BY <1>1, ListShape, FilesAreFinite, SetToSeqLists, AreaLists
<1> QED
  BY <1>2 DEF Fresh

\* A file is parsed as it is.
LEMMA ParsedIsFresh ==
  ASSUME Typed, NEW j \in SoundJobs, j.at = "parse", Fresh(j)
  PROVE  Fresh(Parsed(j))
<1> DEFINE next == Head(j.todo)
           S == Summary(j, next[1], next[2])
           t == Head(j.tiers)
           k == Parsed(j)
<1>1. /\ ToSet(j.todo) = {next} \cup ToSet(k.todo)
      /\ ToSet(k.found) = ToSet(j.found) \cup S
      /\ k.tiers = j.tiers
      /\ next \in Ids \X Places /\ Tier(next[2]) = t
  BY ParseSound
<1>2. next \in FilesIn(t)
  BY <1>1 DEF Fresh
<1>3. file[next[1]][next[2]] \in Texts \cup {Malformed}
  BY <1>1, <1>2 DEF Typed, FilesIn
<1>4. Readable(next[1], next[2]) =>
        S = {[id |-> next[1], place |-> next[2], text |-> file[next[1]][next[2]]]}
  BY DEF Summary
<1>5. ~Readable(next[1], next[2]) =>
        /\ \A y \in S : y.id = next[1]
        /\ file[next[1]][next[2]] = Malformed
  BY <1>3 DEF Summary, Readable
<1> HIDE DEF next, S, k
<1>6. ASSUME NEW x \in S
      PROVE  \/ Readable(x.id, x.place) /\ x.text = file[x.id][x.place]
             \/ \E p \in Places : Tier(p) = t /\ file[x.id][p] = Malformed
  <2>1. CASE Readable(next[1], next[2])
    BY <1>4, <1>6, <2>1
  <2>2. CASE ~Readable(next[1], next[2])
    BY <1>1, <1>5, <1>6, <2>2
  <2> QED
    BY <2>1, <2>2
<1>7. \A x \in ToSet(k.todo) : x \in FilesIn(t)
  BY <1>1 DEF Fresh
<1>8. ASSUME NEW x \in FilesIn(t)
      PROVE  \/ x \in ToSet(k.todo)
             \/ Readable(x[1], x[2]) =>
                   [id |-> x[1], place |-> x[2], text |-> file[x[1]][x[2]]] \in ToSet(k.found)
  <2>1. CASE x = next
    BY <1>1, <1>4, <2>1
  <2>2. CASE x # next
    BY <1>1, <1>8, <2>2 DEF Fresh
  <2> QED
    BY <2>1, <2>2
<1>9. \A x \in ToSet(k.found) :
          \/ Readable(x.id, x.place) /\ x.text = file[x.id][x.place]
          \/ \E p \in Places : Tier(p) = t /\ file[x.id][p] = Malformed
  BY <1>1, <1>6 DEF Fresh
<1> QED
  BY <1>1, <1>7, <1>8, <1>9 DEF Fresh, k

LEMMA RequestsKeepRows ==
  ASSUME Typed, PhaseInv, Typed', RowInv, NEW c \in Clients, RequestStep(c)
  PROVE  RowInv'
<1> c \in Procs /\ c # Engine /\ Engine \in Procs
  BY ClientsAssumption DEF Procs
<1> DEFINE j == job[c]
<1>0. j \in SoundJobs /\ j \in Jobs /\ JobSound(j)
  BY DEF Typed, SoundJobs
<1>1. job'[Engine] = job[Engine] /\ \A d \in Procs \ {c} : job'[d] = job[d]
  <2>1. \E k : Step(c, k)
    BY DEF RequestStep, CreateIn, Update, Save, Relocate, MoveFile, LeaveOld, Delete, Unlink, Ends
  <2> QED
    BY <2>1, StepShape
<1>2. job'[c] = job[c] \/ job'[c].at \notin {"rows", "parse", "upsert"}
  <2>1. ~List(c) /\ ~ReadRows(c) /\ ~ParseNext(c)
    BY IdleShape DEF RequestStep, CreateIn, Update, Save, Relocate, MoveFile, LeaveOld, Delete,
                     Unlink, Enters, List, ReadRows, ParseNext
  <2> QED
    BY <2>1, OnlyRebuildsRead DEF Next
<1>q. ASSUME UNCHANGED <<file, row, stored, touched, pending, missed>>
      PROVE  RowInv'
  BY <1>1, <1>2, <1>q, QuietSteps DEF FreshOrTold
<1>c. ASSUME NEW i \in Ids, NEW new \in [Places -> Texts \cup {Gone, Malformed}],
             Changes(i, new), UNCHANGED <<row, stored>>
      PROVE  RowInv'
  BY <1>1, <1>2, <1>c, ChangesKeepRows
<1>3. CASE CreateIn(c) \/ Update(c)
  BY <1>3, <1>q DEF CreateIn, Update
<1>4. CASE Relocate(c) \/ Delete(c)
  BY <1>4, <1>q DEF Relocate, Delete, dataVars
<1>5. CASE Save(c)
  <2>1. /\ j.id \in Ids /\ j.new \in Places /\ j.text \in Texts
    BY <1>0, <1>5 DEF Save, JobSound
  <2>2. [file[j.id] EXCEPT ![j.new] = j.text] \in [Places -> Texts \cup {Gone, Malformed}]
    BY <2>1 DEF Typed
  <2> QED
    BY <1>5, <1>c, <2>1, <2>2 DEF Save
<1>6. CASE MoveFile(c)
  <2>1. /\ j.id \in Ids /\ j.new \in Places /\ j.old \in Places
    BY <1>0, <1>6 DEF MoveFile, JobSound
  <2>2. file[j.id][j.old] \in Texts \cup {Gone, Malformed}
    BY <2>1 DEF Typed
  <2>3. /\ [file[j.id] EXCEPT ![j.new] = file[j.id][j.old], ![j.old] = Gone]
              \in [Places -> Texts \cup {Gone, Malformed}]
        /\ [file[j.id] EXCEPT ![j.new] = file[j.id][j.old]]
              \in [Places -> Texts \cup {Gone, Malformed}]
    BY <2>1, <2>2 DEF Typed
  <2>4. UNCHANGED <<row, stored>>
    BY <1>6 DEF MoveFile
  <2>5. CASE UNCHANGED <<file, touched, pending, missed>>
    BY <1>q, <2>4, <2>5
  <2>6. CASE \/ Changes(j.id, [file[j.id] EXCEPT ![j.new] = file[j.id][j.old], ![j.old] = Gone])
             \/ Changes(j.id, [file[j.id] EXCEPT ![j.new] = file[j.id][j.old]])
    BY <1>c, <2>1, <2>3, <2>4, <2>6
  <2> QED
    BY <1>6, <2>5, <2>6 DEF MoveFile
<1>7. CASE LeaveOld(c)
  <2>1. j.id \in Ids /\ j.old \in Places
    BY <1>0, <1>7 DEF LeaveOld, JobSound
  <2>2. [file[j.id] EXCEPT ![j.old] = Gone] \in [Places -> Texts \cup {Gone, Malformed}]
    BY <2>1 DEF Typed
  <2>3. UNCHANGED <<row, stored>>
    BY <1>7 DEF LeaveOld
  <2>4. CASE UNCHANGED <<file, touched, pending, missed>>
    BY <1>q, <2>3, <2>4
  <2>5. CASE Changes(j.id, [file[j.id] EXCEPT ![j.old] = Gone])
    BY <1>c, <2>1, <2>2, <2>3, <2>5
  <2> QED
    BY <1>7, <2>4, <2>5 DEF LeaveOld
<1>8. CASE Unlink(c)
  <2>1. j.id \in Ids /\ j.old \in Places
    BY <1>0, <1>8 DEF Unlink, JobSound
  <2>2. [file[j.id] EXCEPT ![j.old] = Gone] \in [Places -> Texts \cup {Gone, Malformed}]
    BY <2>1 DEF Typed
  <2>3. UNCHANGED <<row, stored>>
    BY <1>8 DEF Unlink
  <2>4. CASE UNCHANGED <<file, touched, pending, missed>>
    BY <1>q, <2>3, <2>4
  <2>5. CASE Changes(j.id, [file[j.id] EXCEPT ![j.old] = Gone])
    BY <1>c, <2>1, <2>2, <2>3, <2>5
  <2> QED
    BY <1>8, <2>4, <2>5 DEF Unlink
<1> QED
  BY <1>3, <1>4, <1>5, <1>6, <1>7, <1>8 DEF RequestStep

LEMMA EditKeepsRows ==
  ASSUME Typed, Typed', RowInv, Edit
  PROVE  RowInv'
<1>1. PICK i \in Ids, p \in Places : \E new \in [Places -> Texts \cup {Gone, Malformed}] :
         Changes(i, new)
  BY EditChanges
<1>2. UNCHANGED <<row, stored, job>>
  BY DEF Edit
<1> QED
  BY <1>1, <1>2, ChangesKeepRows

\* Reading a tier keeps what it has read fresh, or told.
LEMMA ReadingKeepsRows ==
  ASSUME Typed, Typed', RowInv, NEW p \in Procs, List(p) \/ ReadRows(p) \/ ParseNext(p)
  PROVE  RowInv'
<1> Engine \in Procs
  BY DEF Procs
<1>0. PICK j \in SoundJobs : job[p] = j
  BY DEF Typed
<1>1. /\ UNCHANGED <<file, row, stored, touched, pending, missed>>
      /\ \A q \in Procs \ {p} : job'[q] = job[q]
  BY RebuildGoesOn DEF RebuildStep, List, ReadRows, ParseNext, sameInRebuild
<1>2. PICK k \in SoundJobs :
        /\ job'[p] = k /\ k.op = j.op /\ k.tiers = j.tiers /\ k.areas = j.areas
        /\ k.at \in Rebuilding /\ j.at \in Rebuilding
        /\ FreshOrTold(k)
  <2>1. CASE List(p)
    <3>1. Step(p, Listed(j)) /\ j.at = "list"
      BY <1>0, <2>1 DEF List, Listed
    <3>2. /\ Listed(j) \in SoundJobs /\ Fresh(Listed(j))
          /\ Listed(j).op = j.op /\ Listed(j).tiers = j.tiers /\ Listed(j).areas = j.areas
          /\ Listed(j).at \in Rebuilding
      BY <3>1, ListSound, ListedIsFresh, ListShape DEF SoundJobs, Rebuilding
    <3> QED
      BY <3>1, <3>2, StepShape DEF FreshOrTold, Rebuilding
  <2>r. CASE ReadRows(p)
    <3>1. PICK rows \in SUBSET RowsIn(Head(j.tiers)) : j.at = "rows" /\ Step(p, WithRows(j, rows))
      BY <1>0, <2>r DEF ReadRows, WithRows
    <3> DEFINE i == WithRows(j, rows)
    <3>2. /\ i \in SoundJobs /\ i.at = "parse" /\ i.todo = j.todo /\ i.found = j.found
          /\ i.op = j.op /\ i.tiers = j.tiers /\ i.areas = j.areas
      BY <3>1, RowsSound
    <3> HIDE DEF i
    <3>3. FreshOrTold(i)
      BY <1>0, <3>1, <3>2 DEF RowInv, FreshOrTold, Fresh
    <3> QED
      BY <3>1, <3>2, <3>3, StepShape DEF Rebuilding, i
  <2>2. CASE ParseNext(p)
    <3>1. Step(p, Parsed(j)) /\ j.at = "parse"
      BY <1>0, <2>2 DEF ParseNext, Parsed
    <3>2. /\ Parsed(j) \in SoundJobs
          /\ Parsed(j).op = j.op /\ Parsed(j).tiers = j.tiers /\ Parsed(j).areas = j.areas
          /\ Parsed(j).at \in Rebuilding
      BY <3>1, ParseSound DEF Rebuilding
    <3>3. FreshOrTold(Parsed(j))
      BY <1>0, <3>1, <3>2, ParsedIsFresh DEF RowInv, FreshOrTold
    <3> QED
      BY <3>1, <3>2, <3>3, StepShape DEF Rebuilding
  <2> QED
    BY <2>1, <2>r, <2>2
<1>3. FreshOrTold(k)'
  BY <1>1, <1>2, SameTiers DEF FreshOrTold
<1>4. ASSUME NEW q \in Procs, NEW i \in SoundJobs, job'[q] = i
      PROVE  FreshOrTold(i)'
  <2>1. CASE q = p
    BY <1>2, <1>3, <1>4, <2>1
  <2>2. CASE q # p
    BY <1>1, <1>4, <2>2, SameTiers DEF RowInv, FreshOrTold
  <2> QED
    BY <2>1, <2>2
<1>5. ASSUME NEW i \in SoundJobs, job'[Engine] = i
      PROVE  UntouchedMatch(i)' /\ KnownMatch(i)'
  <2>1. PICK e \in SoundJobs :
          /\ job[Engine] = e /\ \A t : InHand(e, t) <=> InHand(i, t)
          /\ \A t : Planned(e, t) <=> Planned(i, t)
    <3>1. CASE p = Engine
      <4>1. j.at # "check" /\ k.at # "check"
        BY <1>2 DEF Rebuilding
      <4> QED
        BY <1>0, <1>2, <1>5, <3>1, <4>1 DEF InHand, Planned
    <3>2. CASE p # Engine
      BY <1>1, <1>5, <3>2
    <3> QED
      BY <3>1, <3>2
  <2>2. UntouchedMatch(e) /\ KnownMatch(e)
    BY <2>1 DEF RowInv
  <2>3. \A t : Planned(i, t)' <=> Planned(i, t)
    BY <1>1, SameTiers DEF Planned
  <2>4. UntouchedMatch(i)'
    BY <1>1, <2>1, <2>2, SameTiers DEF UntouchedMatch
  <2>5. KnownMatch(i)'
    BY <1>1, <2>1, <2>2, <2>3, SameTiers DEF KnownMatch
  <2> QED
    BY <2>4, <2>5
<1> QED
  BY <1>4, <1>5 DEF RowInv

\* Replacing the rows of one tier leaves the rows of the other.
LEMMA UpsertLeavesOthers ==
  ASSUME Typed, NEW j \in SoundJobs, j.at = "upsert", Unique(j),
         UNCHANGED file, row' = Replaced(j),
         NEW u \in Tiers, u # Head(j.tiers), TierMatches(u)
  PROVE  TierMatches(u)'
<1> DEFINE t == Head(j.tiers)
<1>1. RebuildSound(j) /\ \A x \in ToSet(j.found) : Tier(x.place) = t
  BY DEF SoundJobs, RebuildSound
<1>2. ASSUME NEW i \in Ids
      PROVE  /\ row'[i] = row[i]
             \/ /\ row[i] = NoRow \/ ListedIn(i, t)
                /\ row'[i] = NoRow \/ (Tier(row'[i].place) = t)
  <2>1. CASE \E x \in ToSet(j.found) : x.id = i
    <3>1. PICK x \in ToSet(j.found) : x.id = i /\ row'[i] = [place |-> x.place, text |-> x.text]
      BY <2>1, ReplacedTyped
    <3>2. row[i] = NoRow \/ ListedIn(i, t)
      BY <3>1 DEF Unique
    <3> QED
      BY <1>1, <3>1, <3>2
  <2>2. CASE ~\E x \in ToSet(j.found) : x.id = i
    BY <2>2, ReplacedTyped
  <2> QED
    BY <2>1, <2>2
<1>3. ASSUME NEW i \in Ids
      PROVE  /\ InTier(i, u) = {} => ~ListedIn(i, u)'
             /\ \A p \in Places : InTier(i, u) = {p} /\ Readable(i, p) => row'[i] = RowOf(i, p)
  <2>1. CASE row'[i] = row[i]
    BY <2>1 DEF TierMatches, ListedIn
  <2>2. CASE /\ row[i] = NoRow \/ ListedIn(i, t)
             /\ row'[i] = NoRow \/ (Tier(row'[i].place) = t)
    <3>1. ~ListedIn(i, u)'
      BY <2>2 DEF ListedIn
    <3>2. ASSUME NEW p \in Places, InTier(i, u) = {p}, Readable(i, p) PROVE FALSE
      <4>1. row[i] = RowOf(i, p) /\ Tier(p) = u /\ file[i][p] \in Texts
        BY <3>2 DEF TierMatches, InTier, Readable
      <4>2. row[i] # NoRow /\ Tier(row[i].place) = u
        BY <4>1 DEF RowOf, NoRow, Texts, Gone
      <4> QED
        BY <2>2, <4>2 DEF ListedIn
    <3> QED
      BY <3>1, <3>2
  <2> QED
    BY <1>2, <2>1, <2>2
<1>4. \A i \in Ids : /\ InTier(i, u)' = InTier(i, u)
                     /\ \A p \in Places : RowOf(i, p)' = RowOf(i, p)
                     /\ \A p \in Places : Readable(i, p)' <=> Readable(i, p)
  BY DEF InTier, RowOf, Readable
<1> QED
  BY <1>3, <1>4 DEF TierMatches

\* Replacing the rows of a tier by what its files say makes it match.
LEMMA FreshUpsertMatches ==
  ASSUME Typed, NEW j \in SoundJobs, j.at = "upsert", Unique(j), Fresh(j),
         UNCHANGED file, row' = Replaced(j)
  PROVE  TierMatches(Head(j.tiers))'
<1>0. PICK t \in Tiers : t = Head(j.tiers)
  <2>1. j.tiers \in Seq(Tiers) /\ j.tiers # <<>>
    BY DEF SoundJobs, Jobs, JobSound, Rebuilding
  <2> QED
    BY <2>1, ToSetHeadTail
<1>1. /\ RebuildSound(j) /\ j.todo = <<>> /\ ToSet(j.todo) = {}
      /\ \A x \in ToSet(j.found) : Tier(x.place) = t
  BY <1>0, AreaLists DEF SoundJobs, RebuildSound
<1>2. \A x \in ToSet(j.found) : x.id \in Ids /\ x.place \in Places
  <2>1. j.found \in Seq(RowRecords)
    BY DEF SoundJobs, Jobs
  <2>2. \A x \in ToSet(j.found) : x \in RowRecords
    BY <2>1 DEF ToSet
  <2> QED
    BY <2>2 DEF RowRecords
<1>3. \A x, y \in ToSet(j.found) : x.id = y.id => x = y
  BY DEF Unique, ToSet
<1>4. \A x \in ToSet(j.found) : InTier(x.id, t) # {}
  <2> SUFFICES ASSUME NEW x \in ToSet(j.found) PROVE InTier(x.id, t) # {}
    OBVIOUS
  <2>1. CASE Readable(x.id, x.place)
    <3>1. file[x.id][x.place] # Gone
      BY <2>1 DEF Readable, Texts, Gone
    <3> QED
      BY <1>1, <1>2, <3>1 DEF InTier
  <2>2. CASE \E p \in Places : Tier(p) = t /\ file[x.id][p] = Malformed
    <3>1. Malformed # Gone
      BY BoundsAssumption DEF Malformed, Gone
    <3> QED
      BY <2>2, <3>1 DEF InTier
  <2> QED
    BY <1>0, <2>1, <2>2 DEF Fresh
<1>5. ASSUME NEW i \in Ids
      PROVE  /\ InTier(i, t) = {} => ~ListedIn(i, t)'
             /\ \A p \in Places : InTier(i, t) = {p} /\ Readable(i, p) => row'[i] = RowOf(i, p)
  <2>1. ASSUME InTier(i, t) = {} PROVE ~ListedIn(i, t)'
    <3>1. ~\E x \in ToSet(j.found) : x.id = i
      BY <1>4, <2>1
    <3>2. row'[i] = IF ListedIn(i, t) THEN NoRow ELSE row[i]
      BY <1>0, <3>1, ReplacedTyped
    <3> QED
      BY <3>2 DEF ListedIn
  <2>2. ASSUME NEW p \in Places, InTier(i, t) = {p}, Readable(i, p)
        PROVE  row'[i] = RowOf(i, p)
    <3>1. <<i, p>> \in FilesIn(t)
      BY <2>2 DEF InTier, FilesIn
    <3>2. [id |-> i, place |-> p, text |-> file[i][p]] \in ToSet(j.found)
      BY <1>0, <1>1, <2>2, <3>1 DEF Fresh
    <3>3. PICK x \in ToSet(j.found) : x.id = i /\ row'[i] = [place |-> x.place, text |-> x.text]
      BY <3>2, ReplacedTyped
    <3>4. x = [id |-> i, place |-> p, text |-> file[i][p]]
      BY <1>3, <3>2, <3>3
    <3> QED
      BY <3>3, <3>4 DEF RowOf
  <2> QED
    BY <2>1, <2>2
<1>6. \A i \in Ids : /\ InTier(i, t)' = InTier(i, t)
                     /\ \A p \in Places : RowOf(i, p)' = RowOf(i, p)
                     /\ \A p \in Places : Readable(i, p)' <=> Readable(i, p)
  BY DEF InTier, RowOf, Readable
<1>7. TierMatches(t)'
  BY <1>5, <1>6 DEF TierMatches
<1> QED
  BY <1>0, <1>7

\* What a rebuild leaves to do of the tiers and areas it had.
LEMMA TiersLeft ==
  ASSUME NEW j \in SoundJobs, j.at = "upsert"
  PROVE  /\ Head(j.tiers) \in Tiers /\ ToSet(j.tiers) = {Head(j.tiers)} \cup ToSet(Tail(j.tiers))
         /\ Len(j.tiers) = 1 <=> Tail(j.tiers) = <<>>
         /\ j.op = "open" => /\ Head(j.areas) \in Tiers
                             /\ Head(j.areas) \notin ToSet(Tail(j.areas))
                             /\ Tail(j.areas) \in {<<"local">>, <<>>}
<1>1. j.tiers \in Seq(Tiers) /\ j.tiers # <<>> /\ AreasInOrder(j)
  BY DEF SoundJobs, Jobs, JobSound, Rebuilding
<1>2. ASSUME j.op = "open"
      PROVE  /\ Head(j.areas) \in Tiers /\ Head(j.areas) \notin ToSet(Tail(j.areas))
             /\ Tail(j.areas) \in {<<"local">>, <<>>}
  <2>1. j.areas \in {BothTiers, <<"local">>}
    BY <1>1, <1>2 DEF AreasInOrder, Rebuilding
  <2> QED
    BY <2>1, AreaLists DEF Tiers
<1> QED
  BY <1>1, <1>2, ToSetHeadTail

LEMMA UpsertKeepsRows ==
  ASSUME Typed, PhaseInv, Typed', RowInv, NEW p \in Procs, Upsert(p)
  PROVE  RowInv'
<1> Engine \in Procs
  BY DEF Procs
<1>0. PICK j \in SoundJobs : job[p] = j
  BY DEF Typed
<1>1. /\ UNCHANGED <<file, pending>> /\ \A q \in Procs \ {p} : job'[q] = job[q]
      /\ j.at = "upsert"
  BY <1>0, RebuildGoesOn DEF RebuildStep, Upsert
<1>2. PICK t \in Tiers : t = Head(j.tiers)
  BY <1>1, TiersLeft
<1>3. p # Engine => j.op # "open"
  BY <1>0 DEF PhaseInv, Procs
<1>4. touched \subseteq touched' /\ (missed => missed')
  <2>1. \A ok \in BOOLEAN : Finishes(p, ok) => touched \subseteq touched'
    BY DEF Finishes
  <2>2. touched \subseteq touched'
    BY <2>1 DEF Upsert
  <2>3. missed => missed'
    BY DEF Upsert
  <2> QED
    BY <2>2, <2>3
<1>5. ASSUME NEW q \in Procs, NEW i \in SoundJobs, job'[q] = i
      PROVE  FreshOrTold(i)'
  <2>1. CASE q = p
    <3>1. ~List(p) /\ ~ReadRows(p) /\ ~ParseNext(p)
      BY <1>0, <1>1 DEF List, ReadRows, ParseNext
    <3>2. job'[p].at \notin {"rows", "parse", "upsert"} \/ job'[p] = job[p]
      BY <3>1, OnlyRebuildsRead DEF Next, RebuildStep
    <3> QED
      BY <1>0, <1>1, <1>4, <1>5, <2>1, <3>2, SameFiles DEF FreshOrTold, RowInv
  <2>2. CASE q # p
    BY <1>1, <1>4, <1>5, <2>2, SameFiles DEF RowInv, FreshOrTold
  <2> QED
    BY <2>1, <2>2
<1>6. FreshOrTold(j)
  BY <1>0 DEF RowInv
<1>7. PICK e \in SoundJobs : job[Engine] = e /\ UntouchedMatch(e) /\ KnownMatch(e)
  BY DEF RowInv, Typed
<1>8. ASSUME NEW i \in SoundJobs, job'[Engine] = i
      PROVE  UntouchedMatch(i)' /\ KnownMatch(i)'
  <2>1. CASE /\ Unique(j) /\ row' = Replaced(j) /\ UNCHANGED missed
             /\ \/ Len(j.tiers) = 1 /\ Finishes(p, TRUE)
                \/ /\ Len(j.tiers) # 1 /\ Step(p, Rebuild(j, Tail(j.tiers)))
                   /\ UNCHANGED <<stored, touched>>
    <3>1. \A u \in Tiers \ {t} : TierMatches(u) => TierMatches(u)'
      BY <1>1, <1>2, <2>1, UpsertLeavesOthers
    <3>2. TierMatches(t)' \/ (t \in touched /\ (pending \/ missed))
      <4>1. Fresh(j) => TierMatches(Head(j.tiers))'
        BY <1>1, <2>1, FreshUpsertMatches
      <4>2. TierMatches(Head(j.tiers))' => TierMatches(t)'
        BY <1>0, <1>1, <1>2
      <4> QED
        BY <1>1, <1>2, <1>6, <4>1, <4>2 DEF FreshOrTold
    <3>3. CASE p # Engine
      <4>1. i = e /\ UNCHANGED <<stored, touched>>
        BY <1>0, <1>1, <1>3, <1>7, <1>8, <2>1, <3>3 DEF Finishes
      <4>2. UntouchedMatch(i)'
        BY <1>7, <3>1, <3>2, <4>1 DEF UntouchedMatch
      <4>3. \A u \in Tiers : Planned(e, u) => Planned(i, u)'
        BY <1>1, <4>1, SameFiles DEF Planned
      <4>4. KnownMatch(i)'
        BY <1>1, <1>7, <2>1, <3>1, <3>2, <4>3 DEF KnownMatch
      <4> QED
        BY <4>2, <4>4
    <3>4. CASE p = Engine
      <4>0. e = j
        BY <1>0, <1>7, <3>4
      <4>1. CASE Len(j.tiers) # 1 /\ i = Rebuild(j, Tail(j.tiers)) /\ UNCHANGED <<stored, touched>>
        <5>1. /\ i.at = "list" /\ i.op = j.op /\ i.tiers = Tail(j.tiers) /\ i.areas = j.areas
              /\ ToSet(j.tiers) = {t} \cup ToSet(i.tiers)
          <6>1. j \in Jobs
            BY DEF SoundJobs
          <6> QED
            BY <1>1, <1>2, <4>1, <6>1, RebuildShape, TiersLeft
        <5>2. \A u \in Tiers \ {t} : /\ InHand(j, u) => InHand(i, u)
                                     /\ Planned(j, u) => Planned(i, u)'
          BY <1>1, <4>1, <5>1, SameFiles DEF InHand, Planned, Rebuilding
        <5>3. UntouchedMatch(i)'
          BY <1>7, <3>1, <3>2, <4>0, <4>1, <5>2 DEF UntouchedMatch
        <5>4. KnownMatch(i)'
          BY <1>1, <1>7, <2>1, <3>1, <3>2, <4>0, <5>2 DEF KnownMatch
        <5> QED
          BY <5>3, <5>4
      <4>2. CASE Len(j.tiers) = 1 /\ j.op # "open" /\ UNCHANGED <<stored, touched>>
        <5>1. \A u \in Tiers \ {t} : ~InHand(j, u) /\ ~Planned(j, u)
          BY <1>1, <1>2, <4>2, TiersLeft, AreaLists DEF InHand, Planned
        <5>2. UntouchedMatch(i)'
          BY <1>7, <3>1, <3>2, <4>0, <4>2, <5>1 DEF UntouchedMatch
        <5>3. KnownMatch(i)'
          BY <1>1, <1>7, <2>1, <3>1, <3>2, <4>0, <5>1 DEF KnownMatch
        <5> QED
          BY <5>2, <5>3
      <4>3. CASE /\ Len(j.tiers) = 1 /\ j.op = "open" /\ i = CheckOf(Tail(j.areas))
                 /\ stored' = [stored EXCEPT ![Head(j.areas)] = j.fp] /\ UNCHANGED touched
        <5>1. i.at = "check" /\ i.op = "open" /\ i.areas = Tail(j.areas)
          BY <4>3, EngineShapes
        <5>2. Head(j.areas) \notin ToSet(Tail(j.areas)) /\ ToSet(j.tiers) = {t}
          BY <1>1, <1>2, <4>3, TiersLeft, AreaLists
        <5>3. \A u \in Tiers \ {t} : ~InHand(j, u)
          BY <5>2 DEF InHand
        <5>4. ASSUME NEW u \in Tiers \ {t}, Planned(j, u)
              PROVE  Planned(i, u)'
          <6>1. Fingerprint(u) # stored[u] /\ u \in ToSet(Tail(j.areas))
            BY <1>1, <5>2, <5>4 DEF Planned
          <6>2. stored'[u] = stored[u] /\ Fingerprint(u)' = Fingerprint(u)
            BY <1>1, <4>3, <5>2, <6>1, SameFiles DEF Typed
          <6> QED
            BY <5>1, <6>1, <6>2 DEF Planned
        <5>5. UntouchedMatch(i)'
          BY <1>7, <3>1, <3>2, <4>0, <4>3, <5>3 DEF UntouchedMatch
        <5>6. KnownMatch(i)'
          BY <1>1, <1>7, <2>1, <3>1, <3>2, <4>0, <5>4 DEF KnownMatch
        <5> QED
          BY <5>5, <5>6
      <4>4. \/ Len(j.tiers) # 1 /\ Step(p, Rebuild(j, Tail(j.tiers))) /\ UNCHANGED <<stored, touched>>
            \/ Len(j.tiers) = 1 /\ j.op # "open" /\ UNCHANGED <<stored, touched>>
            \/ /\ Len(j.tiers) = 1 /\ j.op = "open" /\ Step(p, CheckOf(Tail(j.areas)))
               /\ stored' = [stored EXCEPT ![Head(j.areas)] = j.fp] /\ UNCHANGED touched
        BY <1>0, <2>1 DEF Finishes, CheckOf
      <4> QED
        BY <1>8, <3>4, <4>1, <4>2, <4>3, <4>4, StepShape
    <3> QED
      BY <3>3, <3>4
  <2>2. CASE /\ UNCHANGED row /\ Finishes(p, FALSE) /\ missed' = (missed \/ p = Engine)
    <3>1. CASE p # Engine
      <4>1. i = e /\ UNCHANGED <<stored, touched, missed>>
        <5>1. UNCHANGED missed
          BY <2>2, <3>1 DEF Typed
        <5>2. i = e /\ UNCHANGED <<stored, touched>>
          BY <1>0, <1>1, <1>3, <1>7, <1>8, <2>2, <3>1 DEF Finishes
        <5> QED
          BY <5>1, <5>2
      <4>2. \A u \in Tiers : Planned(e, u) => Planned(i, u)'
        BY <1>1, <4>1, SameFiles DEF Planned
      <4>3. UntouchedMatch(i)'
        BY <1>1, <1>7, <2>2, <4>1, SameTiers DEF UntouchedMatch
      <4>4. KnownMatch(i)'
        BY <1>1, <1>7, <2>2, <4>1, <4>2, SameTiers DEF KnownMatch
      <4> QED
        BY <4>3, <4>4
    <3>2. CASE p = Engine
      <4>1. missed'
        BY <2>2, <3>2
      <4>2. e = j
        BY <1>0, <1>7, <3>2
      <4>3. \A u \in Tiers \ touched' : u \notin touched /\ ~InHand(j, u)
        BY <1>0, <2>2 DEF Finishes, InHand
      <4>4. UntouchedMatch(i)'
        BY <1>1, <1>7, <2>2, <4>2, <4>3, SameTiers DEF UntouchedMatch
      <4> QED
        BY <4>1, <4>4 DEF KnownMatch
    <3> QED
      BY <3>1, <3>2
  <2> QED
    BY <1>0, <2>1, <2>2 DEF Upsert
<1> QED
  BY <1>5, <1>8 DEF RowInv

\* The engine's steps outside a rebuild.  While it opens there is no request that
\* could hold what it has read.
LEMMA EngineKeepsRows ==
  ASSUME Typed, PhaseInv, Typed', RowInv, OnWatchChange \/ Open \/ CheckArea \/ Opened \/ Crash
  PROVE  RowInv'
<1> Engine \in Procs /\ \A d \in Clients : d \in Procs /\ d # Engine
  BY ClientsAssumption DEF Procs
<1>0. PICK j \in SoundJobs : job[Engine] = j /\ UntouchedMatch(j) /\ KnownMatch(j)
  BY DEF Typed, RowInv
<1>1. j \in Jobs /\ AreasInOrder(j)
  BY DEF SoundJobs
<1>2. UNCHANGED <<file, row>>
  BY DEF OnWatchChange, Open, CheckArea, Opened, Crash, dataVars
<1>f. ASSUME NEW q \in Procs, NEW i \in SoundJobs, job'[q] = i, i.at \in {"rows", "parse", "upsert"}
      PROVE  OnWatchChange /\ q # Engine /\ job[q] = i
  <2>1. CASE Crash
    BY <1>f, <2>1, IdleShape DEF Crash
  <2>2. CASE q = Engine
    <3>1. job'[Engine].at \notin {"rows", "parse", "upsert"} \/ job'[Engine] = job[Engine]
      <4>1. CASE OnWatchChange
        BY <4>1, EngineShapes, StepShape DEF OnWatchChange
      <4>2. CASE Open
        <5>1. Step(Engine, CheckOf(BothTiers))
          BY <4>2 DEF Open, CheckOf
        <5> QED
          BY <5>1, EngineShapes, StepShape
      <4>3. CASE CheckArea
        <5> DEFINE F == Fingerprint(Head(j.areas))
                   ts == IF Head(j.areas) = "workspace" THEN BothTiers ELSE <<Head(j.areas)>>
        <5>1. Step(Engine, SkipOf(j)) \/ Step(Engine, AreaOf(j, F, ts))
          BY <1>0, <4>3 DEF CheckArea, SkipOf, AreaOf
        <5>2. SkipOf(j).at = "check" /\ AreaOf(j, F, ts).at = "list"
          BY <1>0, <1>1, <4>3, SkipShape, AreaShape DEF CheckArea
        <5> HIDE DEF F, ts
        <5> QED
          BY <5>1, <5>2, StepShape
      <4>4. CASE Opened
        BY <4>4, IdleShape, StepShape DEF Opened, Ends
      <4>5. CASE Crash
        BY <4>5, IdleShape DEF Crash
      <4> QED
        BY <4>1, <4>2, <4>3, <4>4, <4>5
    <3>2. j.at \notin {"rows", "parse", "upsert"}
      <4>1. OnWatchChange \/ Open => j = Idle
        BY <1>0 DEF OnWatchChange, Open, PhaseInv
      <4>2. CheckArea \/ Opened => j.at = "check"
        BY <1>0 DEF CheckArea, Opened
      <4>3. Crash => job'[Engine] = Idle
        BY DEF Crash
      <4> QED
        BY <1>f, <2>2, <4>1, <4>2, <4>3, IdleShape
    <3> QED
      BY <1>0, <1>f, <2>2, <3>1, <3>2
  <2>3. CASE q # Engine /\ ~Crash
    <3>1. job'[q] = job[q] /\ q \in Clients
      BY <2>3, EngineSteps DEF Procs
    <3>2. phase = "up"
      BY <1>f, <3>1, IdleShape DEF PhaseInv
    <3>3. ~Open /\ ~CheckArea /\ ~Opened
      BY <3>2 DEF Open, CheckArea, Opened, PhaseInv
    <3> QED
      BY <1>f, <2>3, <3>1, <3>3
  <2> QED
    BY <2>1, <2>2, <2>3
<1>3. ASSUME NEW q \in Procs, NEW i \in SoundJobs, job'[q] = i
      PROVE  FreshOrTold(i)'
  <2>1. SUFFICES ASSUME i.at \in {"rows", "parse", "upsert"}
                 PROVE  Fresh(i)' \/ (Head(i.tiers) \in touched' /\ missed')
    BY DEF FreshOrTold
  <2>2. OnWatchChange /\ q \in Clients /\ job[q] = i
    BY <1>3, <1>f, <2>1 DEF Procs
  <2>3. Fresh(i) \/ Head(i.tiers) \in touched
    BY <2>1, <2>2 DEF RowInv, FreshOrTold
  <2>4. missed' /\ UNCHANGED touched
    BY <2>1, <2>2 DEF OnWatchChange, BetweenFileAndRows
  <2> QED
    BY <1>2, <2>3, <2>4, SameFiles
<1>4. ASSUME NEW i \in SoundJobs, job'[Engine] = i
      PROVE  UntouchedMatch(i)' /\ KnownMatch(i)'
  <2>1. CASE OnWatchChange
    <3>1. j = Idle /\ i = Rebuild([Idle EXCEPT !.op = "watch"], BothTiers) /\ UNCHANGED touched
      BY <1>0, <1>4, <2>1, StepShape DEF OnWatchChange
    <3>2. UntouchedMatch(i)'
      BY <1>0, <1>2, <3>1, SameTiers, IdleShape DEF UntouchedMatch, InHand
    <3>3. \A t \in Tiers : Planned(i, t)'
      BY <3>1, EngineShapes, AreaLists DEF Planned, Rebuilding
    <3> QED
      BY <3>2, <3>3 DEF KnownMatch
  <2>2. CASE Open
    <3>1. /\ j = Idle /\ i = CheckOf(BothTiers) /\ UNCHANGED <<touched, stored, pending>>
          /\ ~pending /\ missed' = (missed /\ \E t \in touched : Fingerprint(t) = stored[t])
      BY <1>0, <1>4, <2>2, StepShape DEF Open, CheckOf, PhaseInv
    <3>2. \A t : ~InHand(j, t) /\ ~Planned(j, t)
      BY <3>1, IdleShape DEF InHand, Planned, Rebuilding
    <3>3. \A t \in Tiers \ touched : TierMatches(t)
      BY <1>0, <3>2 DEF UntouchedMatch
    <3>4. UntouchedMatch(i)'
      BY <1>2, <3>1, <3>3, SameTiers DEF UntouchedMatch
    <3>5. ASSUME ~missed', NEW t \in Tiers PROVE TierMatches(t)' \/ Planned(i, t)'
      <4>1. CASE ~missed
        BY <1>0, <1>2, <3>1, <3>2, <4>1, SameTiers DEF KnownMatch
      <4>2. CASE missed /\ t \in touched
        <5>1. Fingerprint(t) # stored[t]
          BY <3>1, <3>5, <4>2
        <5>2. Fingerprint(t)' # stored'[t]
          BY <1>2, <3>1, <5>1, SameTiers
        <5> QED
          BY <3>1, <5>2, EngineShapes, AreaLists DEF Planned
      <4>3. CASE t \notin touched
        BY <1>2, <3>3, <4>3, SameTiers
      <4> QED
        BY <4>1, <4>2, <4>3
    <3> QED
      BY <3>4, <3>5 DEF KnownMatch
  <2>3. CASE CheckArea
    <3> DEFINE a == Head(j.areas)
    <3>1. /\ j.at = "check" /\ j.op = "open" /\ j.areas # <<>>
          /\ UNCHANGED <<stored, pending, missed>>
      BY <1>0, <2>3 DEF CheckArea, PhaseInv
    <3>2. a \in Tiers /\ ToSet(j.areas) = {a} \cup ToSet(Tail(j.areas))
      BY <3>1, AreaSkipped
    <3>3. \A t : ~InHand(j, t) /\ (Planned(j, t) <=> /\ Fingerprint(t) # stored[t]
                                                     /\ t \in ToSet(j.areas))
      BY <3>1 DEF InHand, Planned, Rebuilding
    <3>4. CASE Fingerprint(a) = stored[a]
      <4>1. i = SkipOf(j) /\ UNCHANGED touched
        BY <1>0, <1>4, <2>3, <3>4, StepShape DEF CheckArea, SkipOf
      <4>2. i.at = "check" /\ i.op = "open" /\ i.areas = Tail(j.areas)
        BY <1>1, <3>1, <4>1, SkipShape
      <4>3. UntouchedMatch(i)'
        BY <1>0, <1>2, <3>3, <4>1, SameTiers DEF UntouchedMatch
      <4>4. \A t : Planned(j, t) => Planned(i, t)'
        BY <1>2, <3>1, <3>2, <3>3, <3>4, <4>2, SameFiles DEF Planned
      <4>5. KnownMatch(i)'
        BY <1>0, <1>2, <3>1, <4>4, SameTiers DEF KnownMatch
      <4> QED
        BY <4>3, <4>5
    <3>5. CASE Fingerprint(a) # stored[a]
      <4> DEFINE ts == IF a = "workspace" THEN BothTiers ELSE <<a>>
      <4>1. i = AreaOf(j, Fingerprint(a), ts) /\ touched' = touched \ {a}
        BY <1>0, <1>4, <2>3, <3>5, StepShape DEF CheckArea, AreaOf
      <4>2. i.at = "list" /\ i.op = "open" /\ i.areas = j.areas /\ i.tiers = ts
        BY <1>1, <3>1, <4>1, AreaShape
      <4>3. a \in ToSet(i.tiers)
        <5>1. a \in ToSet(<<a>>)
          BY DEF ToSet
        <5>2. a = "workspace" => a \in ToSet(BothTiers)
          BY AreaLists DEF Tiers
        <5> QED
          BY <4>2, <5>1, <5>2
      <4>4. InHand(i, a) /\ Planned(i, a)'
        BY <4>2, <4>3 DEF InHand, Planned, Rebuilding
      <4>5. UntouchedMatch(i)'
        BY <1>0, <1>2, <3>3, <4>1, <4>4, SameTiers DEF UntouchedMatch
      <4>6. ASSUME NEW t \in Tiers, t # a, Planned(j, t) PROVE Planned(i, t)'
        BY <1>2, <3>1, <3>2, <3>3, <4>2, <4>6, SameFiles DEF Planned
      <4>7. KnownMatch(i)'
        BY <1>0, <1>2, <3>1, <4>4, <4>6, SameTiers DEF KnownMatch
      <4> QED
        BY <4>5, <4>7
    <3> QED
      BY <3>4, <3>5
  <2>4. CASE Opened
    <3>1. /\ j.at = "check" /\ j.op = "open" /\ j.areas = <<>>
          /\ UNCHANGED <<touched, stored, pending, missed>>
      BY <1>0, <2>4 DEF Opened, PhaseInv, ghostVars
    <3>2. \A t : ~InHand(j, t) /\ ~Planned(j, t)
      BY <3>1, AreaLists DEF InHand, Planned, Rebuilding
    <3> QED
      BY <1>0, <1>2, <3>1, <3>2, SameTiers DEF UntouchedMatch, KnownMatch
  <2>5. CASE Crash
    <3>1. /\ missed' = (missed \/ pending \/ \E p \in Procs : job[p] # Idle)
          /\ touched' = IF j.op = "open" THEN Tiers ELSE touched
      BY <1>0, <2>5 DEF Crash
    <3>2. UntouchedMatch(i)'
      BY <1>0, <1>2, <3>1, SameTiers DEF UntouchedMatch, InHand
    <3>3. ASSUME ~missed' PROVE \A t \in Tiers : TierMatches(t)'
      <4>1. ~missed /\ ~pending /\ j = Idle
        BY <1>0, <3>1, <3>3
      <4>2. \A t : ~Planned(j, t)
        BY <4>1, IdleShape DEF Planned, Rebuilding
      <4> QED
        BY <1>0, <1>2, <4>1, <4>2, SameTiers DEF KnownMatch
    <3> QED
      BY <3>2, <3>3 DEF KnownMatch
  <2> QED
    BY <2>1, <2>2, <2>3, <2>4, <2>5
<1> QED
  BY <1>3, <1>4 DEF RowInv

LEMMA RowsInductive ==
  ASSUME Typed, PhaseInv, RowInv, [Next]_vars
  PROVE  RowInv'
<1>0. Typed'
  BY TypedInductive
<1>1. CASE \E c \in Clients : RequestStep(c)
  BY <1>0, <1>1, RequestsKeepRows
<1>2. CASE \E p \in Procs : RebuildStep(p)
  BY <1>0, <1>2, ReadingKeepsRows, UpsertKeepsRows DEF RebuildStep
<1>3. CASE OnWatchChange \/ Open \/ CheckArea \/ Opened \/ Crash
  BY <1>0, <1>3, EngineKeepsRows
<1>4. CASE Edit
  BY <1>0, <1>4, EditKeepsRows
<1>5. CASE UNCHANGED vars
  BY <1>0, <1>5, QuietSteps DEF vars, dataVars, ghostVars
<1> QED
  BY <1>1, <1>2, <1>3, <1>4, <1>5 DEF Next

LEMMA RowsInit == Init => RowInv
<1> SUFFICES ASSUME Init PROVE RowInv
  OBVIOUS
<1>1. \A i \in Ids : row[i] = NoRow /\ \A p \in Places : file[i][p] = Gone
  BY DEF Init
<1>2. \A t : TierMatches(t)
  BY <1>1 DEF TierMatches, ListedIn, InTier
<1>3. \A p \in Procs : job[p].at = "idle"
  BY IdleShape DEF Init
<1> QED
  BY <1>2, <1>3 DEF RowInv, FreshOrTold, UntouchedMatch, KnownMatch

\* Once every change has been read, and none was missed, every flow is listed with
\* the place and the text of its file, and exactly when it has one: whatever
\* requests, rebuilds, editors, failing transactions and crashes came before.
THEOREM SettledTiersMatch == Spec => []SettledRowsMatchFiles
<1>1. Init => Typed /\ PhaseInv /\ RowInv
  BY ProcessInit, RowsInit
<1>2. Typed /\ PhaseInv /\ RowInv /\ [Next]_vars => Typed' /\ PhaseInv' /\ RowInv'
  BY TypedInductive, PhaseInductive, RowsInductive
<1>3. Typed /\ RowInv => SettledRowsMatchFiles
  <2> SUFFICES ASSUME Typed, RowInv, ~pending, ~missed, \A p \in Procs : job[p] = Idle,
                      NEW i \in Ids
               PROVE  RowMatchesFile(i)
    BY DEF SettledRowsMatchFiles
  <2>1. job[Engine] = Idle /\ Idle \in SoundJobs
    BY IdleSound DEF Procs
  <2>2. \A t \in Tiers : TierMatches(t)
    <3>1. KnownMatch(Idle) /\ \A t : ~Planned(Idle, t)
      BY <2>1, IdleShape DEF RowInv, Planned, Rebuilding
    <3> QED
      BY <3>1 DEF KnownMatch
  <2>3. ASSUME PlacesOf(i) = {} PROVE row[i] = NoRow
    <3>1. \A t \in Tiers : InTier(i, t) = {}
      BY <2>3 DEF PlacesOf, InTier
    <3>2. \A t \in Tiers : ~ListedIn(i, t)
      BY <2>2, <3>1 DEF TierMatches
    <3> QED
      BY <3>2, RowTyped, TierOfPlace DEF ListedIn
  <2>4. ASSUME NEW p \in Places, PlacesOf(i) = {p}, Readable(i, p) PROVE row[i] = RowOf(i, p)
    <3>1. Tier(p) \in Tiers /\ InTier(i, Tier(p)) = {p}
      BY <2>4, TierOfPlace DEF PlacesOf, InTier
    <3> QED
      BY <2>2, <2>4, <3>1 DEF TierMatches
  <2> QED
    BY <2>3, <2>4 DEF RowMatchesFile
<1> QED
  BY <1>1, <1>2, <1>3, PTL DEF Spec
================================================================================
