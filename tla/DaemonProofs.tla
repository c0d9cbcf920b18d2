------------------------ MODULE DaemonProofs ------------------------
(***************************************************************************)
(* Theorems about DaemonLifecycle, and about the lock below it.            *)
(*                                                                         *)
(* The argument for the lifecycle: the owner of the lock is exactly the    *)
(* daemon past acquiring it (ClaimInv); a daemon never goes back before    *)
(* that point (Onwards), so the owner a command found when it began can    *)
(* only disappear; and a stop keeps that owner on its list until it is     *)
(* gone (StopOK).  The lifecycle takes the lock for what WorkspaceClaim    *)
(* promises, and DaemonLock implements WorkspaceClaim as long as           *)
(* acquisitions do not overlap.                                            *)
(***************************************************************************)
EXTENDS DaemonLock, DaemonLifecycle, Integers, SequenceTheorems, TLAPS

\* Where a daemon has the lock, and where it has had it.
Holding == Engaged \cup {"release", "release unheard"}
Past == {"released", "released unheard", "exited"}

\* The lock belongs to the one daemon that is past acquiring it.
ClaimInv ==
  /\ owner = {p \in Daemons : at[p] \in Holding}
  /\ \A p, q \in owner : p = q

\* A record names a daemon that was born.
RecordInv == json # NoProc => at[json] # "unborn"

Stopper(c) == mode[c] \in {"stop", "restart"}
Listed(c) == {victims[c][i] : i \in DOMAIN victims[c]}

\* What a stop or a restart knows at each place.
StopOK(c) ==
  /\ \A q \in began[c] : at[q] \in Holding \cup Past
  /\ Stopper(c) =>
       /\ at[c] \in {"read", "holder", "term", "wait", "forget", "spawn",
                   "handshake", "done", "error"}
       /\ at[c] = "holder" /\ seen[c] # NoProc =>
            at[seen[c]] # "unborn" /\ (Live(seen[c]) => seen[c] \in Listed(c))
       /\ at[c] \in {"term", "wait"} =>
            then[c] = "forget" /\ began[c] \cap owner \subseteq Listed(c)
       /\ at[c] \in {"forget", "spawn", "handshake", "done"} =>
            began[c] \cap owner = {}
  /\ at[c] = "holder" => Stopper(c)
  /\ at[c] # "idle" => Stopper(c) \/ mode[c] = "start"
  /\ at[c] = "idle" => mode[c] = "none"

StopInv == \A c \in Clients : StopOK(c)

(***************************************************************************)
(* Types                                                                   *)
(***************************************************************************)
Places(a) == IF a \in Daemons THEN DaemonPlaces ELSE CommandPlaces

\* Where an actor goes on after its last victim.
Onward(a) ==
  IF a \in Daemons THEN {"forget", "reacquire"} ELSE {"forget", "spawn", "holder left"}

AtOK ==
  /\ at \in [Actors -> DaemonPlaces \cup CommandPlaces]
  /\ \A a \in Actors : at[a] \in Places(a)

ListsOK ==
  /\ victims \in [Actors -> Seq(Daemons)]
  /\ then \in [Actors -> {"none", "forget", "reacquire", "spawn", "holder left"}]
  /\ \A a \in Actors : at[a] \in {"term", "wait"} =>
       victims[a] # <<>> /\ then[a] \in Onward(a)

RestOK ==
  /\ owner \in SUBSET Daemons /\ json \in Pids /\ printed \in SUBSET Daemons
  /\ mode \in [Actors -> {"none", "serve", "serve --restart",
                           "stop", "restart", "start"}]
  /\ seen \in [Actors -> Pids] /\ child \in [Actors -> Pids]
  /\ began \in [Clients -> SUBSET Daemons]

LEMMA TypeParts == AtOK /\ ListsOK /\ RestOK => TypeOK
BY ApartAssumption DEF AtOK, ListsOK, RestOK, TypeOK, Places, Actors

LEMMA TypeInit == Init => AtOK /\ ListsOK /\ RestOK
<1> SUFFICES ASSUME Init PROVE AtOK /\ ListsOK /\ RestOK
  OBVIOUS
<1>1. AtOK
  BY DEF Init, AtOK, Places, Actors, DaemonPlaces, CommandPlaces
<1>2. \A a \in Actors : at[a] \notin {"term", "wait"}
  BY DEF Init, Actors
<1>3. ListsOK
  BY <1>2 DEF Init, ListsOK
<1> QED
  BY <1>1, <1>3 DEF Init, RestOK, Pids

\* A step of one actor to a place of its kind.
LEMMA Moves ==
  ASSUME AtOK, ListsOK, NEW a \in Actors, NEW place, place \in Places(a), Goto(a, place),
         victims' \in [Actors -> Seq(Daemons)],
         then' \in [Actors -> {"none", "forget", "reacquire", "spawn", "holder left"}],
         \A b \in Actors : b # a => victims'[b] = victims[b] /\ then'[b] = then[b],
         place \in {"term", "wait"} => victims'[a] # <<>> /\ then'[a] \in Onward(a)
  PROVE  AtOK' /\ ListsOK'
<1>1. AtOK'
  BY DEF AtOK, Goto, Places
<1>2. \A b \in Actors : at'[b] = IF b = a THEN place ELSE at[b]
  BY DEF AtOK, Goto
<1> QED
  BY <1>1, <1>2 DEF ListsOK, Onward

LEMMA Goes ==
  ASSUME AtOK, ListsOK, NEW a \in Actors, NEW place, place \in Places(a),
         place \in {"term", "wait"} => victims[a] # <<>> /\ then[a] \in Onward(a),
         Goto(a, place), UNCHANGED <<victims, then>>
  PROVE  AtOK' /\ ListsOK'
BY Moves DEF ListsOK

\* A daemon dies, perhaps while another actor goes to wait for it.
LEMMA Dies ==
  ASSUME AtOK, ListsOK, NEW a \in Actors, NEW v \in Daemons, at[a] \in {"term", "wait"},
         at' = [at EXCEPT ![a] = "wait", ![v] = "exited"] \/ at' = [at EXCEPT ![v] = "exited"],
         UNCHANGED <<victims, then>>
  PROVE  AtOK' /\ ListsOK'
<1>1. v \in Actors /\ "exited" \in Places(v) /\ "wait" \in Places(a)
  BY DEF Actors, Places, DaemonPlaces, CommandPlaces
<1>2. AtOK'
  BY <1>1 DEF AtOK, Places
<1>3. \A b \in Actors : at'[b] \in {"term", "wait"} => at[b] \in {"term", "wait"}
  BY <1>1 DEF AtOK
<1> QED
  BY <1>2, <1>3 DEF ListsOK, Onward

LEMMA OneIsAList == <<>> \in Seq(Daemons) /\ \A q \in Daemons : <<q>> \in Seq(Daemons)
OBVIOUS

LEMMA VictimIsDaemon ==
  ASSUME ListsOK, NEW a \in Actors, at[a] \in {"term", "wait"}
  PROVE  Victim(a) \in Daemons
BY HeadTailProperties DEF ListsOK, Victim

LEMMA Stops ==
  ASSUME AtOK, ListsOK, NEW a \in Actors, NEW pids \in Seq(Daemons),
         NEW place \in Onward(a), StopAll(a, pids, place)
  PROVE  AtOK' /\ ListsOK'
<1>1. place \in Places(a) /\ "term" \in Places(a) /\ place \notin {"term", "wait"}
  BY DEF Onward, Places, DaemonPlaces, CommandPlaces
<1>2. CASE pids = <<>>
  BY <1>1, <1>2, Goes DEF StopAll
<1>3. CASE pids # <<>>
  <2>1. /\ Goto(a, "term")
        /\ victims' = [victims EXCEPT ![a] = pids]
        /\ then' = [then EXCEPT ![a] = place]
    BY <1>3 DEF StopAll
  <2>2. /\ victims' \in [Actors -> Seq(Daemons)] /\ victims'[a] = pids
        /\ then' \in [Actors -> {"none", "forget", "reacquire", "spawn", "holder left"}]
        /\ then'[a] = place
        /\ \A b \in Actors : b # a => victims'[b] = victims[b] /\ then'[b] = then[b]
    BY <2>1 DEF ListsOK, Onward
  <2> QED
    BY <1>1, <1>3, <2>1, <2>2, Moves
<1> QED
  BY <1>2, <1>3

LEMMA LongTail ==
  ASSUME NEW S, NEW s \in Seq(S), Len(s) > 1
  PROVE  Tail(s) # <<>>
<1>1. Len(<<>>) = 0 /\ Len(s) \in Nat
  BY EmptySeq, LenProperties
<1>2. s # <<>>
  BY <1>1
<1>3. Len(Tail(s)) = Len(s) - 1
  BY <1>2, HeadTailProperties
<1>a. \A m \in Nat : m > 1 => m - 1 # 0
  OBVIOUS
<1>4. Len(s) - 1 # 0
  BY <1>1, <1>a
<1>5. Len(Tail(s)) # 0
  BY <1>3, <1>4, Zenon
<1> QED
  BY <1>1, <1>5, Zenon

LEMMA Advances ==
  ASSUME AtOK, ListsOK, NEW a \in Actors, at[a] \in {"term", "wait"}, NextVictim(a)
  PROVE  AtOK' /\ ListsOK'
<1>1. /\ victims[a] \in Seq(Daemons) /\ victims[a] # <<>> /\ then[a] \in Onward(a)
      /\ victims' = [victims EXCEPT ![a] = Tail(victims[a])]
  BY DEF ListsOK, NextVictim
<1>2. victims' \in [Actors -> Seq(Daemons)] /\ victims'[a] = Tail(victims[a])
  BY <1>1, HeadTailProperties DEF ListsOK
<1>3. then[a] \in Places(a) /\ "term" \in Places(a) /\ then[a] \notin {"term", "wait"}
  BY <1>1 DEF Onward, Places, DaemonPlaces, CommandPlaces
<1>4. CASE Len(victims[a]) > 1
  <2>1. Goto(a, "term") /\ UNCHANGED then
    BY <1>4 DEF NextVictim
  <2>2. AtOK' /\ \A b \in Actors : b # a => at'[b] = at[b] /\ victims'[b] = victims[b]
    BY <1>1, <1>3, <2>1 DEF AtOK, ListsOK, Goto, Places
  <2>3. Tail(victims[a]) # <<>>
    BY <1>1, <1>4, LongTail
  <2> QED
    BY <1>1, <1>2, <2>1, <2>2, <2>3 DEF ListsOK, Onward
<1>5. CASE ~(Len(victims[a]) > 1)
  <2>1. Goto(a, then[a]) /\ then' = [then EXCEPT ![a] = "none"]
    BY <1>5 DEF NextVictim
  <2>2. AtOK' /\ at'[a] = then[a]
    BY <1>3, <2>1 DEF AtOK, Goto, Places
  <2>3. \A b \in Actors : b # a =>
          at'[b] = at[b] /\ victims'[b] = victims[b] /\ then'[b] = then[b]
    BY <1>1, <2>1 DEF AtOK, ListsOK, Goto
  <2>4. then' \in [Actors -> {"none", "forget", "reacquire", "spawn", "holder left"}]
    BY <2>1 DEF ListsOK
  <2> QED
    BY <1>2, <1>3, <2>2, <2>3, <2>4 DEF ListsOK, Onward
<1> QED
  BY <1>4, <1>5

LEMMA RestStep == AtOK /\ ListsOK /\ RestOK /\ [Next]_vars => RestOK'
<1> SUFFICES ASSUME AtOK, ListsOK, RestOK, [Next]_vars PROVE RestOK'
  OBVIOUS
<1> USE DEF RestOK, Actors, Pids, workspace, locals
<1>1. ASSUME NEW p \in Daemons, Serve(p) PROVE RestOK'
  BY <1>1 DEF Serve, Birth
<1>2. ASSUME NEW p \in Daemons, ReadRecord(p) PROVE RestOK'
  BY <1>2 DEF ReadRecord
<1>3. ASSUME NEW p \in Daemons, RefuseOrReplace(p) PROVE RestOK'
  BY <1>3 DEF RefuseOrReplace
<1>4. ASSUME NEW p \in Daemons, ForgetReplaced(p) PROVE RestOK'
  BY <1>4 DEF ForgetReplaced
<1>5. ASSUME NEW p \in Daemons, AcquireLock(p) PROVE RestOK'
  BY <1>5 DEF AcquireLock
<1>6. ASSUME NEW p \in Daemons, StopHolder(p) PROVE RestOK'
  BY <1>6 DEF StopHolder
<1>7. ASSUME NEW p \in Daemons, Open(p) PROVE RestOK'
  BY <1>7 DEF Open
<1>8. ASSUME NEW p \in Daemons, FailToStart(p) PROVE RestOK'
  BY <1>8 DEF FailToStart
<1>9. ASSUME NEW p \in Daemons, WriteRecord(p) PROVE RestOK'
  BY <1>9 DEF WriteRecord
<1>10. ASSUME NEW p \in Daemons, PrintHandshake(p) PROVE RestOK'
  BY <1>10 DEF PrintHandshake
<1>11. ASSUME NEW p \in Daemons, Shutdown(p) PROVE RestOK'
  BY <1>11 DEF Shutdown
<1>12. ASSUME NEW p \in Daemons, RemoveRecord(p) PROVE RestOK'
  BY <1>12 DEF RemoveRecord
<1>13. ASSUME NEW p \in Daemons, CloseEngine(p) PROVE RestOK'
  BY <1>13 DEF CloseEngine
<1>14. ASSUME NEW p \in Daemons, Exit(p) PROVE RestOK'
  BY <1>14 DEF Exit
<1>32. ASSUME NEW p \in Daemons, ReleaseLock(p) PROVE RestOK'
  BY <1>32 DEF ReleaseLock
<1>15. ASSUME NEW c \in Clients, Begin(c) PROVE RestOK'
  BY <1>15, ApartAssumption DEF Begin
<1>16. ASSUME NEW c \in Clients, ReadToStop(c) PROVE RestOK'
  BY <1>16, ApartAssumption DEF ReadToStop
<1>17. ASSUME NEW c \in Clients, ReadToReplace(c) PROVE RestOK'
  BY <1>17, ApartAssumption DEF ReadToReplace
<1>18. ASSUME NEW c \in Clients, AskHolder(c) PROVE RestOK'
  BY <1>18, ApartAssumption DEF AskHolder
<1>19. ASSUME NEW c \in Clients, Forget(c) PROVE RestOK'
  BY <1>19, ApartAssumption DEF Forget
<1>20. ASSUME NEW c \in Clients, Find(c) PROVE RestOK'
  BY <1>20, ApartAssumption DEF Find
<1>21. ASSUME NEW c \in Clients, FindAlive(c) PROVE RestOK'
  BY <1>21, ApartAssumption DEF FindAlive
<1>22. ASSUME NEW c \in Clients, FindRunning(c) PROVE RestOK'
  BY <1>22, ApartAssumption DEF FindRunning
<1>23. ASSUME NEW c \in Clients, StopOrphan(c) PROVE RestOK'
  BY <1>23, ApartAssumption DEF StopOrphan
<1>24. ASSUME NEW c \in Clients, StopHolderLeft(c) PROVE RestOK'
  BY <1>24, ApartAssumption DEF StopHolderLeft
<1>25. ASSUME NEW c \in Clients, Spawn(c) PROVE RestOK'
  <2>1. ASSUME NEW p \in Daemons, Birth(p, "serve"), child' = [child EXCEPT ![c] = p]
        PROVE  mode' \in [Actors -> {"none", "serve", "serve --restart",
                                     "stop", "restart", "start"}]
               /\ child' \in [Actors -> Pids]
    BY <2>1 DEF Birth
  <2>2. UNCHANGED <<owner, json, printed, seen, began>>
    BY <1>25 DEF Spawn
  <2> QED
    BY <1>25, <2>1, <2>2 DEF Spawn
<1>26. ASSUME NEW c \in Clients, Handshake(c) PROVE RestOK'
  BY <1>26, ApartAssumption DEF Handshake
<1>27. ASSUME NEW a \in Actors, Term(a) PROVE RestOK'
  BY <1>27 DEF Term
<1>28. ASSUME NEW a \in Actors, WaitForExit(a) PROVE RestOK'
  BY <1>28 DEF WaitForExit
<1>29. ASSUME NEW a \in Actors, Kill(a) PROVE RestOK'
  BY <1>29 DEF Kill
<1>30. ASSUME NEW a \in Actors, Survives(a) PROVE RestOK'
  BY <1>30 DEF Survives
<1>31. CASE UNCHANGED vars
  BY <1>31 DEF vars
<1> QED
  BY <1>1, <1>2, <1>3, <1>4, <1>5, <1>6, <1>7, <1>8, <1>9, <1>10, <1>11, <1>12,
     <1>13, <1>14, <1>15, <1>16, <1>17, <1>18, <1>19, <1>20, <1>21, <1>22, <1>23,
     <1>24, <1>25, <1>26, <1>27, <1>28, <1>29, <1>30, <1>31, <1>32
     DEF Next, Daemon, Command, Stopping

LEMMA AtStep == AtOK /\ ListsOK /\ RestOK /\ [Next]_vars => AtOK' /\ ListsOK'
<1> SUFFICES ASSUME AtOK, ListsOK, RestOK, [Next]_vars PROVE AtOK' /\ ListsOK'
  OBVIOUS
<1> USE DEF workspace, locals
<1>d. \A p \in Daemons : p \in Actors /\ Places(p) = DaemonPlaces /\ Onward(p) = {"forget", "reacquire"}
  BY DEF Actors, Places, Onward
<1>c. \A c \in Clients : c \in Actors /\ Places(c) = CommandPlaces
                        /\ Onward(c) = {"forget", "spawn", "holder left"}
  BY ApartAssumption DEF Actors, Places, Onward
<1>1. ASSUME NEW p \in Daemons, Serve(p) PROVE AtOK' /\ ListsOK'
  BY <1>1, <1>d, Goes DEF Serve, DaemonPlaces, Engaged, Starting
<1>2. ASSUME NEW p \in Daemons, ReadRecord(p) PROVE AtOK' /\ ListsOK'
  BY <1>2, <1>d, Goes DEF ReadRecord, DaemonPlaces, Engaged, Starting
<1>3. ASSUME NEW p \in Daemons, RefuseOrReplace(p) PROVE AtOK' /\ ListsOK'
  <2>1. CASE Goto(p, "acquire") /\ UNCHANGED <<victims, then>>
    BY <2>1, <1>d, Goes DEF DaemonPlaces
  <2>2. CASE Goto(p, "exited") /\ UNCHANGED <<victims, then>>
    BY <2>2, <1>d, Goes DEF DaemonPlaces
  <2>3. CASE MayAnswer(seen[p]) /\ StopAll(p, <<seen[p]>>, "forget")
    BY <2>3, <1>d, OneIsAList, Stops DEF MayAnswer
  <2> QED
    BY <1>3, <2>1, <2>2, <2>3 DEF RefuseOrReplace
<1>4. ASSUME NEW p \in Daemons, ForgetReplaced(p) PROVE AtOK' /\ ListsOK'
  BY <1>4, <1>d, Goes DEF ForgetReplaced, DaemonPlaces, Engaged, Starting
<1>5. ASSUME NEW p \in Daemons, AcquireLock(p) PROVE AtOK' /\ ListsOK'
  BY <1>5, <1>d, Goes DEF AcquireLock, DaemonPlaces, Engaged, Starting
<1>6. ASSUME NEW p \in Daemons, StopHolder(p) PROVE AtOK' /\ ListsOK'
  BY <1>6, <1>d, Goes, Stops, OneIsAList DEF StopHolder, RestOK
<1>7. ASSUME NEW p \in Daemons, Open(p) PROVE AtOK' /\ ListsOK'
  BY <1>7, <1>d, Goes DEF Open, DaemonPlaces, Engaged, Starting
<1>8. ASSUME NEW p \in Daemons, FailToStart(p) PROVE AtOK' /\ ListsOK'
  BY <1>8, <1>d, Goes DEF FailToStart, DaemonPlaces, Engaged, Starting
<1>9. ASSUME NEW p \in Daemons, WriteRecord(p) PROVE AtOK' /\ ListsOK'
  BY <1>9, <1>d, Goes DEF WriteRecord, DaemonPlaces, Engaged, Starting
<1>10. ASSUME NEW p \in Daemons, PrintHandshake(p) PROVE AtOK' /\ ListsOK'
  BY <1>10, <1>d, Goes DEF PrintHandshake, DaemonPlaces, Engaged, Starting
<1>11. ASSUME NEW p \in Daemons, Shutdown(p) PROVE AtOK' /\ ListsOK'
  BY <1>11, <1>d, Goes DEF Shutdown, DaemonPlaces, Engaged, Starting
<1>12. ASSUME NEW p \in Daemons, RemoveRecord(p) PROVE AtOK' /\ ListsOK'
  BY <1>12, <1>d, Goes DEF RemoveRecord, DaemonPlaces, Engaged, Starting
<1>13. ASSUME NEW p \in Daemons, CloseEngine(p) PROVE AtOK' /\ ListsOK'
  BY <1>13, <1>d, Goes DEF CloseEngine, DaemonPlaces, Engaged, Starting, Unheard
<1>14. ASSUME NEW p \in Daemons, Exit(p) PROVE AtOK' /\ ListsOK'
  BY <1>14, <1>d, Goes DEF Exit, DaemonPlaces, Engaged, Starting
<1>32. ASSUME NEW p \in Daemons, ReleaseLock(p) PROVE AtOK' /\ ListsOK'
  BY <1>32, <1>d, Goes DEF ReleaseLock, DaemonPlaces, Engaged, Starting, Unheard
<1>15. ASSUME NEW c \in Clients, Begin(c) PROVE AtOK' /\ ListsOK'
  BY <1>15, <1>c, Goes DEF Begin, CommandPlaces
<1>16. ASSUME NEW c \in Clients, ReadToStop(c) PROVE AtOK' /\ ListsOK'
  <2>1. Running(json) \in Seq(Daemons)
    BY OneIsAList DEF Running, RestOK, Pids
  <2>2. "holder" \in Places(c) /\ Goto(c, "holder") /\ UNCHANGED then
        /\ victims' = [victims EXCEPT ![c] = Running(json)]
    BY <1>16, <1>c DEF ReadToStop, CommandPlaces
  <2>3. victims' \in [Actors -> Seq(Daemons)]
        /\ \A b \in Actors : b # c => victims'[b] = victims[b]
    BY <2>1, <2>2 DEF ListsOK
  <2> QED
    BY <1>c, <2>2, <2>3, Moves DEF ListsOK
<1>17. ASSUME NEW c \in Clients, ReadToReplace(c) PROVE AtOK' /\ ListsOK'
  BY <1>17, <1>c, Stops, OneIsAList DEF ReadToReplace, RestOK, Pids
<1>18. ASSUME NEW c \in Clients, AskHolder(c) PROVE AtOK' /\ ListsOK'
  <2>1. victims' \in [Actors -> Seq(Daemons)]
        /\ \A b \in Actors : b # c => victims'[b] = victims[b]
    <3>1. \A q \in owner : Append(victims[c], q) \in Seq(Daemons)
      BY <1>c, AppendProperties DEF ListsOK, RestOK
    <3> QED
      BY <1>18, <1>c, <3>1 DEF AskHolder, ListsOK
  <2>2. CASE victims'[c] = <<>>
    <3>1. AfterStop(c) \in {"spawn", "done", "forget"} /\ Goto(c, AfterStop(c)) /\ UNCHANGED then
      BY <1>18, <2>2 DEF AskHolder, AfterStop
    <3>2. AfterStop(c) \in Places(c) /\ AfterStop(c) \notin {"term", "wait"}
      BY <1>c, <3>1 DEF CommandPlaces
    <3> QED
      BY <1>c, <2>1, <3>1, <3>2, Moves DEF ListsOK
  <2>3. CASE victims'[c] # <<>>
    <3>1. Goto(c, "term") /\ then' = [then EXCEPT ![c] = "forget"] /\ "term" \in Places(c)
      BY <1>18, <1>c, <2>3 DEF AskHolder, CommandPlaces
    <3>2. then' \in [Actors -> {"none", "forget", "reacquire", "spawn", "holder left"}]
          /\ then'[c] = "forget" /\ \A b \in Actors : b # c => then'[b] = then[b]
      BY <1>c, <3>1 DEF ListsOK
    <3> QED
      BY <1>c, <2>1, <2>3, <3>1, <3>2, Moves
  <2> QED
    BY <2>2, <2>3
<1>19. ASSUME NEW c \in Clients, Forget(c) PROVE AtOK' /\ ListsOK'
  BY <1>19, <1>c, Goes DEF Forget, CommandPlaces
<1>20. ASSUME NEW c \in Clients, Find(c) PROVE AtOK' /\ ListsOK'
  BY <1>20, <1>c, Goes DEF Find, CommandPlaces
<1>21. ASSUME NEW c \in Clients, FindAlive(c) PROVE AtOK' /\ ListsOK'
  BY <1>21, <1>c, Goes DEF FindAlive, CommandPlaces
<1>22. ASSUME NEW c \in Clients, FindRunning(c) PROVE AtOK' /\ ListsOK'
  BY <1>22, <1>c, Goes DEF FindRunning, CommandPlaces
<1>23. ASSUME NEW c \in Clients, StopOrphan(c) PROVE AtOK' /\ ListsOK'
  BY <1>23, <1>c, Stops, OneIsAList DEF StopOrphan, RestOK, Pids
<1>24. ASSUME NEW c \in Clients, StopHolderLeft(c) PROVE AtOK' /\ ListsOK'
  BY <1>24, <1>c, Stops, OneIsAList DEF StopHolderLeft, RestOK, Pids
<1>25. ASSUME NEW c \in Clients, Spawn(c) PROVE AtOK' /\ ListsOK'
  <2>1. ASSUME NEW p \in Daemons,
               at' = [at EXCEPT ![p] = "check", ![c] = "handshake"]
        PROVE  AtOK' /\ ListsOK'
    <3>1. p # c /\ "check" \in Places(p) /\ "handshake" \in Places(c)
      BY <1>c, <1>d, ApartAssumption DEF DaemonPlaces, CommandPlaces
    <3>2. AtOK'
      BY <1>c, <1>d, <2>1, <3>1 DEF AtOK, Places
    <3>3. UNCHANGED <<victims, then>>
          /\ \A b \in Actors : at'[b] \in {"term", "wait"} => at'[b] = at[b]
      BY <1>25, <1>c, <1>d, <2>1, <3>1 DEF Spawn, AtOK
    <3> QED
      BY <3>2, <3>3 DEF ListsOK, Onward
  <2>2. CASE Goto(c, "error")
    BY <1>25, <2>2, <1>c, Goes DEF Spawn, CommandPlaces
  <2> QED
    BY <1>25, <2>1, <2>2 DEF Spawn
<1>26. ASSUME NEW c \in Clients, Handshake(c) PROVE AtOK' /\ ListsOK'
  BY <1>26, <1>c, Goes DEF Handshake, CommandPlaces
<1>27. ASSUME NEW a \in Actors, Term(a) PROVE AtOK' /\ ListsOK'
  <2>1. at[a] = "term" /\ Victim(a) \in Daemons
    BY <1>27, VictimIsDaemon DEF Term
  <2>2. CASE NextVictim(a)
    BY <2>1, <2>2, Advances
  <2>3. CASE Goto(a, "wait") /\ UNCHANGED <<victims, then>>
    BY <2>1, <2>3, Goes DEF ListsOK, Places, DaemonPlaces, CommandPlaces
  <2>4. CASE at' = [at EXCEPT ![a] = "wait", ![Victim(a)] = "exited"] /\ UNCHANGED <<victims, then>>
    BY <2>1, <2>4, Dies
  <2> QED
    BY <1>27, <2>2, <2>3, <2>4 DEF Term
<1>28. ASSUME NEW a \in Actors, WaitForExit(a) PROVE AtOK' /\ ListsOK'
  BY <1>28, Advances DEF WaitForExit
<1>29. ASSUME NEW a \in Actors, Kill(a) PROVE AtOK' /\ ListsOK'
  BY <1>29, VictimIsDaemon, Dies DEF Kill
<1>30. ASSUME NEW a \in Actors, Survives(a) PROVE AtOK' /\ ListsOK'
  BY <1>30, Goes DEF Survives, Places, DaemonPlaces, CommandPlaces
<1>31. CASE UNCHANGED vars
  BY <1>31 DEF vars, AtOK, ListsOK
<1> QED
  BY <1>1, <1>2, <1>3, <1>4, <1>5, <1>6, <1>7, <1>8, <1>9, <1>10, <1>11, <1>12,
     <1>13, <1>14, <1>15, <1>16, <1>17, <1>18, <1>19, <1>20, <1>21, <1>22, <1>23,
     <1>24, <1>25, <1>26, <1>27, <1>28, <1>29, <1>30, <1>31, <1>32
     DEF Next, Daemon, Command, Stopping, Actors

(***************************************************************************)
(* The lock and the daemons                                                *)
(***************************************************************************)
\* What a step may do to the daemons: none is unborn again, back from the dead,
\* or back before acquiring the lock.
Onwards ==
  \A p \in Daemons :
    /\ at[p] # "unborn" => at'[p] # "unborn"
    /\ at[p] = "exited" => at'[p] = "exited"
    /\ at[p] \in Holding => at'[p] \in Holding \cup Past
    /\ at[p] \in Past => at'[p] \in Past

Kept ==
  /\ \A p \in Daemons : at'[p] \in Holding <=> at[p] \in Holding
  /\ owner' = owner

LEMMA KeptClaim == ClaimInv /\ Kept => ClaimInv'
BY DEF ClaimInv, Kept

LEMMA DeathClaim ==
  ASSUME ClaimInv, NEW v \in Daemons, at'[v] \in Past, owner' = owner \ {v},
         \A p \in Daemons \ {v} : at'[p] \in Holding <=> at[p] \in Holding
  PROVE  ClaimInv'
<1>1. Past \cap Holding = {}
  BY DEF Past, Holding, Engaged, Starting
<1> QED
  BY <1>1 DEF ClaimInv

LEMMA DeathAlone ==
  ASSUME AtOK, NEW a \in Actors, NEW v \in Daemons, at[a] \in {"term", "wait"},
         at' = [at EXCEPT ![a] = "wait", ![v] = "exited"] \/ at' = [at EXCEPT ![v] = "exited"]
  PROVE  /\ at'[v] = "exited"
         /\ \A q \in Daemons \ {v} :
              at'[q] = at[q] \/ (at[q] \in {"term", "wait"} /\ at'[q] = "wait")
<1>1. v \in Actors /\ \A q \in Daemons : q \in Actors
  BY DEF Actors
<1> QED
  BY <1>1 DEF AtOK

LEMMA DaemonsStep ==
  AtOK /\ ListsOK /\ RestOK /\ ClaimInv /\ [Next]_vars => Onwards /\ ClaimInv'
<1> SUFFICES ASSUME AtOK, ListsOK, RestOK, ClaimInv, [Next]_vars
             PROVE  Onwards /\ ClaimInv'
  OBVIOUS
<1> USE DEF workspace, locals, Goto
<1>a. \A p \in Daemons : p \in Actors
  BY DEF Actors
<1>c. \A c \in Clients : c \in Actors /\ c \notin Daemons
  BY ApartAssumption DEF Actors
<1>1. ASSUME NEW p \in Daemons, Serve(p) PROVE Onwards /\ ClaimInv'
  BY <1>1, <1>a, KeptClaim
     DEF Serve, AtOK, Birth, Holding, Engaged, Starting, Onwards, Past, Kept
<1>2. ASSUME NEW p \in Daemons, ReadRecord(p) PROVE Onwards /\ ClaimInv'
  BY <1>2, <1>a, KeptClaim DEF ReadRecord, AtOK, Holding, Engaged, Starting, Onwards, Past, Kept
<1>3. ASSUME NEW p \in Daemons, RefuseOrReplace(p) PROVE Onwards /\ ClaimInv'
  BY <1>3, <1>a, KeptClaim
     DEF RefuseOrReplace, AtOK, StopAll, Holding, Engaged, Starting, Onwards, Past, Kept
<1>4. ASSUME NEW p \in Daemons, ForgetReplaced(p) PROVE Onwards /\ ClaimInv'
  BY <1>4, <1>a, KeptClaim
     DEF ForgetReplaced, AtOK, Holding, Engaged, Starting, Onwards, Past, Kept
<1>5. ASSUME NEW p \in Daemons, AcquireLock(p) PROVE Onwards /\ ClaimInv'
  <2>1. CASE owner = {}
    <3>1. owner' = {p} /\ at'[p] = "claimed" /\ \A q \in Daemons \ {p} : at'[q] = at[q]
      BY <1>5, <2>1, <1>a DEF AcquireLock, AtOK
    <3>2. \A q \in Daemons : at[q] \notin Holding
      BY <2>1 DEF ClaimInv
    <3>3. "claimed" \in Holding
      BY DEF Holding, Engaged, Starting
    <3>4. at[p] \notin Past
      BY <1>5 DEF AcquireLock, Past
    <3> QED
      BY <3>1, <3>2, <3>3, <3>4 DEF ClaimInv, Onwards, Past
  <2>2. CASE owner # {}
    BY <1>5, <2>2, <1>a, KeptClaim
       DEF AcquireLock, AtOK, Holding, Engaged, Starting, Onwards, Past, Kept
  <2> QED
    BY <2>1, <2>2
<1>6. ASSUME NEW p \in Daemons, StopHolder(p) PROVE Onwards /\ ClaimInv'
  BY <1>6, <1>a, KeptClaim
     DEF StopHolder, AtOK, StopAll, Holding, Engaged, Starting, Onwards, Past, Kept
<1>7. ASSUME NEW p \in Daemons, Open(p) PROVE Onwards /\ ClaimInv'
  BY <1>7, <1>a, KeptClaim DEF Open, AtOK, Holding, Engaged, Starting, Onwards, Past, Kept
<1>8. ASSUME NEW p \in Daemons, FailToStart(p) PROVE Onwards /\ ClaimInv'
  BY <1>8, <1>a, KeptClaim
     DEF FailToStart, AtOK, Holding, Engaged, Starting, Onwards, Past, Kept
<1>9. ASSUME NEW p \in Daemons, WriteRecord(p) PROVE Onwards /\ ClaimInv'
  BY <1>9, <1>a, KeptClaim
     DEF WriteRecord, AtOK, Holding, Engaged, Starting, Onwards, Past, Kept
<1>10. ASSUME NEW p \in Daemons, PrintHandshake(p) PROVE Onwards /\ ClaimInv'
  BY <1>10, <1>a, KeptClaim
     DEF PrintHandshake, AtOK, Holding, Engaged, Starting, Onwards, Past, Kept
<1>11. ASSUME NEW p \in Daemons, Shutdown(p) PROVE Onwards /\ ClaimInv'
  BY <1>11, <1>a, KeptClaim DEF Shutdown, AtOK, Holding, Engaged, Starting, Onwards, Past, Kept
<1>12. ASSUME NEW p \in Daemons, RemoveRecord(p) PROVE Onwards /\ ClaimInv'
  BY <1>12, <1>a, KeptClaim
     DEF RemoveRecord, AtOK, Holding, Engaged, Starting, Onwards, Past, Kept
<1>13. ASSUME NEW p \in Daemons, CloseEngine(p) PROVE Onwards /\ ClaimInv'
  BY <1>13, <1>a, KeptClaim
     DEF CloseEngine, AtOK, Holding, Engaged, Starting, Onwards, Past, Kept
<1>14. ASSUME NEW p \in Daemons, Exit(p) PROVE Onwards /\ ClaimInv'
  <2>1. at'[p] = "exited" /\ owner' = owner \ {p} /\ \A q \in Daemons \ {p} : at'[q] = at[q]
    BY <1>14, <1>a DEF Exit, AtOK
  <2> QED
    BY <2>1, DeathClaim DEF Onwards, Past
<1>32. ASSUME NEW p \in Daemons, ReleaseLock(p) PROVE Onwards /\ ClaimInv'
  <2>1. /\ at[p] \in {"release", "release unheard"} /\ at'[p] \in {"released", "released unheard"}
        /\ owner' = owner \ {p} /\ \A q \in Daemons \ {p} : at'[q] = at[q]
    BY <1>32, <1>a DEF ReleaseLock, AtOK
  <2> QED
    BY <2>1, DeathClaim DEF Onwards, Past
<1>15. ASSUME NEW c \in Clients, Begin(c) PROVE Onwards /\ ClaimInv'
  BY <1>15, <1>a, <1>c, KeptClaim DEF Begin, AtOK, Onwards, Past, Kept
<1>16. ASSUME NEW c \in Clients, ReadToStop(c) PROVE Onwards /\ ClaimInv'
  BY <1>16, <1>a, <1>c, KeptClaim DEF ReadToStop, AtOK, Onwards, Past, Kept
<1>17. ASSUME NEW c \in Clients, ReadToReplace(c) PROVE Onwards /\ ClaimInv'
  BY <1>17, <1>a, <1>c, KeptClaim DEF ReadToReplace, AtOK, Onwards, Past, Kept, StopAll
<1>18. ASSUME NEW c \in Clients, AskHolder(c) PROVE Onwards /\ ClaimInv'
  BY <1>18, <1>a, <1>c, KeptClaim DEF AskHolder, AtOK, Onwards, Past, Kept
<1>19. ASSUME NEW c \in Clients, Forget(c) PROVE Onwards /\ ClaimInv'
  BY <1>19, <1>a, <1>c, KeptClaim DEF Forget, AtOK, Onwards, Past, Kept
<1>20. ASSUME NEW c \in Clients, Find(c) PROVE Onwards /\ ClaimInv'
  BY <1>20, <1>a, <1>c, KeptClaim DEF Find, AtOK, Onwards, Past, Kept
<1>21. ASSUME NEW c \in Clients, FindAlive(c) PROVE Onwards /\ ClaimInv'
  BY <1>21, <1>a, <1>c, KeptClaim DEF FindAlive, AtOK, Onwards, Past, Kept
<1>22. ASSUME NEW c \in Clients, FindRunning(c) PROVE Onwards /\ ClaimInv'
  BY <1>22, <1>a, <1>c, KeptClaim DEF FindRunning, AtOK, Onwards, Past, Kept
<1>23. ASSUME NEW c \in Clients, StopOrphan(c) PROVE Onwards /\ ClaimInv'
  BY <1>23, <1>a, <1>c, KeptClaim DEF StopOrphan, AtOK, Onwards, Past, Kept, StopAll
<1>24. ASSUME NEW c \in Clients, StopHolderLeft(c) PROVE Onwards /\ ClaimInv'
  BY <1>24, <1>a, <1>c, KeptClaim DEF StopHolderLeft, AtOK, Onwards, Past, Kept, StopAll
<1>25. ASSUME NEW c \in Clients, Spawn(c) PROVE Onwards /\ ClaimInv'
  BY <1>25, <1>a, <1>c, KeptClaim
     DEF Spawn, AtOK, Birth, Holding, Engaged, Starting, Onwards, Past, Kept
<1>26. ASSUME NEW c \in Clients, Handshake(c) PROVE Onwards /\ ClaimInv'
  BY <1>26, <1>a, <1>c, KeptClaim DEF Handshake, AtOK, Onwards, Past, Kept
<1>27. ASSUME NEW a \in Actors, Term(a) PROVE Onwards /\ ClaimInv'
  <2>1. at[a] = "term" /\ Victim(a) \in Daemons /\ then[a] \in {"forget", "reacquire", "spawn", "holder left"}
    BY <1>27, VictimIsDaemon DEF Term, ListsOK, Onward
  <2>2. CASE NextVictim(a) /\ UNCHANGED owner
    BY <2>1, <2>2, <1>a, KeptClaim
       DEF NextVictim, AtOK, Holding, Engaged, Starting, Onwards, Past, Kept
  <2>3. CASE Goto(a, "wait") /\ UNCHANGED owner
    BY <2>1, <2>3, <1>a, KeptClaim DEF AtOK, Holding, Engaged, Starting, Onwards, Past, Kept
  <2>4. CASE /\ at' = [at EXCEPT ![a] = "wait", ![Victim(a)] = "exited"]
             /\ owner' = owner \ {Victim(a)}
    <3>1. at'[Victim(a)] = "exited" /\ owner' = owner \ {Victim(a)}
          /\ \A q \in Daemons \ {Victim(a)} :
               at'[q] = at[q] \/ (at[q] \in {"term", "wait"} /\ at'[q] = "wait")
      BY <2>4, <2>1, DeathAlone
    <3>2. {"term", "wait", "exited", "unborn"} \cap Holding = {}
      BY DEF Holding, Engaged, Starting
    <3> QED
      BY <2>1, <3>1, <3>2, DeathClaim DEF Onwards, Past
  <2> QED
    BY <1>27, <2>2, <2>3, <2>4 DEF Term
<1>28. ASSUME NEW a \in Actors, WaitForExit(a) PROVE Onwards /\ ClaimInv'
  <2>1. at[a] = "wait" /\ then[a] \in {"forget", "reacquire", "spawn", "holder left"}
    BY <1>28 DEF WaitForExit, ListsOK, Onward
  <2> QED
    BY <1>28, <2>1, <1>a, KeptClaim
       DEF WaitForExit, NextVictim, AtOK, Holding, Engaged, Starting, Onwards, Past, Kept
<1>29. ASSUME NEW a \in Actors, Kill(a) PROVE Onwards /\ ClaimInv'
  <2>1. at[a] = "wait" /\ Victim(a) \in Daemons
    BY <1>29, VictimIsDaemon DEF Kill
  <2>2. Onwards /\ ClaimInv'
    <3>1. at'[Victim(a)] = "exited" /\ owner' = owner \ {Victim(a)}
          /\ \A q \in Daemons \ {Victim(a)} :
               at'[q] = at[q] \/ (at[q] \in {"term", "wait"} /\ at'[q] = "wait")
      BY <1>29, <2>1, DeathAlone DEF Kill
    <3>2. {"term", "wait", "exited", "unborn"} \cap Holding = {}
      BY DEF Holding, Engaged, Starting
    <3> QED
      BY <2>1, <3>1, <3>2, DeathClaim DEF Onwards, Past
  <2> QED
    BY <2>2
<1>30. ASSUME NEW a \in Actors, Survives(a) PROVE Onwards /\ ClaimInv'
  BY <1>30, <1>a, KeptClaim DEF Survives, AtOK, Holding, Engaged, Starting, Onwards, Past, Kept
<1>31. CASE UNCHANGED vars
  BY <1>31, KeptClaim DEF vars, Onwards, Kept
<1> QED
  BY <1>1, <1>2, <1>3, <1>4, <1>5, <1>6, <1>7, <1>8, <1>9, <1>10, <1>11, <1>12,
     <1>13, <1>14, <1>15, <1>16, <1>17, <1>18, <1>19, <1>20, <1>21, <1>22, <1>23,
     <1>24, <1>25, <1>26, <1>27, <1>28, <1>29, <1>30, <1>31, <1>32
     DEF Next, Daemon, Command, Stopping, Actors

(***************************************************************************)
(* What the commands know                                                  *)
(***************************************************************************)
\* Only a daemon that writes the record names a process there.
LEMMA RecordWrites ==
  ASSUME [Next]_vars
  PROVE  json' \in {json, NoProc} \/ \E p \in Daemons : WriteRecord(p)
BY DEF Next, Daemon, Command, Stopping, vars, workspace, locals,
       Serve, ReadRecord, RefuseOrReplace, ForgetReplaced, AcquireLock, StopHolder, Open, FailToStart, PrintHandshake, Shutdown, RemoveRecord, CloseEngine,
       ReleaseLock, Exit, Begin, ReadToStop, ReadToReplace, AskHolder, Forget,
       Find, FindAlive, FindRunning, StopOrphan, StopHolderLeft, Spawn, Handshake, Term, WaitForExit, Kill, Survives

LEMMA RecordStep ==
  RestOK /\ RecordInv /\ Onwards /\ [Next]_vars => RecordInv'
<1> SUFFICES ASSUME RestOK, RecordInv, Onwards, [Next]_vars PROVE RecordInv'
  OBVIOUS
<1>1. CASE json' \in {json, NoProc}
  BY <1>1, ProcsAssumption DEF RecordInv, Onwards, RestOK, Pids
<1>2. ASSUME NEW p \in Daemons, WriteRecord(p) PROVE RecordInv'
  BY <1>2 DEF WriteRecord, RecordInv, Onwards
<1> QED
  BY <1>1, <1>2, RecordWrites

\* What another actor's step leaves of a command's.
Same(c) ==
  /\ at'[c] = at[c] /\ mode'[c] = mode[c] /\ seen'[c] = seen[c]
  /\ victims'[c] = victims[c] /\ then'[c] = then[c] /\ began'[c] = began[c]

LEMMA OthersStep ==
  ASSUME AtOK, ListsOK, RestOK, NEW c \in Clients, [Next]_vars
  PROVE  Same(c) \/ Begin(c) \/ Command(c)
<1>c. c \in Actors /\ c \notin Daemons
  BY ApartAssumption DEF Actors
<1>d. \A p \in Daemons : p \in Actors
  BY DEF Actors
<1> USE DEF workspace, locals, Goto, Same
<1>s. ASSUME NEW a \in Actors, a # c, Stopping(a) PROVE Same(c)
  <2>1. at[a] \in {"term", "wait"} /\ Victim(a) \in Daemons
    BY <1>s, VictimIsDaemon DEF Stopping, Term, WaitForExit, Kill, Survives
  <2>2. CASE Term(a)
    BY <1>s, <1>c, <2>1, <2>2 DEF Term, NextVictim, AtOK, ListsOK
  <2>3. CASE WaitForExit(a)
    BY <1>s, <1>c, <2>1, <2>3 DEF WaitForExit, NextVictim, AtOK, ListsOK
  <2>4. CASE Kill(a)
    BY <1>s, <1>c, <2>1, <2>4 DEF Kill, AtOK
  <2>5. CASE Survives(a)
    BY <1>s, <1>c, <2>5 DEF Survives, AtOK
  <2> QED
    BY <1>s, <2>2, <2>3, <2>4, <2>5 DEF Stopping
<1>1. ASSUME NEW p \in Daemons, Daemon(p) PROVE Same(c)
  <2>1. CASE Serve(p)
    BY <2>1, <1>c, <1>d DEF Serve, AtOK, ListsOK, RestOK, Birth
  <2>2. CASE ReadRecord(p)
    BY <2>2, <1>c, <1>d DEF ReadRecord, AtOK, ListsOK, RestOK
  <2>3. CASE RefuseOrReplace(p)
    BY <2>3, <1>c, <1>d DEF RefuseOrReplace, AtOK, ListsOK, RestOK, StopAll
  <2>4. CASE ForgetReplaced(p)
    BY <2>4, <1>c, <1>d DEF ForgetReplaced, AtOK, ListsOK, RestOK
  <2>5. CASE AcquireLock(p)
    BY <2>5, <1>c, <1>d DEF AcquireLock, AtOK, ListsOK, RestOK
  <2>6. CASE StopHolder(p)
    BY <2>6, <1>c, <1>d DEF StopHolder, AtOK, ListsOK, RestOK, StopAll
  <2>7. CASE Open(p)
    BY <2>7, <1>c, <1>d DEF Open, AtOK, ListsOK, RestOK
  <2>8. CASE FailToStart(p)
    BY <2>8, <1>c, <1>d DEF FailToStart, AtOK, ListsOK, RestOK
  <2>9. CASE WriteRecord(p)
    BY <2>9, <1>c, <1>d DEF WriteRecord, AtOK, ListsOK, RestOK
  <2>10. CASE PrintHandshake(p)
    BY <2>10, <1>c, <1>d DEF PrintHandshake, AtOK, ListsOK, RestOK
  <2>11. CASE Shutdown(p)
    BY <2>11, <1>c, <1>d DEF Shutdown, AtOK, ListsOK, RestOK
  <2>12. CASE RemoveRecord(p)
    BY <2>12, <1>c, <1>d DEF RemoveRecord, AtOK, ListsOK, RestOK
  <2>13. CASE CloseEngine(p)
    BY <2>13, <1>c, <1>d DEF CloseEngine, AtOK, ListsOK, RestOK
  <2>14. CASE Exit(p)
    BY <2>14, <1>c, <1>d DEF Exit, AtOK, ListsOK, RestOK
  <2>15. CASE ReleaseLock(p)
    BY <2>15, <1>c, <1>d DEF ReleaseLock, AtOK, ListsOK, RestOK
  <2> QED
    BY <1>1, <1>c, <1>d, <1>s, <2>1, <2>2, <2>3, <2>4, <2>5, <2>6, <2>7, <2>8, <2>9,
       <2>10, <2>11, <2>12, <2>13, <2>14, <2>15
       DEF Daemon
<1>2. ASSUME NEW d \in Clients, d # c, Begin(d) \/ Command(d) PROVE Same(c)
  <2>d. d \in Actors /\ d \notin Daemons
    BY ApartAssumption DEF Actors
  <2>1. CASE Begin(d)
    BY <1>2, <2>1, <2>d, <1>c, <1>d DEF Begin, AtOK, ListsOK, RestOK
  <2>2. CASE ReadToStop(d)
    BY <1>2, <2>2, <2>d, <1>c, <1>d DEF ReadToStop, AtOK, ListsOK, RestOK
  <2>3. CASE ReadToReplace(d)
    BY <1>2, <2>3, <2>d, <1>c, <1>d DEF ReadToReplace, AtOK, ListsOK, RestOK, StopAll
  <2>4. CASE AskHolder(d)
    BY <1>2, <2>4, <2>d, <1>c, <1>d DEF AskHolder, AtOK, ListsOK, RestOK
  <2>5. CASE Forget(d)
    BY <1>2, <2>5, <2>d, <1>c, <1>d DEF Forget, AtOK, ListsOK, RestOK
  <2>6. CASE Find(d)
    BY <1>2, <2>6, <2>d, <1>c, <1>d DEF Find, AtOK, ListsOK, RestOK
  <2>7. CASE FindAlive(d)
    BY <1>2, <2>7, <2>d, <1>c, <1>d DEF FindAlive, AtOK, ListsOK, RestOK
  <2>8. CASE FindRunning(d)
    BY <1>2, <2>8, <2>d, <1>c, <1>d DEF FindRunning, AtOK, ListsOK, RestOK
  <2>9. CASE StopOrphan(d)
    BY <1>2, <2>9, <2>d, <1>c, <1>d DEF StopOrphan, AtOK, ListsOK, RestOK, StopAll
  <2>10. CASE StopHolderLeft(d)
    BY <1>2, <2>10, <2>d, <1>c, <1>d DEF StopHolderLeft, AtOK, ListsOK, RestOK, StopAll
  <2>11. CASE Spawn(d)
    BY <1>2, <2>11, <2>d, <1>c, <1>d DEF Spawn, AtOK, ListsOK, RestOK, Birth
  <2>12. CASE Handshake(d)
    BY <1>2, <2>12, <2>d, <1>c, <1>d DEF Handshake, AtOK, ListsOK, RestOK
  <2> QED
    BY <1>2, <1>c, <1>s, <2>d, <2>1, <2>2, <2>3, <2>4, <2>5, <2>6, <2>7, <2>8, <2>9,
       <2>10, <2>11, <2>12
       DEF Command
<1>3. CASE UNCHANGED vars
  BY <1>3 DEF vars
<1> QED
  BY <1>1, <1>2, <1>3 DEF Next

LEMMA HeadAndTail ==
  ASSUME NEW s \in Seq(Daemons), s # <<>>
  PROVE  {s[i] : i \in DOMAIN s} \subseteq {Tail(s)[i] : i \in DOMAIN Tail(s)} \cup {Head(s)}
<1>1. /\ Len(s) \in Nat /\ DOMAIN s = 1..Len(s) /\ Head(s) = s[1]
      /\ Tail(s) \in Seq(Daemons) /\ Len(Tail(s)) = Len(s) - 1
      /\ \A i \in 1..Len(Tail(s)) : Tail(s)[i] = s[i + 1]
  BY HeadTailProperties, LenProperties
<1>2. DOMAIN Tail(s) = 1..Len(Tail(s))
  BY <1>1, LenProperties
<1>3. ASSUME NEW i \in DOMAIN s, i # 1
      PROVE  i - 1 \in DOMAIN Tail(s) /\ Tail(s)[i - 1] = s[i]
  BY <1>1, <1>2, <1>3
<1> QED
  BY <1>1, <1>3

LEMMA ShortTail ==
  ASSUME NEW s \in Seq(Daemons), s # <<>>, ~(Len(s) > 1)
  PROVE  DOMAIN Tail(s) = {}
<1>1. Len(s) \in Nat /\ Tail(s) \in Seq(Daemons) /\ Len(Tail(s)) = Len(s) - 1
  BY HeadTailProperties, LenProperties
<1>2. DOMAIN Tail(s) = 1..Len(Tail(s))
  BY <1>1, LenProperties
<1> QED
  BY <1>1, <1>2

\* The owner a command found when it began does not come back.
LEMMA NoneReturns ==
  ASSUME ClaimInv, ClaimInv', Onwards, NEW c \in Clients, began'[c] = began[c], StopOK(c)
  PROVE  /\ began'[c] \cap owner' \subseteq began[c] \cap owner
         /\ \A q \in began'[c] \cap Daemons : at'[q] \in Holding \cup Past
<1>1. Past \cap Holding = {}
  BY DEF Past, Holding, Engaged, Starting
<1> QED
  BY <1>1 DEF ClaimInv, Onwards, StopOK

\* The inductive invariant.
IInv == AtOK /\ ListsOK /\ RestOK /\ ClaimInv /\ RecordInv /\ StopInv

LEMMA StopStep == IInv /\ [Next]_vars => StopInv'
<1> SUFFICES ASSUME IInv, [Next]_vars, NEW c \in Clients PROVE StopOK(c)'
  BY DEF StopInv
<1>1. AtOK /\ ListsOK /\ RestOK /\ ClaimInv /\ RecordInv /\ StopOK(c)
  BY DEF IInv, StopInv
<1>2. Onwards /\ ClaimInv'
  BY <1>1, DaemonsStep
<1>3. RestOK'
  BY <1>1, RestStep
<1>4. c \in Actors /\ c \notin Daemons
  BY ApartAssumption DEF Actors
<1>5. began[c] \subseteq Daemons /\ began'[c] \subseteq Daemons /\ mode[c] \in
        {"none", "serve", "serve --restart", "stop", "restart", "start"}
  BY <1>1, <1>3, <1>4 DEF RestOK
<1>6. began'[c] = began[c] =>
        /\ began'[c] \cap owner' \subseteq began[c] \cap owner
        /\ \A q \in began'[c] : at'[q] \in Holding \cup Past
  BY <1>1, <1>2, <1>5, NoneReturns
<1> USE DEF workspace, locals, Goto
<1>7. CASE Same(c)
  <2>1. seen[c] \in Daemons \cup {NoProc}
    BY <1>1, <1>4 DEF RestOK, Pids
  <2>2. Listed(c)' = Listed(c) /\ Stopper(c)' = Stopper(c)
    BY <1>7 DEF Same, Listed, Stopper
  <2>3. seen[c] \in Daemons => (at[seen[c]] # "unborn" => at'[seen[c]] # "unborn")
                               /\ (at[seen[c]] = "exited" => at'[seen[c]] = "exited")
    BY <1>2 DEF Onwards
  <2> QED
    BY <1>1, <1>6, <1>7, <2>1, <2>2, <2>3 DEF StopOK, Same, Live
<1>8. CASE Begin(c)
  <2>1. began'[c] \in {{}, owner} /\ at'[c] \in {"find", "read"} /\ UNCHANGED owner
        /\ mode'[c] \in {"stop", "restart", "start"}
        /\ (at'[c] = "find" => mode'[c] = "start")
    BY <1>1, <1>4, <1>8 DEF Begin, AtOK, RestOK
  <2>2. \A q \in owner' : at'[q] \in Holding
    BY <1>2 DEF ClaimInv
  <2> QED
    BY <2>1, <2>2 DEF StopOK, Stopper
<1>9. CASE ReadToStop(c)
  <2>1. /\ at'[c] = "holder" /\ seen'[c] = json /\ victims'[c] = Running(json)
        /\ mode'[c] = mode[c] /\ began'[c] = began[c] /\ at[c] = "read" /\ mode[c] # "start"
    BY <1>1, <1>4, <1>9 DEF ReadToStop, AtOK, ListsOK, RestOK
  <2>2. Stopper(c) /\ Stopper(c)'
    BY <1>1, <1>9, <2>1 DEF StopOK, Stopper
  <2>3. json # NoProc => at'[json] # "unborn" /\ (at'[json] # "exited" => json \in Listed(c)')
    <3>1. \A b \in Actors : b # c => at'[b] = at[b]
      BY <1>1, <1>9 DEF ReadToStop, AtOK
    <3>2. json # NoProc => json \in Daemons /\ at'[json] = at[json]
      BY <1>1, <1>4, <3>1 DEF RestOK, Pids, Actors
    <3>3. json # NoProc /\ Live(json) => Listed(c)' = {json}
      BY <2>1 DEF Running, Listed
    <3> QED
      BY <1>1, <3>2, <3>3 DEF RecordInv, Live
  <2> QED
    BY <1>6, <2>1, <2>2, <2>3 DEF StopOK, Live
<1>10. CASE AskHolder(c)
  <2>1. /\ at[c] = "holder" /\ mode'[c] = mode[c] /\ began'[c] = began[c] /\ owner' = owner
    BY <1>10 DEF AskHolder
  <2>2. Stopper(c) /\ Stopper(c)'
    BY <1>1, <2>1 DEF StopOK, Stopper
  <2>3. began[c] \cap owner \subseteq Listed(c)'
    <3>1. CASE owner \subseteq {seen[c]} /\ UNCHANGED victims
      <4>1. Listed(c)' = Listed(c)
        BY <3>1 DEF Listed
      <4>2. \A q \in owner : q = seen[c] /\ q # NoProc /\ Live(q)
        BY <1>1, <3>1, ProcsAssumption DEF ClaimInv, Holding, Engaged, Starting, Live
      <4> QED
        BY <1>1, <2>1, <2>2, <4>1, <4>2 DEF StopOK
    <3>2. ASSUME NEW q \in owner \ {seen[c]},
                 victims' = [victims EXCEPT ![c] = Append(victims[c], q)]
          PROVE  began[c] \cap owner \subseteq Listed(c)'
      <4>1. victims'[c] = Append(victims[c], q) /\ victims[c] \in Seq(Daemons) /\ q \in Daemons
        BY <1>1, <1>4, <3>2 DEF ListsOK, RestOK
      <4>2. q \in Listed(c)'
        <5>1. Len(victims'[c]) = Len(victims[c]) + 1 /\ Len(victims[c]) \in Nat
              /\ victims'[c][Len(victims[c]) + 1] = q /\ victims'[c] \in Seq(Daemons)
          BY <4>1, AppendProperties, LenProperties
        <5>2. Len(victims[c]) + 1 \in DOMAIN victims'[c]
          BY <5>1, LenProperties
        <5> QED
          BY <5>1, <5>2 DEF Listed
      <4> QED
        BY <1>1, <3>2, <4>2 DEF ClaimInv
    <3> QED
      BY <1>10, <3>1, <3>2 DEF AskHolder
  <2>4. CASE victims'[c] = <<>>
    <3>1. Listed(c)' = {}
      BY <2>4 DEF Listed
    <3>2. at'[c] \in {"spawn", "done", "forget"}
      BY <1>1, <1>4, <1>10, <2>4 DEF AskHolder, AfterStop, AtOK
    <3> QED
      BY <1>6, <2>1, <2>2, <2>3, <3>1, <3>2 DEF StopOK
  <2>5. CASE victims'[c] # <<>>
    <3>1. at'[c] = "term" /\ then'[c] = "forget"
      BY <1>1, <1>4, <1>10, <2>5 DEF AskHolder, AtOK, ListsOK
    <3> QED
      BY <1>6, <2>1, <2>2, <2>3, <3>1 DEF StopOK
  <2> QED
    BY <2>4, <2>5
<1>11. CASE NextVictim(c) /\ at[c] \in {"term", "wait"} /\ ~Live(Victim(c))
            /\ UNCHANGED <<owner, mode, began>>
  <2>1. victims[c] \in Seq(Daemons) /\ victims[c] # <<>> /\ Victim(c) \in Daemons
        /\ victims'[c] = Tail(victims[c])
    BY <1>1, <1>4, <1>11, VictimIsDaemon DEF ListsOK, NextVictim
  <2>2. Victim(c) \notin owner
    BY <1>1, <1>11 DEF ClaimInv, Holding, Engaged, Starting, Live
  <2>3. Listed(c) \subseteq Listed(c)' \cup {Victim(c)}
    BY <2>1, HeadAndTail DEF Listed, Victim
  <2>4. Stopper(c)' = Stopper(c)
    BY <1>11 DEF Stopper
  <2>5. Stopper(c) => then[c] = "forget" /\ began[c] \cap owner' \subseteq Listed(c)'
    BY <1>1, <1>11, <2>2, <2>3 DEF StopOK
  <2>6. CASE Len(victims[c]) > 1
    <3>1. at'[c] = "term" /\ then'[c] = then[c]
      BY <1>1, <1>4, <1>11, <2>6 DEF NextVictim, AtOK
    <3> QED
      BY <1>1, <1>6, <1>11, <2>4, <2>5, <3>1 DEF StopOK
  <2>7. CASE ~(Len(victims[c]) > 1)
    <3>1. at'[c] = then[c] /\ then[c] \in {"forget", "spawn", "holder left"}
      BY <1>1, <1>4, <1>11, <2>7 DEF NextVictim, AtOK, ListsOK, Onward
    <3>2. Listed(c)' = {}
      BY <2>1, <2>7, ShortTail DEF Listed
    <3> QED
      BY <1>1, <1>6, <1>11, <2>4, <2>5, <3>1, <3>2 DEF StopOK
  <2> QED
    BY <2>6, <2>7
<1>12. CASE Term(c)
  <2>1. Victim(c) \in Daemons /\ at[c] = "term"
    BY <1>1, <1>4, <1>12, VictimIsDaemon DEF Term
  <2>2. CASE NextVictim(c) /\ ~Live(Victim(c)) /\ UNCHANGED owner
    BY <1>11, <1>12, <2>1, <2>2 DEF Term
  <2>3. CASE ~(NextVictim(c) /\ ~Live(Victim(c)) /\ UNCHANGED owner)
    <3>1. at'[c] = "wait" /\ UNCHANGED <<victims, then, mode, began>>
      BY <1>1, <1>4, <1>12, <2>1, <2>3 DEF Term, AtOK, Actors
    <3>2. Stopper(c)' = Stopper(c) /\ Listed(c)' = Listed(c)
      BY <3>1 DEF Stopper, Listed
    <3> QED
      BY <1>1, <1>6, <2>1, <3>1, <3>2 DEF StopOK
  <2> QED
    BY <2>2, <2>3
<1>13. CASE WaitForExit(c)
  BY <1>11, <1>13 DEF WaitForExit
<1>14. CASE Kill(c)
  <2>1. Victim(c) \in Daemons /\ at[c] = "wait"
    BY <1>1, <1>4, <1>14, VictimIsDaemon DEF Kill
  <2>2. Same(c)
    BY <1>1, <1>4, <1>14, <2>1 DEF Kill, Same, AtOK, Actors
  <2> QED
    BY <1>7, <2>2
<1>15. CASE Survives(c)
  <2>1. at'[c] # "holder" /\ at'[c] # "idle" /\ at[c] # "idle" /\ mode'[c] = mode[c] /\ began'[c] = began[c]
    BY <1>1, <1>4, <1>15 DEF Survives, AtOK
  <2>2. at'[c] = "error"
    BY <1>1, <1>4, <1>15 DEF Survives, AtOK
  <2> QED
    BY <1>1, <1>6, <2>1, <2>2 DEF StopOK, Stopper
<1>16. CASE ReadToReplace(c)
  <2>1. at'[c] # "holder" /\ at'[c] # "idle" /\ at[c] # "idle" /\ mode'[c] = mode[c] /\ began'[c] = began[c]
    BY <1>1, <1>4, <1>16 DEF ReadToReplace, AtOK, StopAll
  <2>2. ~Stopper(c)
    BY <1>1, <1>16 DEF ReadToReplace, StopOK, Stopper
  <2> QED
    BY <1>1, <1>6, <2>1, <2>2 DEF StopOK, Stopper
<1>17. CASE Forget(c)
  <2>1. at'[c] # "holder" /\ at'[c] # "idle" /\ at[c] # "idle" /\ mode'[c] = mode[c] /\ began'[c] = began[c]
    BY <1>1, <1>4, <1>17 DEF Forget, AtOK
  <2>2. Stopper(c) => at[c] = "forget" /\ at'[c] \in {"done", "spawn"}
    BY <1>1, <1>4, <1>17 DEF Forget, AtOK, StopOK, Stopper
  <2> QED
    BY <1>1, <1>6, <2>1, <2>2 DEF StopOK, Stopper
<1>18. CASE Find(c)
  <2>1. at'[c] # "holder" /\ at'[c] # "idle" /\ at[c] # "idle" /\ mode'[c] = mode[c] /\ began'[c] = began[c]
    BY <1>1, <1>4, <1>18 DEF Find, AtOK
  <2>2. ~Stopper(c)
    BY <1>1, <1>18 DEF Find, StopOK, Stopper
  <2> QED
    BY <1>1, <1>6, <2>1, <2>2 DEF StopOK, Stopper
<1>19. CASE FindAlive(c)
  <2>1. at'[c] # "holder" /\ at'[c] # "idle" /\ at[c] # "idle" /\ mode'[c] = mode[c] /\ began'[c] = began[c]
    BY <1>1, <1>4, <1>19 DEF FindAlive, AtOK
  <2>2. ~Stopper(c)
    BY <1>1, <1>19 DEF FindAlive, StopOK, Stopper
  <2> QED
    BY <1>1, <1>6, <2>1, <2>2 DEF StopOK, Stopper
<1>20. CASE FindRunning(c)
  <2>1. at'[c] # "holder" /\ at'[c] # "idle" /\ at[c] # "idle" /\ mode'[c] = mode[c] /\ began'[c] = began[c]
    BY <1>1, <1>4, <1>20 DEF FindRunning, AtOK
  <2>2. ~Stopper(c)
    BY <1>1, <1>20 DEF FindRunning, StopOK, Stopper
  <2> QED
    BY <1>1, <1>6, <2>1, <2>2 DEF StopOK, Stopper
<1>21. CASE StopOrphan(c)
  <2>1. at'[c] # "holder" /\ at'[c] # "idle" /\ at[c] # "idle" /\ mode'[c] = mode[c] /\ began'[c] = began[c]
    BY <1>1, <1>4, <1>21 DEF StopOrphan, AtOK, StopAll
  <2>2. ~Stopper(c)
    BY <1>1, <1>21 DEF StopOrphan, StopOK, Stopper
  <2> QED
    BY <1>1, <1>6, <2>1, <2>2 DEF StopOK, Stopper
<1>22. CASE StopHolderLeft(c)
  <2>1. at'[c] # "holder" /\ at'[c] # "idle" /\ at[c] # "idle" /\ mode'[c] = mode[c] /\ began'[c] = began[c]
    BY <1>1, <1>4, <1>22 DEF StopHolderLeft, AtOK, StopAll
  <2>2. ~Stopper(c)
    BY <1>1, <1>22 DEF StopHolderLeft, StopOK, Stopper
  <2> QED
    BY <1>1, <1>6, <2>1, <2>2 DEF StopOK, Stopper
<1>23. CASE Handshake(c)
  <2>1. at'[c] # "holder" /\ at'[c] # "idle" /\ at[c] # "idle" /\ mode'[c] = mode[c] /\ began'[c] = began[c]
    BY <1>1, <1>4, <1>23 DEF Handshake, AtOK
  <2>2. Stopper(c) => at[c] = "handshake" /\ at'[c] \in {"done", "error"}
    BY <1>1, <1>4, <1>23 DEF Handshake, AtOK
  <2> QED
    BY <1>1, <1>6, <2>1, <2>2 DEF StopOK, Stopper
<1>24. CASE Spawn(c)
  <2>1. at[c] = "spawn" /\ at'[c] \in {"handshake", "error"} /\ began'[c] = began[c]
    BY <1>1, <1>4, <1>24 DEF Spawn, AtOK
  <2>2. mode'[c] = mode[c]
    BY <1>1, <1>4, <1>24 DEF Spawn, Birth, RestOK
  <2> QED
    BY <1>1, <1>6, <2>1, <2>2 DEF StopOK, Stopper
<1> QED
  BY <1>1, <1>7, <1>8, <1>9, <1>10, <1>12, <1>13, <1>14, <1>15, <1>16, <1>17, <1>18,
     <1>19, <1>20, <1>21, <1>22, <1>23, <1>24, OthersStep
     DEF Command, Stopping

(***************************************************************************)
(* The record                                                              *)
(***************************************************************************)
\* The record is of a daemon that wrote it and did not remove it: it has the
\* lock, or released it unheard, or is dead; and it is that of the daemon that
\* wrote it last.
Named == Recorded \cup {"release unheard", "released unheard", "exited"}
NamedInv ==
  /\ json # NoProc => at[json] \in Named
  /\ \A p \in Daemons : at[p] \in Recorded => json \in {p, NoProc}

\* A daemon comes to where it has a record by writing it, and goes on from there
\* with its record unless it removes it.
Follows(q) ==
  /\ at[q] \notin Recorded => at'[q] \notin Recorded \/ WriteRecord(q)
  /\ at[q] \in Named => at'[q] \in Named \/ json' = NoProc

LEMMA RecordFollows ==
  ASSUME AtOK, ListsOK, RestOK, [Next]_vars, NEW q \in Daemons
  PROVE  Follows(q)
<1> USE DEF workspace, locals, Goto, Recorded, Named, Follows
<1>a. \A p \in Daemons : p \in Actors
  BY DEF Actors
<1>c. \A c \in Clients : c \in Actors /\ c \notin Daemons
  BY ApartAssumption DEF Actors
<1>1. ASSUME NEW p \in Daemons, Serve(p) PROVE Follows(q)
  BY <1>1, <1>a DEF Serve, AtOK, Birth
<1>2. ASSUME NEW p \in Daemons, ReadRecord(p) PROVE Follows(q)
  BY <1>2, <1>a DEF ReadRecord, AtOK
<1>3. ASSUME NEW p \in Daemons, RefuseOrReplace(p) PROVE Follows(q)
  BY <1>3, <1>a DEF RefuseOrReplace, AtOK, StopAll
<1>4. ASSUME NEW p \in Daemons, ForgetReplaced(p) PROVE Follows(q)
  BY <1>4, <1>a DEF ForgetReplaced, AtOK
<1>5. ASSUME NEW p \in Daemons, AcquireLock(p) PROVE Follows(q)
  BY <1>5, <1>a DEF AcquireLock, AtOK
<1>6. ASSUME NEW p \in Daemons, StopHolder(p) PROVE Follows(q)
  BY <1>6, <1>a DEF StopHolder, AtOK, StopAll
<1>7. ASSUME NEW p \in Daemons, Open(p) PROVE Follows(q)
  BY <1>7, <1>a DEF Open, AtOK
<1>8. ASSUME NEW p \in Daemons, FailToStart(p) PROVE Follows(q)
  BY <1>8, <1>a DEF FailToStart, AtOK
<1>9. ASSUME NEW p \in Daemons, PrintHandshake(p) PROVE Follows(q)
  BY <1>9, <1>a DEF PrintHandshake, AtOK
<1>10. ASSUME NEW p \in Daemons, Shutdown(p) PROVE Follows(q)
  BY <1>10, <1>a DEF Shutdown, AtOK
<1>11. ASSUME NEW p \in Daemons, RemoveRecord(p) PROVE Follows(q)
  BY <1>11, <1>a DEF RemoveRecord, AtOK
<1>12. ASSUME NEW p \in Daemons, CloseEngine(p) PROVE Follows(q)
  BY <1>12, <1>a DEF CloseEngine, AtOK
<1>13. ASSUME NEW p \in Daemons, Exit(p) PROVE Follows(q)
  BY <1>13, <1>a DEF Exit, AtOK
<1>14. ASSUME NEW p \in Daemons, WriteRecord(p) PROVE Follows(q)
  BY <1>14, <1>a DEF WriteRecord, AtOK
<1>15. ASSUME NEW c \in Clients, Begin(c) PROVE Follows(q)
  BY <1>15, <1>a, <1>c DEF Begin, AtOK
<1>16. ASSUME NEW c \in Clients, ReadToStop(c) PROVE Follows(q)
  BY <1>16, <1>a, <1>c DEF ReadToStop, AtOK
<1>17. ASSUME NEW c \in Clients, ReadToReplace(c) PROVE Follows(q)
  BY <1>17, <1>a, <1>c DEF ReadToReplace, AtOK, StopAll
<1>18. ASSUME NEW c \in Clients, AskHolder(c) PROVE Follows(q)
  BY <1>18, <1>a, <1>c DEF AskHolder, AtOK
<1>19. ASSUME NEW c \in Clients, Forget(c) PROVE Follows(q)
  BY <1>19, <1>a, <1>c DEF Forget, AtOK
<1>20. ASSUME NEW c \in Clients, Find(c) PROVE Follows(q)
  BY <1>20, <1>a, <1>c DEF Find, AtOK
<1>21. ASSUME NEW c \in Clients, FindAlive(c) PROVE Follows(q)
  BY <1>21, <1>a, <1>c DEF FindAlive, AtOK
<1>22. ASSUME NEW c \in Clients, FindRunning(c) PROVE Follows(q)
  BY <1>22, <1>a, <1>c DEF FindRunning, AtOK
<1>23. ASSUME NEW c \in Clients, StopOrphan(c) PROVE Follows(q)
  BY <1>23, <1>a, <1>c DEF StopOrphan, AtOK, StopAll
<1>24. ASSUME NEW c \in Clients, StopHolderLeft(c) PROVE Follows(q)
  BY <1>24, <1>a, <1>c DEF StopHolderLeft, AtOK, StopAll
<1>25. ASSUME NEW c \in Clients, Spawn(c) PROVE Follows(q)
  BY <1>25, <1>a, <1>c DEF Spawn, AtOK, Birth
<1>26. ASSUME NEW c \in Clients, Handshake(c) PROVE Follows(q)
  BY <1>26, <1>a, <1>c DEF Handshake, AtOK
<1>27. ASSUME NEW a \in Actors, Stopping(a) PROVE Follows(q)
  <2>1. at[a] \in {"term", "wait"} /\ Victim(a) \in Daemons
    BY <1>27, VictimIsDaemon DEF Stopping, Term, WaitForExit, Kill, Survives
  <2>2. then[a] \in {"forget", "reacquire", "spawn", "holder left"}
    BY <2>1 DEF ListsOK, Onward
  <2> QED
    BY <1>27, <1>a, <2>1, <2>2
       DEF Stopping, Term, WaitForExit, Kill, Survives, NextVictim, AtOK
<1>29. ASSUME NEW p \in Daemons, ReleaseLock(p) PROVE Follows(q)
  BY <1>29, <1>a DEF ReleaseLock, AtOK
<1>28. CASE UNCHANGED vars
  BY <1>28 DEF vars
<1> QED
  BY <1>1, <1>2, <1>3, <1>4, <1>5, <1>6, <1>7, <1>8, <1>9, <1>10, <1>11, <1>12, <1>13, <1>14, <1>15, <1>16, <1>17, <1>18, <1>19, <1>20, <1>21, <1>22, <1>23, <1>24, <1>25, <1>26, <1>27, <1>28, <1>29
     DEF Next, Daemon, Command, Stopping, Actors

LEMMA NamedStep ==
  ASSUME IInv, NamedInv, [Next]_vars
  PROVE  NamedInv'
<1>1. AtOK /\ ListsOK /\ RestOK /\ Onwards /\ ClaimInv'
  BY DaemonsStep DEF IInv
<1>2. Recorded \subseteq Holding
  BY DEF Recorded, Holding, Engaged, Starting
<1>3. CASE json' \in {json, NoProc}
  <2>1. json' # NoProc => at'[json'] \in Named
    BY <1>1, <1>3, ProcsAssumption, RecordFollows DEF NamedInv, Follows, RestOK, Pids
  <2>2. ASSUME NEW q \in Daemons, at'[q] \in Recorded PROVE json' \in {q, NoProc}
    <3>1. CASE at[q] \in Recorded
      BY <1>3, <3>1 DEF NamedInv
    <3>2. CASE WriteRecord(q)
      BY <3>2 DEF WriteRecord
    <3> QED
      BY <1>1, <2>2, <3>1, <3>2, RecordFollows DEF Follows
  <2> QED
    BY <2>1, <2>2 DEF NamedInv
<1>4. ASSUME NEW p \in Daemons, WriteRecord(p) PROVE NamedInv'
  <2>1. json' = p /\ at'[p] = "written" /\ "written" \in Holding /\ "written" \in Named
    BY <1>1, <1>4 DEF WriteRecord, Goto, AtOK, Actors, Holding, Engaged, Starting, Named, Recorded
  <2>2. \A q \in Daemons : at'[q] \in Holding => q = p
    BY <1>1, <2>1 DEF ClaimInv
  <2> QED
    BY <1>2, <2>1, <2>2 DEF NamedInv
<1> QED
  BY <1>3, <1>4, RecordWrites

(***************************************************************************)
(* Theorems                                                                *)
(***************************************************************************)
LEMMA InvInit == Init => IInv
<1> SUFFICES ASSUME Init PROVE IInv
  OBVIOUS
<1>1. AtOK /\ ListsOK /\ RestOK
  BY TypeInit
<1>2. \A p \in Daemons : at[p] = "unborn"
  BY DEF Init, Actors
<1>3. ClaimInv
  BY <1>2 DEF Init, ClaimInv, Holding, Engaged, Starting
<1>4. RecordInv
  BY DEF Init, RecordInv
<1>5. StopInv
  BY ApartAssumption DEF Init, StopInv, StopOK, Stopper, Actors
<1> QED
  BY <1>1, <1>3, <1>4, <1>5 DEF IInv

LEMMA InvStep == IInv /\ [Next]_vars => IInv'
<1> SUFFICES ASSUME IInv, [Next]_vars PROVE IInv'
  OBVIOUS
<1>1. AtOK' /\ ListsOK' /\ RestOK'
  BY AtStep, RestStep DEF IInv
<1>2. Onwards /\ ClaimInv'
  BY DaemonsStep DEF IInv
<1>3. RecordInv'
  BY <1>2, RecordStep DEF IInv
<1>4. StopInv'
  BY StopStep
<1> QED
  BY <1>1, <1>2, <1>3, <1>4 DEF IInv

LEMMA Invariance == Spec => []IInv
BY InvInit, InvStep, PTL DEF Spec

\* The variables of the lifecycle keep their types, and who stops daemons has
\* one to stop (daemonctl.go:116-120, 135-142).
THEOREM TypeCorrect == Spec => []TypeOK
<1>1. IInv => TypeOK
  BY TypeParts DEF IInv
<1> QED
  BY <1>1, Invariance, PTL

\* Two daemons never have the engine of the workspace open at once, whatever
\* starts, stops and dies (serve.go:375-379).
THEOREM EngineIsExclusive == Spec => []OneEngine
<1>1. IInv => OneEngine
  BY DEF IInv, ClaimInv, OneEngine, Holding
<1> QED
  BY <1>1, Invariance, PTL

\* daemon.json leads to the daemon that owns the workspace or to a dead one, however
\* many daemons and commands write and remove it, and a daemon that shuts down
\* removes its own record (daemon.go:222-257, serve.go:248).
THEOREM RecordLeadsToOwner == Spec => []RecordNamesOwner
<1>1. Init => NamedInv
  BY DEF Init, NamedInv, Recorded, Actors
<1>2. IInv /\ NamedInv /\ [Next]_vars => NamedInv'
  BY NamedStep
<1>3. IInv /\ NamedInv => RecordNamesOwner
  <2>1. Named \subseteq Holding \cup {"released unheard", "exited"}
    BY DEF Named, Recorded, Holding, Engaged, Starting
  <2> QED
    BY <2>1 DEF IInv, RestOK, ClaimInv, NamedInv, RecordNamesOwner, Live, Pids
<1> QED
  BY <1>1, <1>2, <1>3, Invariance, PTL DEF Spec

\* A stop that reports success, and a restart that goes on to spawn, has rid
\* the workspace of the daemon that owned it (daemonctl.go:114-120, 225-233).
THEOREM OwnerIsStopped == Spec => []StopStops
<1>1. IInv => StopStops
  BY DEF IInv, StopInv, StopOK, StopStops, Stopper
<1> QED
  BY <1>1, Invariance, PTL

(***************************************************************************)
(* The lifecycle relies on the lock for no more than the abstract claim    *)
(***************************************************************************)
Promise == INSTANCE WorkspaceClaim
           WITH Procs <- Daemons, alive <- {p \in Daemons : at[p] # "exited"}

\* No daemon dies, and the claim stays where it is.
NobodyDies ==
  /\ owner' = owner
  /\ \A p \in Daemons : at'[p] = "exited" <=> at[p] = "exited"

\* One dies, with its claim if it had it.
OneDies(v) ==
  /\ at[v] # "exited" /\ at'[v] = "exited" /\ owner' = owner \ {v}
  /\ \A p \in Daemons \ {v} : at'[p] = "exited" <=> at[p] = "exited"

ClaimStep == [Promise!Next]_Promise!vars

LEMMA NobodyDiesClaims == NobodyDies => ClaimStep
BY DEF NobodyDies, ClaimStep, Promise!vars

LEMMA OneDiesClaims == ASSUME NEW v \in Daemons, OneDies(v) PROVE ClaimStep
BY DEF OneDies, ClaimStep, Promise!Next, Promise!Die

LEMMA StopsKeepAlive ==
  ASSUME AtOK, NEW a \in Actors, NEW pids, NEW place \in {"forget", "reacquire", "spawn", "holder left"},
         StopAll(a, pids, place), at[a] # "exited"
  PROVE  \A p \in Daemons : at'[p] = "exited" <=> at[p] = "exited"
BY DEF StopAll, Goto, AtOK, Actors

LEMMA StepsAreClaimSteps ==
  ASSUME AtOK, ListsOK, RestOK, ClaimInv, [Next]_vars PROVE ClaimStep
<1> USE DEF workspace, locals, Goto
<1>a. \A p \in Daemons : p \in Actors
  BY DEF Actors
<1>c. \A c \in Clients : c \in Actors /\ c \notin Daemons
  BY ApartAssumption DEF Actors
<1>h. \A p \in Daemons : at[p] \notin Holding => p \notin owner
  BY DEF ClaimInv
<1>n. {"check", "probe", "acquire", "reacquire", "term", "wait"} \cap Holding = {}
  BY DEF Holding, Engaged, Starting
<1>1. ASSUME NEW p \in Daemons, Serve(p) PROVE ClaimStep
  BY <1>1, <1>a, NobodyDiesClaims DEF Serve, AtOK, Birth, NobodyDies
<1>2. ASSUME NEW p \in Daemons, ReadRecord(p) PROVE ClaimStep
  BY <1>2, <1>a, NobodyDiesClaims DEF ReadRecord, AtOK, NobodyDies
<1>3. ASSUME NEW p \in Daemons, RefuseOrReplace(p) PROVE ClaimStep
  <2>1. CASE at' = [at EXCEPT ![p] = "exited"]
    BY <1>3, <2>1, <1>a, <1>h, <1>n, OneDiesClaims DEF RefuseOrReplace, AtOK, OneDies
  <2>2. CASE Goto(p, "acquire")
    BY <1>3, <2>2, <1>a, NobodyDiesClaims DEF RefuseOrReplace, AtOK, NobodyDies
  <2>3. CASE StopAll(p, <<seen[p]>>, "forget")
    BY <1>3, <2>3, <1>a, StopsKeepAlive, NobodyDiesClaims DEF RefuseOrReplace, NobodyDies
  <2> QED
    BY <1>3, <2>1, <2>2, <2>3 DEF RefuseOrReplace
<1>4. ASSUME NEW p \in Daemons, ForgetReplaced(p) PROVE ClaimStep
  BY <1>4, <1>a, NobodyDiesClaims DEF ForgetReplaced, AtOK, NobodyDies
<1>5. ASSUME NEW p \in Daemons, AcquireLock(p) PROVE ClaimStep
  <2>1. CASE owner = {} /\ owner' = {p} /\ Goto(p, "claimed")
    <3>1. Promise!Claim(p)
      BY <1>5, <2>1, <1>a DEF AcquireLock, AtOK, Promise!Claim
    <3> QED
      BY <3>1 DEF ClaimStep, Promise!Next
  <2>2. CASE owner' = owner /\ Goto(p, "holder")
    BY <1>5, <2>2, <1>a, NobodyDiesClaims DEF AcquireLock, AtOK, NobodyDies
  <2>3. CASE owner' = owner /\ Goto(p, "exited")
    <3>1. at[p] # "exited" /\ p \notin owner
      BY <1>5, <1>h, <1>n DEF AcquireLock
    <3> QED
      BY <2>3, <3>1, <1>a, OneDiesClaims DEF AtOK, OneDies
  <2> QED
    BY <1>5, <2>1, <2>2, <2>3 DEF AcquireLock
<1>6. ASSUME NEW p \in Daemons, StopHolder(p) PROVE ClaimStep
  <2>1. PICK pids : StopAll(p, pids, "reacquire")
    BY <1>6 DEF StopHolder
  <2> QED
    BY <1>6, <2>1, <1>a, StopsKeepAlive, NobodyDiesClaims DEF StopHolder, NobodyDies
<1>7. ASSUME NEW p \in Daemons, Open(p) PROVE ClaimStep
  BY <1>7, <1>a, NobodyDiesClaims DEF Open, AtOK, NobodyDies
<1>8. ASSUME NEW p \in Daemons, FailToStart(p) PROVE ClaimStep
  BY <1>8, <1>a, NobodyDiesClaims DEF FailToStart, AtOK, NobodyDies
<1>9. ASSUME NEW p \in Daemons, WriteRecord(p) PROVE ClaimStep
  BY <1>9, <1>a, NobodyDiesClaims DEF WriteRecord, AtOK, NobodyDies
<1>10. ASSUME NEW p \in Daemons, PrintHandshake(p) PROVE ClaimStep
  BY <1>10, <1>a, NobodyDiesClaims DEF PrintHandshake, AtOK, NobodyDies
<1>11. ASSUME NEW p \in Daemons, Shutdown(p) PROVE ClaimStep
  BY <1>11, <1>a, NobodyDiesClaims DEF Shutdown, AtOK, NobodyDies
<1>12. ASSUME NEW p \in Daemons, RemoveRecord(p) PROVE ClaimStep
  BY <1>12, <1>a, NobodyDiesClaims DEF RemoveRecord, AtOK, NobodyDies
<1>13. ASSUME NEW p \in Daemons, CloseEngine(p) PROVE ClaimStep
  BY <1>13, <1>a, NobodyDiesClaims DEF CloseEngine, AtOK, NobodyDies
<1>14. ASSUME NEW p \in Daemons, Exit(p) PROVE ClaimStep
  BY <1>14, <1>a, OneDiesClaims DEF Exit, Live, AtOK, OneDies
<1>18. ASSUME NEW p \in Daemons, ReleaseLock(p) PROVE ClaimStep
  <2>1. p \in owner
    BY <1>18 DEF ReleaseLock, ClaimInv, Holding
  <2>2. \A q \in Daemons : at'[q] = "exited" <=> at[q] = "exited"
    BY <1>18, <1>a DEF ReleaseLock, AtOK
  <2>3. Promise!GiveUp(p)
    BY <1>18, <2>1, <2>2 DEF ReleaseLock, Promise!GiveUp
  <2> QED
    BY <2>3 DEF ClaimStep, Promise!Next
<1>15. ASSUME NEW c \in Clients, Begin(c) \/ Command(c), ~Stopping(c) PROVE ClaimStep
  <2>1. owner' = owner
    BY <1>15 DEF Begin, Command, ReadToStop, ReadToReplace, AskHolder, Forget, Find,
       FindAlive, FindRunning, StopOrphan, StopHolderLeft, Spawn, Handshake
  <2>2. ASSUME NEW p \in Daemons PROVE at'[p] = at[p] \/ (at[p] = "unborn" /\ at'[p] = "check")
    BY <1>15, <1>a, <1>c
       DEF Begin, Command, ReadToStop, ReadToReplace, AskHolder, Forget, Find, AtOK,
           FindAlive, FindRunning, StopOrphan, StopHolderLeft, Spawn, Handshake, Birth, StopAll
  <2> QED
    BY <2>1, <2>2, NobodyDiesClaims DEF NobodyDies
<1>16. ASSUME NEW a \in Actors, Stopping(a) PROVE ClaimStep
  <2>1. /\ at[a] \in {"term", "wait"}
        /\ Victim(a) \in Daemons
        /\ then[a] \in {"forget", "reacquire", "spawn", "holder left"}
    BY <1>16, VictimIsDaemon DEF Stopping, Term, WaitForExit, Kill, Survives, ListsOK, Onward
  <2>2. CASE NextVictim(a) /\ UNCHANGED owner
    BY <2>1, <2>2, <1>a, NobodyDiesClaims DEF NextVictim, AtOK, NobodyDies
  <2>3. CASE Goto(a, "wait") /\ UNCHANGED owner
    BY <2>1, <2>3, <1>a, NobodyDiesClaims DEF AtOK, NobodyDies
  <2>4. CASE /\ Live(Victim(a)) /\ owner' = owner \ {Victim(a)}
             /\ \/ at' = [at EXCEPT ![a] = "wait", ![Victim(a)] = "exited"]
                \/ at' = [at EXCEPT ![Victim(a)] = "exited"]
    <3>1. /\ at'[Victim(a)] = "exited"
          /\ \A q \in Daemons \ {Victim(a)} :
               at'[q] = at[q] \/ (at[q] \in {"term", "wait"} /\ at'[q] = "wait")
      BY <2>4, <2>1, DeathAlone
    <3> QED
      BY <2>1, <2>4, <3>1, OneDiesClaims DEF Live, OneDies
  <2>5. CASE Survives(a)
    <3>1. CASE a \in Daemons
      BY <2>1, <2>5, <3>1, <1>a, <1>h, <1>n, OneDiesClaims DEF Survives, AtOK, OneDies
    <3>2. CASE a \notin Daemons
      BY <2>1, <2>5, <3>2, <1>a, NobodyDiesClaims DEF Survives, AtOK, NobodyDies
    <3> QED
      BY <3>1, <3>2
  <2> QED
    BY <1>16, <2>2, <2>3, <2>4, <2>5 DEF Stopping, Term, WaitForExit, Kill
<1>17. CASE UNCHANGED vars
  BY <1>17, NobodyDiesClaims DEF vars, NobodyDies
<1> QED
  BY <1>1, <1>2, <1>3, <1>4, <1>5, <1>6, <1>7, <1>8, <1>9, <1>10, <1>11, <1>12,
     <1>13, <1>14, <1>15, <1>16, <1>17, <1>18
     DEF Next, Daemon, Command, Actors

\* What the daemons do with the lock is what the lock promises them: the two
\* levels meet in WorkspaceClaim (serve.go:102, 375-379; lock.go:33-36, 67-68).
THEOREM LifecycleUsesClaim == Spec => Promise!Spec
<1>1. Init => Promise!Init
  BY DEF Init, Promise!Init, Actors
<1>2. IInv /\ [Next]_vars => [Promise!Next]_Promise!vars
  BY StepsAreClaimSteps DEF IInv, ClaimStep
<1> QED
  BY <1>1, <1>2, Invariance, PTL DEF Spec, Promise!Spec

(***************************************************************************)
(* The lock below, for every set of processes: while only one process at a *)
(* time is inside Acquire, the lock is exclusive, the file names its       *)
(* holder, a takeover needs no third attempt, and the protocol implements  *)
(* the abstract claim.  Crashes, failed writes and failed releases are     *)
(* allowed at every step.                                                  *)
(***************************************************************************)
(* The lock file's type is preserved by every step, overlapping or not.    *)
THEOREM LockTypeCorrect == LockSpec => []LockTypeOK
<1> USE NobodyAssumption DEF LockTypeOK, AcquireSteps, HoldSteps
<1>1. LockInit => LockTypeOK
  <2>1. LockInit => misjudged \in BOOLEAN
    BY Zenon DEF LockInit
  <2> QED
    BY <2>1 DEF LockInit
<1>2. LockTypeOK /\ [LockNext]_lockVars => LockTypeOK'
  <2> SUFFICES ASSUME LockTypeOK, [LockNext]_lockVars PROVE LockTypeOK'
    OBVIOUS
  <2>0. stubborn' = stubborn
    BY DEF LockNext, lockVars
  <2> USE <2>0 DEF MoveTo, FileGone, TryRemove
  <2>1. ASSUME NEW p \in Procs, Acquire(p), misjudged' = misjudged PROVE LockTypeOK'
    BY <2>1 DEF Acquire, BeginAcquire, CreateExclusive, CreateExists, CreateFails,
                WritePid, WriteFails, RemoveStale
  <2>2. ASSUME NEW p \in Procs, Release(p), misjudged' = misjudged PROVE LockTypeOK'
    BY <2>2 DEF Release, ReadOwn, Unlink, ReleaseFails
  <2>3. ASSUME NEW p \in Procs, Crash(p), misjudged' = misjudged PROVE LockTypeOK'
    BY <2>3 DEF Crash
  <2>4. CASE UNCHANGED lockVars
    BY <2>4 DEF lockVars
  <2>5. ASSUME NEW p \in Procs, Holder(p) PROVE LockTypeOK'
    BY <2>5 DEF Holder, ReadHolder, ProbeHolder, Held
  <2> QED
    BY <2>1, <2>2, <2>3, <2>4, <2>5 DEF LockNext
<1> QED
  BY <1>1, <1>2, PTL DEF LockSpec

-----------------------------------------------------------------------------
(* The strengthening that makes mutual exclusion inductive.  That a second *)
(* attempt is clear, and that one process at a time is inside Acquire, do  *)
(* not depend on what Holder answered.                                     *)

OneAcquirer ==
  \A p, q \in Procs : Acquiring(p) /\ Acquiring(q) => p = q

\* A process about to write still owns the file at the path.
WriterOwnsFile ==
  \A p \in Procs : pc[p] = "write" => inode = p

\* What was read before the probe still names the holder, if there is one.
ProbeSeesHolder ==
  \A p, q \in Procs : pc[p] = "probe" /\ Holds(q) => pidRead[p] = q

\* Nobody holds the lock that is about to be written or cleared.
NoHolderToEvict ==
  \A p, q \in Procs : pc[p] \in {"write", "remove"} => ~Holds(q)

\* The file at the path is the holder's, and names it.
HolderOwnsFile ==
  \A p \in Procs : Holds(p) => inode = p /\ content = p

\* The second attempt finds the path empty.
SecondAttemptIsClear ==
  \A p \in Procs :
    /\ ~stubborn /\ pc[p] = "create" /\ attempt[p] = 1 => inode = Nobody
    /\ ~stubborn /\ pc[p] \in {"read", "probe", "remove"} => attempt[p] = 0

Sound ==
  /\ Exclusive
  /\ HolderOwnsFile
  /\ WriterOwnsFile
  /\ ProbeSeesHolder
  /\ NoHolderToEvict

LockInv ==
  /\ OneAcquirer
  /\ SecondAttemptIsClear
  /\ misjudged \/ Sound

LEMMA LockInvInductive ==
  ASSUME ~Overlap, LockTypeOK, LockInv, [LockNext]_lockVars
  PROVE  LockInv'
<1> USE NobodyAssumption
    DEF LockInv, Sound, OneAcquirer, Exclusive, HolderOwnsFile,
        WriterOwnsFile, ProbeSeesHolder, NoHolderToEvict,
        SecondAttemptIsClear, LockTypeOK, Acquiring, Holds, Alive, MoveTo, FileGone, TryRemove,
        AcquireSteps, HoldSteps
<1>0. stubborn' = stubborn
  BY DEF LockNext, lockVars
<1> USE <1>0
<1>1. ASSUME NEW p \in Procs, BeginAcquire(p), misjudged' = misjudged PROVE LockInv'
  BY <1>1 DEF BeginAcquire
<1>2. ASSUME NEW p \in Procs, CreateExclusive(p), misjudged' = misjudged PROVE LockInv'
  BY <1>2 DEF CreateExclusive
<1>3. ASSUME NEW p \in Procs, CreateExists(p), misjudged' = misjudged PROVE LockInv'
  BY <1>3 DEF CreateExists
<1>4. ASSUME NEW p \in Procs, CreateFails(p), misjudged' = misjudged PROVE LockInv'
  BY <1>4 DEF CreateFails
<1>5. ASSUME NEW p \in Procs, WritePid(p), misjudged' = misjudged PROVE LockInv'
  BY <1>5 DEF WritePid
<1>6. ASSUME NEW p \in Procs, WriteFails(p), misjudged' = misjudged PROVE LockInv'
  BY <1>6 DEF WriteFails
<1>7. ASSUME NEW p \in Procs, RemoveStale(p), misjudged' = misjudged PROVE LockInv'
  BY <1>7 DEF RemoveStale
<1>8. ASSUME NEW p \in Procs, Release(p), misjudged' = misjudged PROVE LockInv'
  BY <1>8 DEF Release, ReadOwn, Unlink, ReleaseFails
<1>9. ASSUME NEW p \in Procs, Crash(p), misjudged' = misjudged PROVE LockInv'
  BY <1>9 DEF Crash
<1>10. ASSUME NEW p \in Procs, ReadHolder(p) PROVE LockInv'
  <2>1. PICK readable \in BOOLEAN :
          LET named == IF readable THEN content ELSE Nobody IN
            /\ pidRead' = [pidRead EXCEPT ![p] = named]
            /\ MoveTo(p, IF named = Nobody THEN "remove" ELSE "probe")
            /\ misjudged' = (misjudged \/ (~readable /\ Held))
    BY <1>10 DEF ReadHolder
  <2>2. CASE readable \/ ~Held
    BY <1>10, <2>1, <2>2 DEF ReadHolder, Held
  <2>3. CASE ~readable /\ Held
    <3>1. misjudged'
      BY <2>1, <2>3, Zenon
    <3>2. OneAcquirer' /\ SecondAttemptIsClear'
      BY <1>10, <2>1 DEF ReadHolder
    <3> QED
      BY <3>1, <3>2, Zenon DEF LockInv
  <2> QED
    BY <2>2, <2>3
<1>11. ASSUME NEW p \in Procs, ProbeHolder(p) PROVE LockInv'
  <2>1. PICK permitted \in BOOLEAN :
          /\ IF permitted /\ Alive(pidRead[p]) /\ pidRead[p] # p
               THEN MoveTo(p, "idle")
               ELSE MoveTo(p, "remove")
          /\ misjudged' = (misjudged \/ (~permitted /\ Held))
    BY <1>11 DEF ProbeHolder
  <2>2. CASE permitted \/ ~Held
    BY <1>11, <2>1, <2>2 DEF ProbeHolder, Held
  <2>3. CASE ~permitted /\ Held
    <3>1. misjudged'
      BY <2>1, <2>3, Zenon
    <3>2. OneAcquirer' /\ SecondAttemptIsClear'
      BY <1>11, <2>1 DEF ProbeHolder
    <3> QED
      BY <3>1, <3>2, Zenon DEF LockInv
  <2> QED
    BY <2>2, <2>3
<1>12. CASE UNCHANGED lockVars
  BY <1>12 DEF lockVars
<1> QED
  BY <1>1, <1>2, <1>3, <1>4, <1>5, <1>6, <1>7, <1>8, <1>9, <1>10, <1>11,
     <1>12
     DEF LockNext, Acquire, Holder

LEMMA LockInvHolds ==
  ASSUME ~Overlap
  PROVE  LockSpec => []LockInv
<1>1. LockInit => LockInv
  BY NobodyAssumption
     DEF LockInit, LockInv, Sound, OneAcquirer, Exclusive, HolderOwnsFile,
         WriterOwnsFile, ProbeSeesHolder, NoHolderToEvict,
         SecondAttemptIsClear, Acquiring, Holds, AcquireSteps, HoldSteps
<1>2. LockTypeOK /\ LockInv /\ [LockNext]_lockVars => LockInv'
  BY LockInvInductive
<1> QED
  BY <1>1, <1>2, LockTypeCorrect, PTL DEF LockSpec

(* While acquisitions do not overlap, at most one live process holds the   *)
(* workspace lock (Acquire and Release, lock.go:36-86), as long as Holder  *)
(* never took a live holder for none: it does when it cannot read the file *)
(* or probe the process (lock.go:92-101) ...                               *)
THEOREM LockIsExclusive ==
  ASSUME ~Overlap
  PROVE  LockSpec => []MutualExclusion
<1>1. LockInv => MutualExclusion
  BY DEF LockInv, Sound, MutualExclusion
<1> QED
  BY <1>1, LockInvHolds, PTL

(* ... so that where files can be read and processes probed the lock is    *)
(* exclusive outright (lock.go:13, 33-35) ...                              *)
THEOREM ReadableLockIsExclusive ==
  ASSUME ~Overlap
  PROVE  LockSpec /\ []~misjudged => []Exclusive
<1>1. MutualExclusion /\ ~misjudged => Exclusive
  BY DEF MutualExclusion
<1> QED
  BY <1>1, LockIsExclusive, PTL

(* ... the lock file names that process (lock.go:19), on the same          *)
(* condition ...                                                           *)
THEOREM FileNamesHolder ==
  ASSUME ~Overlap
  PROVE  LockSpec => []LockNamesHolder
<1>1. LockInv => LockNamesHolder
  BY DEF LockInv, Sound, HolderOwnsFile, LockNamesHolder
<1> QED
  BY <1>1, LockInvHolds, PTL

(* ... and a takeover of a dead process's lock succeeds within the loop's  *)
(* two attempts whatever Holder answered (lock.go:41-64).                  *)
THEOREM TwoAttemptsAreEnough ==
  ASSUME ~Overlap
  PROVE  LockSpec => []TakeoverNeverGivesUp
<1>1. LockInv => TakeoverNeverGivesUp
  BY DEF LockInv, SecondAttemptIsClear, TakeoverNeverGivesUp
<1> QED
  BY <1>1, LockInvHolds, PTL

-----------------------------------------------------------------------------
(* Every step of the protocol is a step of the abstract claim or none,     *)
(* until Holder took a live holder for none.                               *)
LEMMA LockStepsAreClaimSteps ==
  ASSUME ~Overlap, LockTypeOK, LockInv, [LockNext]_lockVars
  PROVE  [Claim!Next \/ misjudged']_Claim!vars
<1> USE NobodyAssumption DEF LockTypeOK, Holds, Alive, MoveTo, FileGone, TryRemove,
        AcquireSteps, HoldSteps, Claim!vars
<1>1. ASSUME NEW p \in Procs, WritePid(p), misjudged' = misjudged
      PROVE misjudged' \/ Claim!Claim(p)
  BY <1>1 DEF WritePid, Claim!Claim, LockInv, Sound, NoHolderToEvict
<1>2. ASSUME NEW p \in Procs, Acquire(p), ~WritePid(p)
      PROVE UNCHANGED Claim!vars
  BY <1>2 DEF Acquire, BeginAcquire, CreateExclusive, CreateExists, CreateFails,
              WriteFails, RemoveStale
<1>3. ASSUME NEW p \in Procs, Release(p)
      PROVE Claim!GiveUp(p) \/ UNCHANGED Claim!vars
  BY <1>3 DEF Release, ReadOwn, Unlink, ReleaseFails, Claim!GiveUp
<1>4. ASSUME NEW p \in Procs, Crash(p) PROVE Claim!Die(p)
  BY <1>4 DEF Crash, Claim!Die
<1>5. CASE UNCHANGED lockVars
  BY <1>5 DEF lockVars
<1>6. ASSUME NEW p \in Procs, Holder(p) PROVE UNCHANGED Claim!vars
  BY <1>6 DEF Holder, ReadHolder, ProbeHolder
<1> QED
  BY <1>1, <1>2, <1>3, <1>4, <1>5, <1>6 DEF LockNext, Claim!Next

(* The lock file implements the exclusive claim of WorkspaceClaim until    *)
(* Holder takes a live holder for none (lock.go:13-20, 92-101) ...         *)
THEOREM LockImplementsClaim ==
  ASSUME ~Overlap
  PROVE  LockSpec => ClaimUntilMisjudged
<1>1. LockInit => Claim!Init
  BY DEF LockInit, Claim!Init, Holds, Alive, HoldSteps
<1>2. LockTypeOK /\ LockInv /\ [LockNext]_lockVars
        => [Claim!Next \/ misjudged']_Claim!vars
  BY LockStepsAreClaimSteps
<1> QED
  BY <1>1, <1>2, LockTypeCorrect, LockInvHolds, PTL
     DEF LockSpec, ClaimUntilMisjudged

(* ... and all of it in the runs in which it never does.                   *)
THEOREM ReadableLockImplementsClaim ==
  ASSUME ~Overlap
  PROVE  LockSpec /\ []~misjudged => Claim!Spec
<1>1. ~misjudged' /\ [Claim!Next \/ misjudged']_Claim!vars => [Claim!Next]_Claim!vars
  OBVIOUS
<1> QED
  BY <1>1, LockImplementsClaim, PTL DEF ClaimUntilMisjudged, Claim!Spec
=============================================================================
