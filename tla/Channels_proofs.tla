-------------------------- MODULE Channels_proofs --------------------------
(***************************************************************************)
(* For every number of managers, handlers, requests and faults: the types, *)
(* and that a manager can be stopped.                                      *)
(*                                                                         *)
(* RunningIsMapped alone is not inductive.  A manager enters the map when  *)
(* the map is empty, so the argument also needs that only managers that    *)
(* have entered it are ever cancelled, that the one in the map is neither  *)
(* cancelled nor waiting to be started again, and that a manager never     *)
(* goes back from a mark to where it was before it entered.                *)
(***************************************************************************)
EXTENDS Channels, TLAPS

Resting == {"free", "spawned"}
Mapped ==
    map # NoManager => /\ manager[map].at \notin Resting
                       /\ map \notin cancelled
RestingOK == \A m \in Managers : manager[m].at \in Resting => m \notin cancelled
\* Where a mark may lead.
Marking == {"mark", "write"}
Onward == Place \ (Resting \cup Marking \cup {"panicked"})
MarkOK == \A m \in Managers : manager[m].at \in Marking => manager[m].next \in Onward

Core == RunningIsMapped /\ Mapped /\ RestingOK /\ MarkOK
Inv == TypeOK /\ Core

LEMMA RowTyped == NewRow \in Row /\ FirstConfig \in Configs
<1>1. FirstConfig \in Configs
  BY ChannelAssumption DEF FirstConfig
<1>. QED  BY <1>1 DEF NewRow, Row, Status
LEMMA FreeTyped == FreeManager \in Manager
  BY RowTyped DEF FreeManager, Manager, Place, Status

LEMMA InitInv == Init => Inv
<1>. SUFFICES ASSUME Init PROVE Inv
  OBVIOUS
<1>1. NoRequest \in Request /\ Idle \in [busy : BOOLEAN, seen : Row]
  BY RowTyped DEF NoRequest, Idle, Request, Ops
<1>2. TypeOK
  <2>1. left \in [Bounds -> Nat] /\ news \in 0 .. MaxNews
    BY ChannelAssumption DEF Init, Bounds, Limit
  <2>2. row \in Row /\ manager \in [Managers -> Manager]
        /\ handler \in [Handlers -> [busy : BOOLEAN, seen : Row]] /\ request \in Request
    BY <1>1, RowTyped, FreeTyped DEF Init
  <2>. QED  BY <2>1, <2>2 DEF Init, TypeOK
<1>3. Core
  BY DEF Init, Core, RunningIsMapped, Running, Mapped, RestingOK, MarkOK, FreeManager, Marking
<1>. QED  BY <1>2, <1>3 DEF Inv

-----------------------------------------------------------------------------
(* What is left to show of a step of a manager.                            *)
LEMMA ManagerMoves ==
    ASSUME Inv, NEW m \in Managers, NEW rec \in Manager, Running(m),
           rec.at \notin Resting, rec.at \in Marking => rec.next \in Onward,
           manager' = [manager EXCEPT ![m] = rec],
           UNCHANGED <<map, cancelled>>
    PROVE  manager' \in [Managers -> Manager] /\ Core'
<1>1. manager' \in [Managers -> Manager]
  BY DEF Inv, TypeOK
<1>2. manager'[m] = rec /\ \A n \in Managers \ {m} : manager'[n] = manager[n]
  BY DEF Inv, TypeOK
<1>3. RunningIsMapped'
  BY <1>2 DEF Inv, Core, RunningIsMapped, Running
<1>4. Mapped'
  BY <1>2 DEF Inv, Core, Mapped, TypeOK
<1>5. RestingOK' /\ MarkOK'
  BY <1>2 DEF Inv, Core, RestingOK, MarkOK
<1>. QED  BY <1>1, <1>3, <1>4, <1>5 DEF Core

LEMMA ManagerSteps ==
    ASSUME Inv, NEW m \in Managers, NEW p \in Place \ Resting, Running(m),
           manager[m].at \in Marking \/ p \notin Marking,
           Move(m, p), UNCHANGED <<map, cancelled>>
    PROVE  manager' \in [Managers -> Manager] /\ Core'
<1>. DEFINE rec == [manager[m] EXCEPT !.at = p]
<1>1. rec \in Manager /\ rec.at = p /\ rec.next = manager[m].next
  BY DEF Inv, TypeOK, Manager
<1>2. manager' = [manager EXCEPT ![m] = rec]
  BY DEF Move
<1>3. p \in Marking => rec.next \in Onward
  BY <1>1 DEF Inv, Core, MarkOK
<1>. HIDE DEF rec
<1>. QED  BY <1>1, <1>2, <1>3, ManagerMoves

LEMMA ManagerMarks ==
    ASSUME Inv, NEW m \in Managers, NEW s \in Status,
           NEW p \in Onward, Running(m),
           MarkThen(m, s, p), UNCHANGED <<map, cancelled>>
    PROVE  manager' \in [Managers -> Manager] /\ Core'
<1>. DEFINE rec == [manager[m] EXCEPT !.at = "mark", !.status = s, !.next = p]
<1>1. manager[m] \in Manager /\ "mark" \in Place /\ p \in Place
  BY DEF Inv, TypeOK, Place, Onward
<1>2. rec \in Manager /\ rec.at = "mark" /\ rec.next = p
  BY <1>1 DEF Manager
<1>3. manager' = [manager EXCEPT ![m] = rec]
  BY DEF MarkThen, Inv, TypeOK
<1>. HIDE DEF rec
<1>4. rec.at \notin Resting
  BY <1>2 DEF Resting
<1>. QED  BY <1>2, <1>3, <1>4, ManagerMoves

\* A manager whose mark is over.
LEMMA ManagerMarked ==
    ASSUME Inv, NEW m \in Managers, manager[m].at \in Marking,
           manager' = [manager EXCEPT ![m] = [FreeManager EXCEPT !.at = manager[m].next,
                                                                 !.config = manager[m].config]],
           UNCHANGED <<map, cancelled>>
    PROVE  manager' \in [Managers -> Manager] /\ Core'
<1>. DEFINE rec == [FreeManager EXCEPT !.at = manager[m].next, !.config = manager[m].config]
<1>1. manager[m] \in Manager /\ manager[m].next \in Onward
  BY DEF Inv, TypeOK, Core, MarkOK
<1>2. rec \in Manager /\ rec.at = manager[m].next
  BY <1>1, FreeTyped DEF Manager
<1>3. rec.at \notin Resting /\ rec.at \notin Marking /\ Running(m)
  BY <1>1, <1>2 DEF Onward, Running, Marking
<1>4. manager' = [manager EXCEPT ![m] = rec]
  OBVIOUS
<1>. HIDE DEF rec
<1>. QED  BY <1>2, <1>3, <1>4, ManagerMoves

\* A manager that is started, when the map and the cancelled ones are as they
\* were or everything in the map was stopped just before.
LEMMA Spawned ==
    ASSUME Inv, NEW m \in Managers, Spawn(m),
           Stop \/ UNCHANGED <<map, cancelled>>
    PROVE  manager' \in [Managers -> Manager] /\ map' \in Managers \cup {NoManager}
           /\ cancelled' \subseteq Managers /\ Core'
<1>. DEFINE rec == [manager[m] EXCEPT !.at = "spawned"]
<1>1. rec \in Manager /\ rec.at = "spawned" /\ rec.at \notin Marking
  BY DEF Inv, TypeOK, Manager, Place, Marking
<1>2. manager' = [manager EXCEPT ![m] = rec] /\ manager[m].at = "free"
  BY DEF Spawn
<1>. HIDE DEF rec
<1>3. manager' \in [Managers -> Manager]
  BY <1>1, <1>2 DEF Inv, TypeOK
<1>4. manager'[m] = rec /\ \A n \in Managers \ {m} : manager'[n] = manager[n]
  BY <1>2 DEF Inv, TypeOK
<1>5. m # map /\ m \notin cancelled
  <2>1. m \notin cancelled
    BY <1>2 DEF Inv, Core, RestingOK, Resting
  <2>2. m # map
    BY <1>2, ChannelAssumption DEF Inv, Core, Mapped, Resting
  <2>. QED  BY <2>1, <2>2
<1>6. \/ map' = map /\ cancelled' = cancelled
      \/ map' = NoManager /\ cancelled' = cancelled \cup ({map} \ {NoManager})
  BY DEF Stop
<1>7. map' \in Managers \cup {NoManager} /\ cancelled' \subseteq Managers
  BY <1>6 DEF Inv, TypeOK
<1>8. RunningIsMapped'
  <2>. SUFFICES ASSUME NEW n \in Managers, Running(n)', n \notin cancelled'  PROVE map' = n
    BY DEF RunningIsMapped
  <2>1. n # m /\ Running(n) /\ n \notin cancelled
    BY <1>1, <1>4, <1>6 DEF Running
  <2>2. map = n
    BY <2>1 DEF Inv, Core, RunningIsMapped
  <2>. QED  BY <2>2, <1>6, ChannelAssumption
<1>9. Mapped'
  BY <1>4, <1>5, <1>6 DEF Inv, Core, Mapped, TypeOK
<1>10. RestingOK' /\ MarkOK'
  <2>1. RestingOK'
    BY <1>4, <1>5, <1>6 DEF Inv, Core, RestingOK, Mapped
  <2>2. MarkOK'
    BY <1>1, <1>4 DEF Inv, Core, MarkOK
  <2>. QED  BY <2>1, <2>2
<1>. QED  BY <1>3, <1>7, <1>8, <1>9, <1>10 DEF Core

\* A manager ends, and takes itself out of the map and of the cancelled ones.
LEMMA GoneMoves ==
    ASSUME Inv, NEW m \in Managers,
           map' = (IF map = m THEN NoManager ELSE map), cancelled' = cancelled \ {m},
           manager' = [manager EXCEPT ![m] = FreeManager]
    PROVE  manager' \in [Managers -> Manager] /\ Core'
<1>1. manager' \in [Managers -> Manager]
  BY FreeTyped DEF Inv, TypeOK
<1>2. manager'[m].at = "free" /\ \A n \in Managers \ {m} : manager'[n] = manager[n]
  BY DEF Inv, TypeOK, FreeManager
<1>3. RunningIsMapped'
  BY <1>2 DEF Inv, Core, RunningIsMapped, Running
<1>4. Mapped'
  BY <1>2 DEF Inv, Core, Mapped, TypeOK
<1>5. RestingOK' /\ MarkOK'
  BY <1>2 DEF Inv, Core, RestingOK, MarkOK, Marking
<1>. QED  BY <1>1, <1>3, <1>4, <1>5 DEF Core

\* A stop, when nothing is started after it.
LEMMA Stopped ==
    ASSUME Inv, Stop, UNCHANGED manager
    PROVE  map' \in Managers \cup {NoManager} /\ cancelled' \subseteq Managers /\ Core'
<1>1. map' = NoManager /\ cancelled' = cancelled \cup ({map} \ {NoManager})
  BY DEF Stop
<1>2. map' \in Managers \cup {NoManager} /\ cancelled' \subseteq Managers
  BY <1>1 DEF Inv, TypeOK
<1>3. RunningIsMapped'
  BY <1>1, ChannelAssumption DEF Inv, Core, RunningIsMapped, Running
<1>4. Mapped' /\ RestingOK' /\ MarkOK'
  BY <1>1 DEF Inv, Core, Mapped, RestingOK, MarkOK
<1>. QED  BY <1>2, <1>3, <1>4 DEF Core

\* Nothing is started or stopped.
LEMMA Kept ==
    ASSUME Inv, UNCHANGED <<map, manager, cancelled>>
    PROVE  map' \in Managers \cup {NoManager} /\ manager' \in [Managers -> Manager]
           /\ cancelled' \subseteq Managers /\ Core'
BY DEF Inv, TypeOK, Core, RunningIsMapped, Running, Mapped, RestingOK, MarkOK

LEMMA Heard == ASSUME Inv, Broadcast PROVE news' \in 0 .. MaxNews
BY ChannelAssumption DEF Inv, TypeOK, Broadcast
LEMMA NoRequestTyped == NoRequest \in Request
BY RowTyped DEF NoRequest, Request, Ops
LEMMA WantedTyped ==
    ASSUME NEW op \in {"start", "stop", "refuse", "update"}, NEW seen \in Row, NEW c \in Configs,
           NEW missing \in BOOLEAN
    PROVE  Wanted(op, seen, c, missing) \in Row
<1>1. \A e \in BOOLEAN : [seen EXCEPT !.enabled = e] \in Row
  BY DEF Row
<1>2. \A s \in Status : [seen EXCEPT !.config = c, !.status = s] \in Row
  BY DEF Row
<1>3. seen.status \in Status /\ "Disconnected" \in Status
  BY DEF Row, Status
<1>. QED  BY <1>1, <1>2, <1>3 DEF Wanted
LEMMA Used == ASSUME Inv, NEW b \in Bounds, Use(b) PROVE left' \in [Bounds -> Nat]
<1>1. left[b] - 1 \in Nat
  BY DEF Inv, TypeOK, Use
<1>. QED  BY <1>1 DEF Inv, TypeOK, Use

\* The row after a write, and the broadcasts.
LEMMA Written ==
    ASSUME Inv, NEW seen \in Row, NEW new \in Row, WriteRow(seen, new)
    PROVE  row' \in Row /\ news' \in 0 .. MaxNews /\ mishap' \in BOOLEAN
<1>1. row' \in Row
  BY DEF WriteRow, Inv, TypeOK
<1>2. news' \in 0 .. MaxNews
  BY Heard DEF WriteRow
<1>3. mishap' \in BOOLEAN
  BY DEF WriteRow, Inv, TypeOK
<1>. QED  BY <1>1, <1>2, <1>3

-----------------------------------------------------------------------------
(* What the managers do.                                                   *)
LEMMA InsertStep == ASSUME Inv, NEW m \in Managers, Insert(m) PROVE Inv'
<1>1. manager[m].at = "spawned" /\ m \notin cancelled /\ manager[m] \in Manager
  BY DEF Insert, Inv, TypeOK, Core, RestingOK, Resting
<1>2. CASE map = NoManager
  <2>. DEFINE rec == [manager[m] EXCEPT !.at = "load"]
  <2>1. rec \in Manager /\ rec.at = "load" /\ rec.at \notin Marking /\ rec.at \notin Resting
    BY <1>1 DEF Manager, Place, Marking, Resting
  <2>2. manager' = [manager EXCEPT ![m] = rec] /\ map' = m
    BY <1>2 DEF Insert
  <2>. HIDE DEF rec
  <2>3. manager'[m] = rec /\ \A n \in Managers \ {m} : manager'[n] = manager[n]
    BY <2>2 DEF Inv, TypeOK
  <2>4. manager' \in [Managers -> Manager]
    BY <2>1, <2>2 DEF Inv, TypeOK
  <2>5. UNCHANGED <<row, cancelled, news, handler, request, tick, mishap, stray, left>>
    BY DEF Insert
  <2>6. RunningIsMapped'
    <3>. SUFFICES ASSUME NEW n \in Managers, n # m, Running(n)', n \notin cancelled'  PROVE FALSE
      BY <2>2 DEF RunningIsMapped
    <3>. QED  BY <1>2, <2>3, <2>5, ChannelAssumption DEF Inv, Core, RunningIsMapped, Running
  <2>7. Mapped' /\ RestingOK' /\ MarkOK'
    BY <1>1, <2>1, <2>2, <2>3, <2>5 DEF Inv, Core, Mapped, RestingOK, MarkOK
  <2>. QED  BY <2>2, <2>4, <2>5, <2>6, <2>7 DEF Inv, TypeOK, Core
<1>3. CASE map # NoManager
  <2>1. UNCHANGED <<row, map, cancelled, news, handler, request, tick, mishap, stray, left>>
        /\ manager' = [manager EXCEPT ![m] = FreeManager]
    BY <1>3 DEF Insert
  <2>2. map # m
    BY <1>1, <1>3 DEF Inv, Core, Mapped, Resting
  <2>4. cancelled \ {m} = cancelled
    BY <1>1
  <2>3. manager' \in [Managers -> Manager] /\ Core'
    BY <2>1, <2>2, <2>4, GoneMoves
  <2>. QED  BY <2>1, <2>3 DEF Inv, TypeOK
<1>. QED  BY <1>2, <1>3

LEMMA LoadStep == ASSUME Inv, NEW m \in Managers, Load(m) PROVE Inv'
<1>. DEFINE marked == [manager[m] EXCEPT !.at = "mark", !.status = "Connecting",
                                         !.next = "build", !.config = row.config]
            leaving == [manager[m] EXCEPT !.at = "leave"]
            rec == IF row.exists THEN marked ELSE leaving
<1>1. manager[m] \in Manager /\ row.config \in Configs
  BY DEF Inv, TypeOK, Row
<1>2. marked \in Manager /\ marked.at = "mark" /\ marked.next = "build"
  BY <1>1 DEF Manager, Place, Status
<1>3. leaving \in Manager /\ leaving.at = "leave"
  BY <1>1 DEF Manager, Place
<1>4. manager' = [manager EXCEPT ![m] = rec] /\ Running(m)
  BY DEF Load, Running
<1>. HIDE DEF marked, leaving
<1>5. rec \in Manager /\ rec.at \notin Resting /\ (rec.at \in Marking => rec.next \in Onward)
  BY <1>2, <1>3 DEF Resting, Marking, Onward, Place
<1>. HIDE DEF rec
<1>6. manager' \in [Managers -> Manager] /\ Core'
  BY <1>4, <1>5, ManagerMoves DEF Load, UnchangedByRun
<1>. QED  BY <1>6 DEF Load, UnchangedByRun, Inv, TypeOK

LEMMA MarkReadStep == ASSUME Inv, NEW m \in Managers, MarkRead(m) PROVE Inv'
<1>1. manager[m] \in Manager /\ row \in Row /\ manager[m].at \in Marking /\ Running(m)
      /\ manager[m].next \in Onward
  BY DEF MarkRead, Inv, TypeOK, Core, MarkOK, Marking, Running
<1>2. manager' \in [Managers -> Manager] /\ Core'
  <2>1. CASE row.exists
    <3>. DEFINE rec == [manager[m] EXCEPT !.at = "write", !.seen = row]
    <3>1. rec \in Manager /\ rec.at = "write" /\ rec.next = manager[m].next
      BY <1>1 DEF Manager, Place
    <3>2. manager' = [manager EXCEPT ![m] = rec]
      BY <2>1 DEF MarkRead
    <3>. HIDE DEF rec
    <3>3. rec.at \notin Resting
      BY <3>1 DEF Resting
    <3>. QED  BY <1>1, <3>1, <3>2, <3>3, ManagerMoves DEF MarkRead, UnchangedByRun
  <2>2. CASE ~row.exists
    BY <1>1, <2>2, ManagerMarked DEF MarkRead, UnchangedByRun
  <2>. QED  BY <2>1, <2>2
<1>. QED  BY <1>2 DEF MarkRead, UnchangedByRun, Inv, TypeOK

LEMMA MarkWriteStep == ASSUME Inv, NEW m \in Managers, MarkWrite(m) PROVE Inv'
<1>1. manager' \in [Managers -> Manager] /\ Core'
  <2>1. manager[m].at \in Marking
    BY DEF MarkWrite, Marking
  <2>. QED  BY <2>1, ManagerMarked DEF MarkWrite
<1>2. row' \in Row /\ news' \in 0 .. MaxNews /\ mishap' \in BOOLEAN
  <2>. DEFINE seen == manager[m].seen
              new == [seen EXCEPT !.status = manager[m].status]
  <2>1. seen \in Row /\ manager[m].status \in Status
    BY DEF Inv, TypeOK, Manager
  <2>2. new \in Row
    BY <2>1 DEF Row
  <2>3. WriteRow(seen, new)
    BY DEF MarkWrite
  <2>. HIDE DEF seen, new
  <2>. QED  BY <2>1, <2>2, <2>3, Written
<1>. QED  BY <1>1, <1>2 DEF MarkWrite, Inv, TypeOK

LEMMA BuildStep == ASSUME Inv, NEW m \in Managers, BuildAttempt(m) PROVE Inv'
<1>1. Running(m) /\ manager[m].at \notin Marking
  BY DEF BuildAttempt, Running, Marking
<1>2. manager' \in [Managers -> Manager] /\ Core'
  <2>1. "handshake" \in Place \ Resting /\ "handshake" \notin Marking
        /\ "leave" \in Onward /\ "Failed" \in Status
    BY DEF Place, Resting, Marking, Onward, Status
  <2>2. CASE Move(m, "handshake")
    BY <1>1, <2>1, <2>2, ManagerSteps DEF BuildAttempt, UnchangedByRun
  <2>3. CASE MarkThen(m, "Failed", "leave")
    BY <1>1, <2>1, <2>3, ManagerMarks DEF BuildAttempt, UnchangedByRun
  <2>. QED  BY <2>2, <2>3 DEF BuildAttempt
<1>3. left' \in [Bounds -> Nat]
  BY Used DEF BuildAttempt, Bounds, Inv, TypeOK
<1>. QED  BY <1>2, <1>3 DEF BuildAttempt, UnchangedByRun, Inv, TypeOK

LEMMA ConnectedStep == ASSUME Inv, NEW m \in Managers, Connected(m) PROVE Inv'
<1>1. Running(m) /\ "up" \in Onward /\ "Connected" \in Status
  BY DEF Connected, Running, Place, Resting, Marking, Onward, Status
<1>2. manager' \in [Managers -> Manager] /\ Core'
  BY <1>1, ManagerMarks DEF Connected, UnchangedByRun
<1>. QED  BY <1>2 DEF Connected, UnchangedByRun, Inv, TypeOK

LEMMA DisconnectedStep == ASSUME Inv, NEW m \in Managers, Disconnected(m) PROVE Inv'
<1>1. Running(m) /\ {"backoff", "leave"} \subseteq Onward /\ {"Reconnecting", "Failed"} \subseteq Status
  BY DEF Disconnected, Running, Place, Resting, Marking, Onward, Status
<1>2. manager' \in [Managers -> Manager] /\ Core'
  <2>1. CASE MarkThen(m, "Reconnecting", "backoff")
    BY <1>1, <2>1, ManagerMarks DEF Disconnected, UnchangedByRun
  <2>2. CASE MarkThen(m, "Failed", "leave")
    BY <1>1, <2>2, ManagerMarks DEF Disconnected, UnchangedByRun
  <2>. QED  BY <2>1, <2>2 DEF Disconnected
<1>3. left' \in [Bounds -> Nat]
  BY Used DEF Disconnected, Bounds
<1>. QED  BY <1>2, <1>3 DEF Disconnected, UnchangedByRun, Inv, TypeOK

LEMMA BackoffStep == ASSUME Inv, NEW m \in Managers, BackoffEnds(m) PROVE Inv'
<1>1. Running(m) /\ "load" \in Place \ Resting /\ "load" \notin Marking
  BY DEF BackoffEnds, Running, Place, Resting, Marking
<1>2. manager' \in [Managers -> Manager] /\ Core'
  BY <1>1, ManagerSteps DEF BackoffEnds, UnchangedByRun
<1>. QED  BY <1>2 DEF BackoffEnds, UnchangedByRun, Inv, TypeOK

LEMMA CancelStep == ASSUME Inv, NEW m \in Managers, NoticeCancel(m) PROVE Inv'
<1>1. Running(m) /\ "leave" \in Onward /\ "Disconnected" \in Status
  BY DEF NoticeCancel, Running, Place, Resting, Marking, Onward, Status
<1>2. manager' \in [Managers -> Manager] /\ Core'
  BY <1>1, ManagerMarks DEF NoticeCancel, UnchangedByRun
<1>. QED  BY <1>2 DEF NoticeCancel, UnchangedByRun, Inv, TypeOK

LEMMA PanicStep == ASSUME Inv, NEW m \in Managers, Panic(m) PROVE Inv'
<1>. DEFINE rec == [manager[m] EXCEPT !.at = "panicked",
                                      !.next = IF manager[m].at = "build" THEN "leave" ELSE "up"]
<1>1. Running(m) /\ manager[m] \in Manager
  BY DEF Panic, Running, Inv, TypeOK
<1>2. rec \in Manager /\ rec.at = "panicked"
  BY <1>1 DEF Manager, Place
<1>3. manager' = [manager EXCEPT ![m] = rec]
  BY DEF Panic
<1>. HIDE DEF rec
<1>4. rec.at \notin Resting /\ rec.at \notin Marking
  BY <1>2 DEF Resting, Marking
<1>5. manager' \in [Managers -> Manager] /\ Core'
  BY <1>1, <1>2, <1>3, <1>4, ManagerMoves DEF Panic, UnchangedByRun
<1>6. left' \in [Bounds -> Nat]
  BY Used DEF Panic, Bounds
<1>. QED  BY <1>5, <1>6 DEF Panic, UnchangedByRun, Inv, TypeOK

LEMMA LeaveStep == ASSUME Inv, NEW m \in Managers, Leave(m) PROVE Inv'
<1>1. manager' \in [Managers -> Manager] /\ Core'
  BY GoneMoves DEF Leave
<1>2. mishap' \in BOOLEAN /\ stray' \in BOOLEAN
  BY DEF Leave, Inv, TypeOK
<1>. QED  BY <1>1, <1>2 DEF Leave, Inv, TypeOK

-----------------------------------------------------------------------------
(* Handlers, requests, the health check and crashes.                       *)
LEMMA HandlerReadsStep == ASSUME Inv, NEW h \in Handlers, HandlerReads(h) PROVE Inv'
<1>1. Core'
  BY Kept DEF HandlerReads
<1>2. [row EXCEPT !.status = "Disconnected"] \in Row
  BY DEF Inv, TypeOK, Row, Status
<1>3. handler' \in [Handlers -> [busy : BOOLEAN, seen : Row]]
  BY <1>2 DEF HandlerReads, Inv, TypeOK
<1>4. news' \in 0 .. MaxNews
  BY ChannelAssumption DEF HandlerReads, Inv, TypeOK
<1>. QED  BY <1>1, <1>3, <1>4 DEF HandlerReads, Inv, TypeOK

LEMMA HandlerActsStep == ASSUME Inv, NEW h \in Handlers, HandlerActs(h) PROVE Inv'
<1>1. manager' \in [Managers -> Manager] /\ map' \in Managers \cup {NoManager}
      /\ cancelled' \subseteq Managers /\ Core'
  <2>1. CASE Stop /\ UNCHANGED manager
    BY <2>1, Stopped DEF Inv, TypeOK
  <2>2. CASE UNCHANGED <<map, manager, cancelled>>
    BY <2>2, Kept
  <2>3. CASE (Stop \/ UNCHANGED <<map, cancelled>>) /\ \E m \in Managers : Spawn(m)
    BY <2>3, Spawned
  <2>. QED  BY <2>1, <2>2, <2>3 DEF HandlerActs
<1>2. handler' \in [Handlers -> [busy : BOOLEAN, seen : Row]]
  BY RowTyped DEF HandlerActs, Idle, Inv, TypeOK
<1>. QED  BY <1>1, <1>2 DEF HandlerActs, Inv, TypeOK

LEMMA AskStep == ASSUME Inv, NEW op \in Ops, Ask(op) PROVE Inv'
<1>1. Core'
  BY Kept DEF Ask
<1>2. request' \in Request
  BY DEF Ask, Request, Inv, TypeOK
<1>3. left' \in [Bounds -> Nat]
  BY Used DEF Ask, Bounds
<1>. QED  BY <1>1, <1>2, <1>3 DEF Ask, Inv, TypeOK

LEMMA AskReadStep == ASSUME Inv, AskRead PROVE Inv'
<1>1. Core'
  BY Kept DEF AskRead
<1>2. request' \in Request
  BY NoRequestTyped DEF AskRead, Request, Inv, TypeOK
<1>. QED  BY <1>1, <1>2 DEF AskRead, Inv, TypeOK

LEMMA AskWriteStep == ASSUME Inv, AskWrite PROVE Inv'
<1>1. Core'
  BY Kept DEF AskWrite
<1>2. request' \in Request
  <2>1. \A op \in {"start", "stop"} : [NoRequest EXCEPT !.op = op, !.at = "kick"] \in Request
    BY NoRequestTyped DEF Request, Ops
  <2>. QED  BY <2>1, NoRequestTyped DEF AskWrite
<1>3. request.op \in {"start", "stop", "refuse", "update"} /\ request.seen \in Row
  BY DEF AskWrite, Request, Inv, TypeOK
<1>4. \A c \in Configs, missing \in BOOLEAN : Wanted(request.op, request.seen, c, missing) \in Row
  BY <1>3, WantedTyped
<1>5. row' \in Row /\ news' \in 0 .. MaxNews /\ mishap' \in BOOLEAN
  BY <1>3, <1>4, Written DEF AskWrite
<1>. QED  BY <1>1, <1>2, <1>5 DEF AskWrite, Inv, TypeOK

LEMMA AskKickStep == ASSUME Inv, AskKick PROVE Inv'
<1>1. manager' \in [Managers -> Manager] /\ map' \in Managers \cup {NoManager}
      /\ cancelled' \subseteq Managers /\ Core'
  <2>1. Stop \/ UNCHANGED <<map, cancelled>>
    BY DEF AskKick
  <2>2. CASE \E m \in Managers : Spawn(m)
    BY <2>1, <2>2, Spawned
  <2>3. CASE UNCHANGED manager /\ Stop
    BY <2>3, Stopped DEF Inv, TypeOK
  <2>4. CASE UNCHANGED manager /\ UNCHANGED <<map, cancelled>>
    BY <2>4, Kept
  <2>. QED  BY <2>1, <2>2, <2>3, <2>4 DEF AskKick
<1>2. request' \in Request
  BY NoRequestTyped DEF AskKick, Request, Inv, TypeOK
<1>. QED  BY <1>1, <1>2 DEF AskKick, Inv, TypeOK

LEMMA DeleteStep == ASSUME Inv, DeleteRow PROVE Inv'
<1>1. Core'
  BY Kept DEF DeleteRow
<1>2. row' \in Row
  BY DEF DeleteRow, Inv, TypeOK, Row
<1>3. news' \in 0 .. MaxNews
  BY Heard DEF DeleteRow
<1>. QED  BY <1>1, <1>2, <1>3, NoRequestTyped DEF DeleteRow, Inv, TypeOK

LEMMA CheckStep == ASSUME Inv, FindActive \/ StartDead PROVE Inv'
<1>1. CASE FindActive
  BY <1>1, Kept DEF FindActive, Inv, TypeOK
<1>2. CASE StartDead
  <2>1. manager' \in [Managers -> Manager] /\ Core'
    BY <1>2, Spawned, Kept DEF StartDead
  <2>. QED  BY <1>2, <2>1 DEF StartDead, Inv, TypeOK
<1>. QED  BY <1>1, <1>2

LEMMA CrashStep == ASSUME Inv, Crash PROVE Inv'
<1>1. Core'
  BY DEF Crash, Core, RunningIsMapped, Running, Mapped, RestingOK, MarkOK, FreeManager, Marking
<1>2. left' \in [Bounds -> Nat]
  BY Used DEF Crash, Bounds
<1>3. manager' \in [Managers -> Manager] /\ handler' \in [Handlers -> [busy : BOOLEAN, seen : Row]]
  BY FreeTyped, RowTyped DEF Crash, Idle
<1>4. news' \in 0 .. MaxNews
  BY ChannelAssumption DEF Crash
<1>. QED  BY <1>1, <1>2, <1>3, <1>4, NoRequestTyped DEF Crash, Inv, TypeOK

LEMMA StutterStep == ASSUME Inv, UNCHANGED channelVars PROVE Inv'
BY Kept DEF channelVars, Inv, TypeOK

-----------------------------------------------------------------------------
\* Who runs, who is in the map and who was cancelled stay in step.
THEOREM ChannelInvariant == Spec => []Inv
<1>1. Inv /\ [Next]_channelVars => Inv'
  <2>. SUFFICES ASSUME Inv, [Next]_channelVars PROVE Inv'
    OBVIOUS
  <2>1. ASSUME NEW m \in Managers, Insert(m) \/ Run(m)  PROVE Inv'
    BY <2>1, InsertStep, LoadStep, MarkReadStep, MarkWriteStep, BuildStep, ConnectedStep,
       BackoffStep, CancelStep, LeaveStep DEF Run
  <2>2. ASSUME NEW m \in Managers, Disconnected(m) \/ Panic(m)  PROVE Inv'
    BY <2>2, DisconnectedStep, PanicStep
  <2>3. ASSUME NEW h \in Handlers, HandlerReads(h) \/ HandlerActs(h)  PROVE Inv'
    BY <2>3, HandlerReadsStep, HandlerActsStep
  <2>4. CASE (\E op \in Ops : Ask(op)) \/ Serve
    BY <2>4, AskStep, AskReadStep, AskWriteStep, AskKickStep, DeleteStep DEF Serve
  <2>5. CASE Check \/ Crash
    BY <2>5, CheckStep, CrashStep DEF Check
  <2>6. CASE UNCHANGED channelVars
    BY <2>6, StutterStep
  <2>. QED  BY <2>1, <2>2, <2>3, <2>4, <2>5, <2>6 DEF Next
<1>. QED  BY <1>1, InitInv, PTL DEF Spec

\* Type correctness: in particular only managers there are get cancelled.
THEOREM ChannelTypeCorrect == Spec => []TypeOK
<1>1. Inv => TypeOK
  BY DEF Inv
<1>. QED  BY <1>1, ChannelInvariant, PTL

\* Two managers of a channel never run at once without one of them being told to
\* end, whoever starts and stops it in between (start, stop, SlotGuard).  A manager
\* that panicked counts until SlotGuard takes it out, and its connection goes on.
THEOREM RunningStaysMapped == Spec => []RunningIsMapped
<1>1. Inv => RunningIsMapped
  BY DEF Inv, Core
<1>. QED  BY <1>1, ChannelInvariant, PTL

-----------------------------------------------------------------------------
(* What the row says when all is over.  The promise is about quiet states; *)
(* what keeps it is that a row which says neither Disconnected nor Failed  *)
(* has a manager at work, which will say it: a manager only leaves after   *)
(* such a mark, or without a word (a mishap), or when the row is gone.     *)
OverStatus == {"Disconnected", "Failed"}
LeavesOver ==
    \A m \in Managers : manager[m].at \in Marking /\ manager[m].next = "leave"
                           => manager[m].status \in OverStatus
Shown == ~mishap /\ row.exists /\ row.status \notin OverStatus => \E m \in Managers : Running(m)

\* A step that changes one manager, and not the row.
LEMMA OneManager ==
    ASSUME Inv, LeavesOver, NEW m \in Managers, NEW rec,
           manager' = [manager EXCEPT ![m] = rec],
           rec.at \in Marking /\ rec.next = "leave" => rec.status \in OverStatus
    PROVE  /\ LeavesOver'
           /\ manager'[m] = rec /\ \A n \in Managers \ {m} : manager'[n] = manager[n]
<1>1. manager'[m] = rec /\ \A n \in Managers \ {m} : manager'[n] = manager[n]
  BY DEF Inv, TypeOK
<1>. QED  BY <1>1 DEF LeavesOver

LEMMA StillShown ==
    ASSUME Shown, UNCHANGED <<row, mishap>>,
           \A m \in Managers : Running(m) => Running(m)'
    PROVE  Shown'
BY DEF Shown

\* A step of a manager that keeps it at work.
LEMMA WorksOn ==
    ASSUME Inv, LeavesOver, Shown, UNCHANGED <<row, mishap>>, NEW m \in Managers, NEW rec,
           manager' = [manager EXCEPT ![m] = rec],
           rec.at \in Marking /\ rec.next = "leave" => rec.status \in OverStatus,
           rec.at \notin {"free", "spawned", "leave"} \/ ~Running(m)
    PROVE  LeavesOver' /\ Shown'
<1>1. LeavesOver' /\ manager'[m] = rec /\ \A n \in Managers \ {m} : manager'[n] = manager[n]
  BY OneManager
<1>2. \A n \in Managers : Running(n) => Running(n)'
  BY <1>1 DEF Running
<1>. QED  BY <1>1, <1>2, StillShown

LEMMA MoveShown ==
    ASSUME Inv, LeavesOver, Shown, UNCHANGED <<row, mishap>>, NEW m \in Managers,
           NEW p \in Place \ (Marking \cup {"free", "spawned", "leave"}), Move(m, p)
    PROVE  LeavesOver' /\ Shown'
<1>. DEFINE rec == [manager[m] EXCEPT !.at = p]
<1>1. rec.at = p
  BY DEF Inv, TypeOK, Manager
<1>2. manager' = [manager EXCEPT ![m] = rec]
  BY DEF Move
<1>. HIDE DEF rec
<1>. QED  BY <1>1, <1>2, WorksOn

LEMMA MarkThenShown ==
    ASSUME Inv, LeavesOver, Shown, UNCHANGED <<row, mishap>>, NEW m \in Managers,
           NEW s, NEW p, MarkThen(m, s, p), p = "leave" => s \in OverStatus
    PROVE  LeavesOver' /\ Shown'
<1>. DEFINE rec == [manager[m] EXCEPT !.at = "mark", !.status = s, !.next = p]
<1>1. rec.at = "mark" /\ rec.next = p /\ rec.status = s
  BY DEF Inv, TypeOK, Manager
<1>2. manager' = [manager EXCEPT ![m] = rec]
  BY DEF MarkThen
<1>. HIDE DEF rec
<1>. QED  BY <1>1, <1>2, WorksOn

LEMMA SpawnShown ==
    ASSUME Inv, LeavesOver, Shown, UNCHANGED <<row, mishap>>,
           UNCHANGED manager \/ \E m \in Managers : Spawn(m)
    PROVE  LeavesOver' /\ Shown'
<1>1. CASE UNCHANGED manager
  BY <1>1, StillShown DEF LeavesOver, Running
<1>2. ASSUME NEW m \in Managers, Spawn(m)  PROVE LeavesOver' /\ Shown'
  <2>. DEFINE rec == [manager[m] EXCEPT !.at = "spawned"]
  <2>1. rec.at = "spawned" /\ manager' = [manager EXCEPT ![m] = rec] /\ ~Running(m)
    BY <1>2 DEF Spawn, Running, Inv, TypeOK, Manager
  <2>. HIDE DEF rec
  <2>. QED  BY <2>1, WorksOn DEF Marking
<1>. QED  BY <1>1, <1>2

LEMMA InsertShown ==
    ASSUME Inv, LeavesOver, Shown, NEW m \in Managers, Insert(m)  PROVE LeavesOver' /\ Shown'
<1>1. manager[m] \in Manager /\ ~Running(m) /\ UNCHANGED <<row, mishap>>
  BY DEF Insert, Running, Inv, TypeOK
<1>2. CASE map = NoManager
  <2>. DEFINE rec == [manager[m] EXCEPT !.at = "load"]
  <2>1. rec.at = "load" /\ manager' = [manager EXCEPT ![m] = rec]
    BY <1>1, <1>2 DEF Insert, Manager
  <2>. HIDE DEF rec
  <2>. QED  BY <1>1, <2>1, WorksOn DEF Marking
<1>3. CASE map # NoManager
  BY <1>1, <1>3, WorksOn DEF Insert, FreeManager, Marking
<1>. QED  BY <1>2, <1>3

LEMMA LoadShown ==
    ASSUME Inv, LeavesOver, Shown, NEW m \in Managers, Load(m)  PROVE LeavesOver' /\ Shown'
<1>1. manager[m] \in Manager /\ UNCHANGED <<row, mishap>>
  BY DEF Load, UnchangedByRun, Inv, TypeOK
<1>2. CASE row.exists
  <2>. DEFINE rec == [manager[m] EXCEPT !.at = "mark", !.status = "Connecting",
                                        !.next = "build", !.config = row.config]
  <2>1. rec.at = "mark" /\ rec.next = "build" /\ manager' = [manager EXCEPT ![m] = rec]
    BY <1>1, <1>2 DEF Load, Manager
  <2>. HIDE DEF rec
  <2>. QED  BY <1>1, <2>1, WorksOn
<1>3. CASE ~row.exists
  <2>. DEFINE rec == [manager[m] EXCEPT !.at = "leave"]
  <2>1. rec.at = "leave" /\ manager' = [manager EXCEPT ![m] = rec]
    BY <1>1, <1>3 DEF Load, Manager
  <2>. HIDE DEF rec
  <2>2. LeavesOver'
    BY <2>1, OneManager DEF Marking
  <2>. QED  BY <1>1, <1>3, <2>2 DEF Shown
<1>. QED  BY <1>2, <1>3

LEMMA MarkReadShown ==
    ASSUME Inv, LeavesOver, Shown, NEW m \in Managers, MarkRead(m)  PROVE LeavesOver' /\ Shown'
<1>1. manager[m] \in Manager /\ UNCHANGED <<row, mishap>> /\ manager[m].at \in Marking
      /\ manager[m].next \in Onward
  BY DEF MarkRead, UnchangedByRun, Inv, TypeOK, Core, MarkOK, Marking
<1>2. CASE row.exists
  <2>. DEFINE rec == [manager[m] EXCEPT !.at = "write", !.seen = row]
  <2>1. /\ rec.at = "write" /\ rec.next = manager[m].next /\ rec.status = manager[m].status
        /\ manager' = [manager EXCEPT ![m] = rec]
    BY <1>1, <1>2 DEF MarkRead, Manager
  <2>. HIDE DEF rec
  <2>. QED  BY <1>1, <2>1, WorksOn DEF LeavesOver
<1>3. CASE ~row.exists
  <2>. DEFINE rec == [FreeManager EXCEPT !.at = manager[m].next, !.config = manager[m].config]
  <2>1. rec.at = manager[m].next /\ manager' = [manager EXCEPT ![m] = rec]
    BY <1>1, <1>3, FreeTyped DEF MarkRead, Manager
  <2>. HIDE DEF rec
  <2>2. LeavesOver'
    BY <1>1, <2>1, OneManager DEF Onward
  <2>. QED  BY <1>1, <1>3, <2>2 DEF Shown
<1>. QED  BY <1>2, <1>3

\* The write itself: either it is the manager's last word, or it goes on.
LEMMA MarkWriteShown ==
    ASSUME Inv, LeavesOver, Shown, NEW m \in Managers, MarkWrite(m)  PROVE LeavesOver' /\ Shown'
<1>. DEFINE rec == [FreeManager EXCEPT !.at = manager[m].next, !.config = manager[m].config]
            seen == manager[m].seen
            new == [seen EXCEPT !.status = manager[m].status]
<1>1. manager[m] \in Manager /\ manager[m].at \in Marking /\ manager[m].next \in Onward
  BY DEF MarkWrite, Inv, TypeOK, Core, MarkOK, Marking
<1>2. rec.at = manager[m].next /\ manager' = [manager EXCEPT ![m] = rec]
  BY <1>1, FreeTyped DEF MarkWrite, Manager
<1>3. new.status = manager[m].status
  BY <1>1 DEF Manager, Row
<1>4. row' = (IF row.exists THEN new ELSE row)
  BY DEF MarkWrite, WriteRow
<1>. HIDE DEF rec, seen, new
<1>5. LeavesOver' /\ manager'[m].at = manager[m].next
  BY <1>1, <1>2, OneManager DEF Onward
<1>6. Shown'
  <2>. SUFFICES ASSUME row'.exists, row'.status \notin OverStatus  PROVE Running(m)'
    BY DEF Shown
  <2>1. manager[m].next # "leave"
    BY <1>1, <1>3, <1>4 DEF LeavesOver
  <2>. QED  BY <1>1, <1>5, <2>1 DEF Running, Onward, Resting
<1>. QED  BY <1>5, <1>6

LEMMA RunShown ==
    ASSUME Inv, LeavesOver, Shown, NEW m \in Managers,
           Insert(m) \/ Run(m) \/ Disconnected(m) \/ Panic(m)
    PROVE  LeavesOver' /\ Shown'
<1>1. {"handshake", "load"} \subseteq Place \ (Marking \cup {"free", "spawned", "leave"})
  BY DEF Place, Marking
<1>2. CASE BuildAttempt(m) \/ BackoffEnds(m)
  BY <1>1, <1>2, MoveShown, MarkThenShown
  DEF BuildAttempt, BackoffEnds, UnchangedByRun, OverStatus
<1>3. CASE Connected(m) \/ Disconnected(m) \/ NoticeCancel(m)
  BY <1>3, MarkThenShown DEF Connected, Disconnected, NoticeCancel, UnchangedByRun, OverStatus
<1>4. CASE Panic(m)
  <2>. DEFINE rec == [manager[m] EXCEPT !.at = "panicked",
                                        !.next = IF manager[m].at = "build" THEN "leave" ELSE "up"]
  <2>1. rec.at = "panicked" /\ manager' = [manager EXCEPT ![m] = rec]
    BY <1>4 DEF Panic, Inv, TypeOK, Manager
  <2>. HIDE DEF rec
  <2>. QED  BY <1>4, <2>1, WorksOn DEF Panic, UnchangedByRun, Marking
<1>5. CASE Leave(m) /\ manager[m].at = "leave"
  <2>1. ~Running(m) /\ row' = row /\ mishap' = (mishap \/ FALSE) /\ FreeManager.at = "free"
    BY <1>5 DEF Leave, Running, FreeManager
  <2>2. mishap' = mishap
    BY <2>1 DEF Inv, TypeOK
  <2>. QED  BY <1>5, <2>1, <2>2, WorksOn DEF Leave, Marking
<1>6. CASE Leave(m) /\ manager[m].at = "panicked"
  <2>1. mishap' /\ FreeManager.at = "free"
    BY <1>6 DEF Leave, FreeManager
  <2>. QED  BY <1>6, <2>1, OneManager DEF Leave, Shown, Marking
<1>7. Leave(m) => LeavesOver' /\ Shown'
  BY <1>5, <1>6 DEF Leave
<1>. QED  BY <1>2, <1>3, <1>4, <1>7, InsertShown, LoadShown, MarkReadShown, MarkWriteShown DEF Run

\* The operator's writes keep the status they read, or set Disconnected.
LEMMA AskWriteShown == ASSUME Inv, LeavesOver, Shown, AskWrite  PROVE LeavesOver' /\ Shown'
<1>1. PICK c \in Configs, missing \in BOOLEAN :
        WriteRow(request.seen, Wanted(request.op, request.seen, c, missing))
  BY DEF AskWrite
<1>2. request.seen \in Row /\ UNCHANGED manager
  BY DEF AskWrite, Inv, TypeOK, Request
<1>3. Wanted(request.op, request.seen, c, missing).status \in {request.seen.status, "Disconnected"}
  BY <1>2 DEF AskWrite, Wanted, Row
<1>4. Shown'
  <2>. SUFFICES ASSUME ~mishap', row'.exists, row'.status \notin OverStatus
                PROVE  \E m \in Managers : Running(m)
    BY <1>2 DEF Shown, Running
  <2>1. ~mishap /\ row = request.seen /\ row.exists
    BY <1>1 DEF WriteRow, Inv, TypeOK
  <2>2. row.status \notin OverStatus
    BY <1>1, <1>3, <2>1 DEF WriteRow, OverStatus
  <2>. QED  BY <2>1, <2>2 DEF Shown
<1>. QED  BY <1>2, <1>4 DEF LeavesOver

LEMMA ShownStep == ASSUME Inv, LeavesOver, Shown, [Next]_channelVars  PROVE LeavesOver' /\ Shown'
<1>1. ASSUME NEW h \in Handlers, HandlerReads(h) \/ HandlerActs(h)  PROVE LeavesOver' /\ Shown'
  BY <1>1, SpawnShown DEF HandlerReads, HandlerActs
<1>2. ASSUME NEW op \in Ops, Ask(op)  PROVE LeavesOver' /\ Shown'
  BY <1>2, SpawnShown DEF Ask
<1>3. CASE AskRead \/ AskKick \/ Check
  BY <1>3, SpawnShown DEF AskRead, AskKick, Check, FindActive, StartDead
<1>4. CASE DeleteRow
  <2>1. ~row'.exists
    BY <1>4 DEF DeleteRow, Inv, TypeOK, Row
  <2>. QED  BY <1>4, <2>1 DEF DeleteRow, Shown, LeavesOver
<1>5. CASE Crash
  BY <1>5 DEF Crash, Shown, LeavesOver, FreeManager, Marking
<1>6. CASE UNCHANGED channelVars
  BY <1>6, SpawnShown DEF channelVars
<1>. QED  BY <1>1, <1>2, <1>3, <1>4, <1>5, <1>6, RunShown, AskWriteShown DEF Next, Serve

\* What the operator sees of a channel that is off, when nothing is under way any
\* more, is that it is off: nobody leaves with another status as the last word
\* (finish_stopped, mark_status, set_enabled), unless an old copy was written
\* back or a manager ended without a word.
THEOREM StoppedStaysShown == Spec => []StoppedIsShown
<1>1. Init => LeavesOver /\ Shown
  BY DEF Init, LeavesOver, Shown, NewRow, OverStatus, FreeManager, Marking
<1>2. Shown => StoppedIsShown
  BY DEF Shown, StoppedIsShown, Quiet, Running, OverStatus
<1>. QED  BY <1>1, <1>2, ShownStep, ChannelInvariant, PTL DEF Spec
=============================================================================
