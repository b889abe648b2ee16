-------------------------- MODULE Delivery_proofs --------------------------
(***************************************************************************)
(* What Delivery promises for every number of tool calls, pipelines,       *)
(* requests and faults.                                                    *)
(*                                                                         *)
(* The properties speak of the row; a writer that has read the row and is  *)
(* about to write it back carries a copy of it, of any age.  The invariant *)
(* therefore asks of every such copy what it asks of the row (Sound).  The *)
(* cursor is different: an old copy may well take it back, and only while  *)
(* the row has one writer at a time are the copies and the row in step     *)
(* (InStep).                                                               *)
(***************************************************************************)
EXTENDS Delivery, TLAPS

Sound(d) ==
    /\ d.state = "Pending" => d.due # "None"
    /\ d.state = "Sent" => Tools \in given
Done(index) == \A i \in Segments : i < index => i \in given \cup Silent
CopyOK(w) ==
    writer[w].at = "write" =>
        /\ Sound(writer[w].seen)
        /\ writer[w].record # "None"
        /\ writer[w].record = "complete" => Tools \in given
InStep(w) ==
    writer[w].at # "idle" =>
        /\ link # "stamp"
        /\ \A v \in Writers \ {w} : writer[v].at = "idle"
        /\ writer[w].at \in {"due", "segment", "write"} => writer[w].seen.index = row.index
        /\ writer[w].record = "progress" => row.index \in given \cup Silent

Core ==
    /\ Sound(row)
    /\ \A w \in Writers : CopyOK(w)
    /\ overlap \/ (Done(row.index) /\ \A w \in Writers : InStep(w))
Inv == TypeOK /\ Core

-----------------------------------------------------------------------------
(* What the records do to a delivery.                                      *)
LEMMA RecordedTyped ==
    ASSUME DeliveryAssumption, NEW d \in Delivery, NEW r \in Record \ {"None"}
    PROVE  Recorded(d, r) \in Delivery
<1>. DEFINE States == {"None", "Pending", "Sent", "Delivered", "Failed"}
            Dues == {"None", "Later", "Now"}
<1>1. ASSUME NEW s \in States, NEW x \in Dues, NEW a \in Nat, NEW i \in Nat
      PROVE  [d EXCEPT !.state = s, !.due = x] \in Delivery
             /\ [d EXCEPT !.index = i, !.due = x] \in Delivery
             /\ [d EXCEPT !.state = s, !.attempts = a, !.due = x] \in Delivery
             /\ [d EXCEPT !.state = s] \in Delivery
  BY DEF Delivery
<1>2. d.attempts + 1 \in Nat /\ d.index + 1 \in Nat
  BY DEF Delivery
<1>3. Progressed(d) \in Delivery /\ Finished(d) \in Delivery
  BY <1>1, <1>2 DEF Progressed, Finished
<1>4. ASSUME NEW t \in BOOLEAN  PROVE Failed(d, t) \in Delivery
  <2>. DEFINE due == IF t \/ d.attempts + 1 >= MaxAttempts THEN "None" ELSE "Later"
  <2>1. due \in Dues
    OBVIOUS
  <2>. HIDE DEF due
  <2>2. [d EXCEPT !.state = "Failed", !.attempts = d.attempts + 1, !.due = due] \in Delivery
    BY <1>1, <1>2, <2>1
  <2>. QED  BY <2>2 DEF Failed, due
<1>5. \A t \in BOOLEAN : Reported(d, t) \in Delivery
  BY <1>1 DEF Reported
<1>. QED  BY <1>3, <1>4, <1>5 DEF Recorded, Record

LEMMA RecordedFields ==
    ASSUME NEW d \in Delivery, NEW r \in Record \ {"None"}
    PROVE  /\ Recorded(d, r).index = IF r = "progress" THEN d.index + 1 ELSE d.index
           /\ Recorded(d, r).state = "Pending" =>
                 d.state = "Pending" /\ (Recorded(d, r).due = "Now" \/ Recorded(d, r).due = d.due)
           /\ Recorded(d, r).state = "Sent" => d.state = "Sent" \/ r = "complete"
<1>1. CASE r = "progress"
  BY <1>1 DEF Recorded, Progressed, Delivery
<1>2. CASE r = "complete"
  BY <1>2 DEF Recorded, Finished, Delivery
<1>3. CASE r \in {"retry", "giveup"}
  BY <1>3 DEF Recorded, Failed, Delivery
<1>4. CASE r \in {"delivered", "undelivered"}
  BY <1>4 DEF Recorded, Reported, Delivery
<1>5. CASE r = "edit"
  BY <1>5 DEF Recorded
<1>. QED  BY <1>1, <1>2, <1>3, <1>4, <1>5 DEF Record

LEMMA PendingTyped ==
    /\ NoDelivery \in Delivery /\ PendingDelivery \in Delivery
    /\ PendingDelivery.state = "Pending" /\ PendingDelivery.due = "Now" /\ PendingDelivery.index = 0
    /\ IdleWriter \in Writer /\ IdleWriter.at = "idle" /\ IdleWriter.record = "None"
<1>1. NoDelivery \in Delivery /\ NoDelivery.index = 0
  BY DEF NoDelivery, Delivery
<1>2. PendingDelivery \in Delivery /\ PendingDelivery.state = "Pending"
      /\ PendingDelivery.due = "Now" /\ PendingDelivery.index = 0
  BY DEF NoDelivery, PendingDelivery, Delivery
<1>3. IdleWriter \in Writer /\ IdleWriter.at = "idle" /\ IdleWriter.record = "None"
  BY <1>1 DEF IdleWriter, Writer, Record
<1>. QED  BY <1>1, <1>2, <1>3

LEMMA UseTyped ==
    ASSUME left \in [Bounds -> Nat], NEW b \in Bounds, Use(b)  PROVE left' \in [Bounds -> Nat]
BY DEF Use

-----------------------------------------------------------------------------
(* A step that writes at most one writer, and not the row.                 *)

\* The new place of a writer is in order.
PlaceOK(w, new) ==
    /\ new \in Writer
    /\ new.at = "write" => Sound(new.seen) /\ new.record # "None"
                           /\ (new.record = "complete" => Tools \in given')
    /\ \/ overlap'
       \/ /\ new.at \in {"due", "segment", "write"} => new.seen.index = row.index
          /\ new.record = "progress" => row.index \in given' \cup Silent

\* A writer goes on: it was under way, or it starts and overlap takes note.
LEMMA GoesOn ==
    ASSUME Inv, NEW w \in Writers, NEW new,
           writer' = [writer EXCEPT ![w] = new], PlaceOK(w, new),
           UNCHANGED row, given \subseteq given', given' \subseteq Segments, overlap' \in BOOLEAN,
           link' = link,
           \/ writer[w].at # "idle" /\ overlap' = overlap
           \/ overlap' = (overlap \/ Others(w))
    PROVE  writer' \in [Writers -> Writer] /\ Core'
<1>1. writer' \in [Writers -> Writer] /\ writer'[w] = new
      /\ \A v \in Writers \ {w} : writer'[v] = writer[v]
  BY DEF Inv, TypeOK, PlaceOK
<1>2. Sound(row)'
  BY DEF Inv, Core, Sound
<1>3. ASSUME NEW v \in Writers  PROVE CopyOK(v)'
  <2>1. CASE v = w
    BY <1>1, <2>1 DEF PlaceOK, CopyOK, Sound
  <2>2. CASE v # w
    BY <1>1, <2>2 DEF Inv, Core, CopyOK, Sound
  <2>. QED  BY <2>1, <2>2
<1>4. ASSUME ~overlap'  PROVE Done(row.index)' /\ \A v \in Writers : InStep(v)'
  <2>1. ~overlap /\ link # "stamp" /\ \A v \in Writers \ {w} : writer[v].at = "idle"
    BY <1>4 DEF Inv, Core, TypeOK, InStep, Others
  <2>2. Done(row.index)'
    BY <2>1 DEF Inv, Core, Done
  <2>3. ASSUME NEW v \in Writers  PROVE InStep(v)'
    <3>1. CASE v = w
      BY <1>1, <1>4, <2>1, <3>1 DEF PlaceOK, InStep
    <3>2. CASE v # w
      BY <1>1, <2>1, <3>2 DEF InStep
    <3>. QED  BY <3>1, <3>2
  <2>. QED  BY <2>2, <2>3
<1>. QED  BY <1>1, <1>2, <1>3, <1>4 DEF Core

\* The places that carry no copy of the row.
LEMMA EmptyPlace ==
    ASSUME NEW w \in Writers, NEW place \in {"idle", "stamp", "stampwrite", "reload"}
    PROVE  PlaceOK(w, [IdleWriter EXCEPT !.at = place])
<1>. DEFINE new == [IdleWriter EXCEPT !.at = place]
<1>1. new \in Writer /\ new.at = place /\ new.record = "None"
  BY PendingTyped DEF Writer
<1>. HIDE DEF new
<1>2. PlaceOK(w, new)
  BY <1>1 DEF PlaceOK
<1>. QED  BY <1>2 DEF new

LEMMA AttemptPlace ==
    ASSUME Inv, NEW w \in Writers, NEW seen \in Delivery, Attempt(w, seen),
           overlap' \/ seen.index = row.index
    PROVE  \E new : writer' = [writer EXCEPT ![w] = new] /\ PlaceOK(w, new)
<1>1. CASE seen.state \in {"None", "Sent", "Delivered"}
  BY <1>1, EmptyPlace DEF Attempt, At
<1>2. CASE seen.state \notin {"None", "Sent", "Delivered"}
  <2>. DEFINE new == [IdleWriter EXCEPT !.at = "segment", !.seen.index = seen.index]
  <2>. DEFINE copy == [NoDelivery EXCEPT !.index = seen.index]
  <2>1. copy \in Delivery /\ copy.index = seen.index
    BY DEF NoDelivery, Delivery
  <2>. HIDE DEF copy
  <2>2. [[IdleWriter EXCEPT !.at = "segment"] EXCEPT !.seen = copy] \in Writer
    BY <2>1, PendingTyped DEF Writer
  <2>3. new \in Writer /\ new.at = "segment" /\ new.record = "None" /\ new.seen.index = seen.index
    BY <2>1, <2>2 DEF Writer, Record, IdleWriter, copy
  <2>4. writer' = [writer EXCEPT ![w] = new]
    BY <1>2 DEF Attempt
  <2>. HIDE DEF new
  <2>5. PlaceOK(w, new)
    BY <2>3 DEF PlaceOK
  <2>. QED  BY <2>4, <2>5
<1>. QED  BY <1>1, <1>2

LEMMA RecordPlace ==
    ASSUME Inv, NEW w \in Writers, NEW r \in Record \ {"None"}, ToRecord(w, r),
           r = "complete" => Tools \in given',
           r = "progress" => overlap' \/ row.index \in given' \cup Silent
    PROVE  \E new : writer' = [writer EXCEPT ![w] = new] /\ PlaceOK(w, new)
<1>1. CASE row.state # "None" \/ r = "edit"
  <2>. DEFINE new == [at |-> "write", seen |-> row, record |-> r]
  <2>1. new \in Writer /\ new.at = "write" /\ new.seen = row /\ new.record = r
    BY DEF Inv, TypeOK, Writer
  <2>2. writer' = [writer EXCEPT ![w] = new]
    BY <1>1 DEF ToRecord
  <2>. HIDE DEF new
  <2>3. PlaceOK(w, new)
    BY <2>1 DEF PlaceOK, Inv, Core
  <2>. QED  BY <2>2, <2>3
<1>2. CASE ~(row.state # "None" \/ r = "edit")
  BY <1>2, EmptyPlace DEF ToRecord
<1>. QED  BY <1>1, <1>2

-----------------------------------------------------------------------------
(* The other steps.                                                        *)

\* Nothing is written; the orphan's stamp may be read.
LEMMA Quiet ==
    ASSUME Inv, UNCHANGED <<row, writer, given>>, overlap' \in BOOLEAN, overlap => overlap',
           link' = "stamp" => link = "stamp" \/ overlap' \/ ~Others(NoPipe)
    PROVE  Core'
<1>1. Sound(row)' /\ \A v \in Writers : CopyOK(v)'
  BY DEF Inv, Core, Sound, CopyOK
<1>2. ASSUME ~overlap'  PROVE Done(row.index)' /\ \A v \in Writers : InStep(v)'
  <2>1. Done(row.index)' /\ \A v \in Writers : InStep(v)
    <3>1. Done(row.index) /\ \A v \in Writers : InStep(v)
      BY <1>2 DEF Inv, Core
    <3>. QED  BY <3>1 DEF Done
  <2>2. CASE link' # "stamp" \/ link = "stamp"
    BY <2>1, <2>2 DEF InStep
  <2>3. CASE ~Others(NoPipe)
    BY <2>1, <2>3, DeliveryAssumption DEF InStep, Others, Writers, Walkers
  <2>. QED  BY <1>2, <2>1, <2>2, <2>3
<1>. QED  BY <1>1, <1>2 DEF Core

\* A writer writes the row, and is done or reads it again.
LEMMA Writes ==
    ASSUME Inv, NEW w \in Writers, writer[w].at # "idle", NEW place \in {"idle", "reload"},
           At(w, place), row' \in Delivery, Sound(row'), overlap \/ Done(row'.index),
           UNCHANGED <<given, overlap, link>>
    PROVE  writer' \in [Writers -> Writer] /\ Core'
<1>. DEFINE new == [IdleWriter EXCEPT !.at = place]
<1>1. new \in Writer /\ new.at = place /\ new.record = "None"
  BY PendingTyped DEF Writer
<1>2. writer' = [writer EXCEPT ![w] = new]
  BY DEF At
<1>. HIDE DEF new
<1>3. writer' \in [Writers -> Writer] /\ writer'[w] = new
      /\ \A v \in Writers \ {w} : writer'[v] = writer[v]
  BY <1>1, <1>2 DEF Inv, TypeOK
<1>4. Sound(row)'
  BY DEF Sound
<1>5. ASSUME NEW v \in Writers  PROVE CopyOK(v)'
  BY <1>1, <1>3 DEF Inv, Core, CopyOK, Sound
<1>6. ASSUME ~overlap  PROVE Done(row.index)' /\ \A v \in Writers : InStep(v)'
  <2>1. link # "stamp" /\ \A v \in Writers \ {w} : writer[v].at = "idle"
    BY <1>6 DEF Inv, Core, InStep
  <2>2. Done(row.index)'
    BY <1>6 DEF Done
  <2>3. ASSUME NEW v \in Writers  PROVE InStep(v)'
    BY <1>1, <1>3, <2>1 DEF InStep
  <2>. QED  BY <2>2, <2>3
<1>. QED  BY <1>3, <1>4, <1>5, <1>6 DEF Core

\* The row changes but for its cursor, or while nobody is about to write it.
LEMMA Touched ==
    ASSUME Inv, UNCHANGED <<writer, given, overlap>>, row' \in Delivery, Sound(row'),
           row'.index = row.index \/ (link = "stamp" /\ row'.index = 0),
           link' # "stamp" \/ link' = link
    PROVE  Core'
<1>1. Sound(row)' /\ \A v \in Writers : CopyOK(v)'
  BY DEF Inv, Core, Sound, CopyOK
<1>2. ASSUME ~overlap  PROVE Done(row.index)' /\ \A v \in Writers : InStep(v)'
  <2>1. Done(row.index) /\ \A v \in Writers : InStep(v)
    BY <1>2 DEF Inv, Core
  <2>2. CASE row'.index = row.index
    BY <2>1, <2>2 DEF InStep, Done
  <2>3. CASE link = "stamp" /\ row'.index = 0
    BY <2>1, <2>3 DEF InStep, Done, Segments
  <2>. QED  BY <2>2, <2>3
<1>. QED  BY <1>1, <1>2 DEF Core

-----------------------------------------------------------------------------
(* Every step keeps the invariant.                                         *)
LEMMA InitInv == Init => Inv
<1>. SUFFICES ASSUME Init PROVE Inv
  OBVIOUS
<1>1. TypeOK
  BY PendingTyped, DeliveryAssumption DEF Init, TypeOK, Limit, Bounds
<1>2. Core
  BY PendingTyped DEF Init, Core, Sound, Done, CopyOK, InStep, NoDelivery, Segments
<1>. QED  BY <1>1, <1>2 DEF Inv

LEMMA MessageStep == ASSUME Inv, Complete \/ Announce PROVE Inv'
<1>1. Core'
  BY Quiet DEF Complete, Announce, Hear, Inv, TypeOK
<1>2. ASSUME Complete  PROVE TypeOK'
  BY <1>2 DEF Complete, Inv, TypeOK
<1>3. ASSUME Announce  PROVE TypeOK'
  <2>1. inbox' \in [Pipes -> Nat]
    BY <1>3 DEF Announce, Hear, Inv, TypeOK
  <2>2. deaf' \in BOOLEAN
    BY <1>3 DEF Announce, Hear
  <2>. QED  BY <1>3, <2>1, <2>2 DEF Announce, Inv, TypeOK
<1>. QED  BY <1>1, <1>2, <1>3 DEF Inv

LEMMA RequestStep == ASSUME Inv, Request PROVE Inv'
<1>1. PICK r \in {"delivered", "undelivered", "edit"} : ToRecord(Api, r)
  BY DEF Request
<1>2. Api \in Writers /\ overlap' = (overlap \/ Others(Api)) /\ overlap' \in BOOLEAN
      /\ UNCHANGED <<row, given, link>>
  BY DEF Request, Writers
<1>3. PICK new : writer' = [writer EXCEPT ![Api] = new] /\ PlaceOK(Api, new)
  BY <1>1, <1>2, RecordPlace DEF Record
<1>4. writer' \in [Writers -> Writer] /\ Core'
  BY <1>2, <1>3, GoesOn DEF Inv, TypeOK
<1>5. left' \in [Bounds -> Nat]
  BY UseTyped DEF Request, Inv, TypeOK, Bounds
<1>6. TypeOK'
  BY <1>2, <1>4, <1>5 DEF Request, Inv, TypeOK
<1>. QED  BY <1>4, <1>6 DEF Inv

LEMMA ConnectionStep == ASSUME Inv, Connection PROVE Inv'
<1>1. ASSUME NEW p \in Pipes, Build(p)  PROVE Inv'
  <2>1. Core'
    BY <1>1, Quiet DEF Build, Inv, TypeOK
  <2>2. TypeOK'
    BY <1>1 DEF Build, Inv, TypeOK
  <2>. QED  BY <2>1, <2>2 DEF Inv
<1>2. CASE ResumeDeliveries
  <2>1. row' \in Delivery /\ row'.index = row.index /\ Sound(row')
    <3>1. [row EXCEPT !.due = "Now"] \in Delivery /\ row \in Delivery
      BY DEF Inv, TypeOK, Delivery
    <3>2. [row EXCEPT !.due = "Now"].index = row.index /\ Sound([row EXCEPT !.due = "Now"])
      BY <3>1 DEF Delivery, Inv, Core, Sound
    <3>. QED  BY <1>2, <3>1, <3>2 DEF ResumeDeliveries, Inv, Core
  <2>2. Core'
    BY <1>2, <2>1, Touched DEF ResumeDeliveries
  <2>3. TypeOK'
    BY <1>2, <2>1 DEF ResumeDeliveries, Inv, TypeOK
  <2>. QED  BY <2>2, <2>3 DEF Inv
<1>3. CASE Reconcile
  <2>1. overlap' \in BOOLEAN /\ (overlap => overlap')
        /\ (link' = "stamp" => overlap' \/ ~Others(NoPipe))
    BY <1>3 DEF Reconcile, Inv, TypeOK
  <2>2. Core'
    BY <1>3, <2>1, Quiet DEF Reconcile
  <2>3. TypeOK'
    BY <1>3, <2>1 DEF Reconcile, Inv, TypeOK
  <2>. QED  BY <2>2, <2>3 DEF Inv
<1>4. CASE StampOrphan
  <2>1. row' \in Delivery /\ row'.index = 0 /\ Sound(row')
    BY <1>4, PendingTyped DEF StampOrphan, Sound
  <2>2. Core'
    BY <1>4, <2>1, Touched DEF StampOrphan
  <2>3. TypeOK'
    BY <1>4, <2>1 DEF StampOrphan, Inv, TypeOK
  <2>. QED  BY <2>2, <2>3 DEF Inv
<1>. QED  BY <1>1, <1>2, <1>3, <1>4 DEF Connection

LEMMA FaultStep == ASSUME Inv, Drop \/ Crash PROVE Inv'
<1>1. left' \in [Bounds -> Nat]
  BY UseTyped DEF Drop, Crash, Inv, TypeOK, Bounds
<1>2. CASE Drop
  <2>1. Core'
    BY <1>2, Quiet DEF Drop, Inv, TypeOK
  <2>2. TypeOK'
    BY <1>1, <1>2 DEF Drop, Inv, TypeOK
  <2>. QED  BY <2>1, <2>2 DEF Inv
<1>3. CASE Crash
  <2>1. writer' \in [Writers -> Writer] /\ \A w \in Writers : writer'[w].at = "idle"
    BY <1>3, PendingTyped DEF Crash
  <2>2. TypeOK'
    BY <1>1, <1>3, <2>1 DEF Crash, Inv, TypeOK
  <2>3. Sound(row)' /\ (overlap' \/ Done(row.index)')
    BY <1>3 DEF Crash, Inv, Core, Sound, Done
  <2>4. \A w \in Writers : CopyOK(w)' /\ InStep(w)'
    BY <2>1 DEF CopyOK, InStep
  <2>. QED  BY <2>2, <2>3, <2>4 DEF Inv, Core
<1>. QED  BY <1>2, <1>3

\* A walk that goes on with its copy or with none.
LEMMA WalkStep ==
    ASSUME Inv, NEW w \in Walkers, Reload(w) \/ Skip(w) \/ AdapterTakes(w) \/ AdapterFails(w)
    PROVE  Inv'
<1>. DEFINE index == writer[w].seen.index
<1>1. w \in Writers /\ writer[w] \in Writer /\ index \in Nat /\ row \in Delivery
  BY DEF Writers, Inv, TypeOK, Writer, Delivery
<1>2. /\ writer[w].at # "idle"
      /\ given \subseteq given' /\ given' \subseteq Segments
      /\ UNCHANGED <<row, overlap, link>>
      /\ overlap' \in BOOLEAN /\ begun' \in BOOLEAN
  <2>1. given \subseteq given' /\ UNCHANGED <<row, overlap, link>> /\ writer[w].at # "idle"
    BY DEF Reload, Skip, AdapterTakes, AdapterFails
  <2>2. overlap' \in BOOLEAN
    BY <2>1 DEF Inv, TypeOK
  <2>3. CASE AdapterTakes(w)
    <3>1. given' \subseteq Segments
      <4>. DEFINE k == IF index < Tools THEN index ELSE Tools
      <4>1. k \in Segments
        BY <1>1, DeliveryAssumption DEF Segments
      <4>2. given' = given \cup {k}
        BY <2>3 DEF AdapterTakes
      <4>. HIDE DEF k
      <4>. QED  BY <4>1, <4>2 DEF Inv, TypeOK
    <3>2. begun' \in BOOLEAN
      BY <2>3 DEF AdapterTakes
    <3>. QED  BY <2>1, <2>2, <3>1, <3>2
  <2>4. CASE ~AdapterTakes(w)
    BY <2>1, <2>2, <2>4 DEF Reload, Skip, AdapterFails, Inv, TypeOK
  <2>. QED  BY <2>3, <2>4
<1>3. writer[w].at = "segment" => overlap \/ index = row.index
  BY <1>1, <1>2 DEF Inv, Core, InStep
<1>4. \E new : writer' = [writer EXCEPT ![w] = new] /\ PlaceOK(w, new)
  <2>1. CASE Reload(w)
    BY <1>1, <2>1, AttemptPlace DEF Reload
  <2>2. CASE Skip(w)
    <3>1. overlap' \/ row.index \in given' \cup Silent
      BY <1>2, <1>3, <2>2 DEF Skip
    <3>. QED  BY <1>1, <2>2, <3>1, RecordPlace DEF Skip, Record
  <2>3. CASE AdapterTakes(w)
    <3>1. CASE index < Tools
      <4>1. ToRecord(w, "progress") /\ index \in given'
        BY <2>3, <3>1 DEF AdapterTakes
      <4>2. overlap' \/ row.index \in given' \cup Silent
        BY <1>2, <1>3, <2>3, <4>1 DEF AdapterTakes
      <4>. QED  BY <1>1, <4>1, <4>2, RecordPlace DEF Record
    <3>2. CASE ~(index < Tools)
      <4>1. ToRecord(w, "complete") /\ Tools \in given'
        BY <2>3, <3>2 DEF AdapterTakes
      <4>. QED  BY <1>1, <4>1, RecordPlace DEF Record
    <3>. QED  BY <3>1, <3>2
  <2>4. CASE AdapterFails(w)
    <3>1. PICK r \in {"retry", "giveup"} : ToRecord(w, r)
      BY <2>4 DEF AdapterFails
    <3>. QED  BY <1>1, <3>1, RecordPlace DEF Record
  <2>. QED  BY <2>1, <2>2, <2>3, <2>4
<1>5. writer' \in [Writers -> Writer] /\ Core'
  BY <1>1, <1>2, <1>4, GoesOn
<1>6. left' \in [Bounds -> Nat]
  BY UseTyped DEF Reload, Skip, AdapterTakes, AdapterFails, Inv, TypeOK, Bounds
<1>7. UNCHANGED <<completed, announcing, pipeline, inbox, current, deaf>>
  BY DEF Reload, Skip, AdapterTakes, AdapterFails
<1>8. TypeOK'
  BY <1>2, <1>5, <1>6, <1>7 DEF Inv, TypeOK
<1>. QED  BY <1>5, <1>8 DEF Inv

LEMMA SendStep == ASSUME Inv, NEW w \in Walkers, SendContent(w) PROVE Inv'
<1>1. Core'
  BY Quiet DEF SendContent, Inv, TypeOK
<1>2. TypeOK'
  BY DEF SendContent, Inv, TypeOK
<1>. QED  BY <1>1, <1>2 DEF Inv

LEMMA PollStep == ASSUME Inv, Poll PROVE Inv'
<1>1. Poller \in Writers /\ row \in Delivery /\ writer[Poller] \in Writer
      /\ writer[Poller].seen \in Delivery
  BY DEF Writers, Walkers, Inv, TypeOK, Writer
<1>2. CASE FindDue
  <2>. DEFINE new == [IdleWriter EXCEPT !.at = "due", !.seen = row]
  <2>1. new \in Writer /\ new.at = "due" /\ new.seen = row /\ new.record = "None"
    BY <1>1, PendingTyped DEF Writer
  <2>2. writer' = [writer EXCEPT ![Poller] = new] /\ overlap' = (overlap \/ Others(Poller))
        /\ UNCHANGED <<row, given, link>>
    BY <1>2 DEF FindDue, Walk
  <2>. HIDE DEF new
  <2>3. PlaceOK(Poller, new) /\ overlap' \in BOOLEAN
    BY <2>1, <2>2 DEF PlaceOK
  <2>4. writer' \in [Writers -> Writer] /\ Core'
    BY <1>1, <2>2, <2>3, GoesOn DEF Inv, TypeOK
  <2>5. TypeOK'
    BY <1>2, <2>2, <2>3, <2>4 DEF FindDue, Inv, TypeOK
  <2>. QED  BY <2>4, <2>5 DEF Inv
<1>3. CASE FindAdapter
  <2>1. writer[Poller].at = "due" /\ UNCHANGED <<row, given, link, overlap>>
    BY <1>3 DEF FindAdapter
  <2>2. overlap' \/ writer[Poller].seen.index = row.index
    BY <1>1, <2>1 DEF Inv, Core, InStep
  <2>3. \E new : writer' = [writer EXCEPT ![Poller] = new] /\ PlaceOK(Poller, new)
    <3>1. CASE link = "down"
      BY <1>1, <1>3, <3>1, EmptyPlace DEF FindAdapter, At
    <3>2. CASE link # "down"
      BY <1>1, <1>3, <2>2, <3>2, AttemptPlace DEF FindAdapter
    <3>. QED  BY <3>1, <3>2
  <2>4. writer' \in [Writers -> Writer] /\ Core'
    BY <1>1, <2>1, <2>3, GoesOn DEF Inv, TypeOK
  <2>5. TypeOK'
    BY <1>3, <2>4 DEF FindAdapter, Inv, TypeOK
  <2>. QED  BY <2>4, <2>5 DEF Inv
<1>. QED  BY <1>2, <1>3 DEF Poll

LEMMA PipeStepKeeps == ASSUME Inv, NEW p \in Pipes, PipeStep(p) PROVE Inv'
<1>1. p \in Writers /\ writer[p] \in Writer /\ inbox[p] \in Nat /\ row \in Delivery
  BY DEF Writers, Walkers, Inv, TypeOK
<1>2. CASE Subscribe(p)
  <2>1. Core'
    BY <1>2, Quiet DEF Subscribe, Inv, TypeOK
  <2>2. TypeOK'
    BY <1>2 DEF Subscribe, Inv, TypeOK
  <2>. QED  BY <2>1, <2>2 DEF Inv
<1>3. CASE PipelineEnds(p)
  <2>1. Core'
    BY <1>3, Quiet DEF PipelineEnds, Inv, TypeOK
  <2>2. TypeOK'
    BY <1>3 DEF PipelineEnds, Inv, TypeOK
  <2>. QED  BY <2>1, <2>2 DEF Inv
<1>4. CASE TakeEvent(p)
  <2>1. inbox' \in [Pipes -> Nat]
    BY <1>1, <1>4 DEF TakeEvent, Inv, TypeOK
  <2>2. CASE UNCHANGED <<writer, overlap>>
    <3>1. Core'
      BY <1>4, <2>2, Quiet DEF TakeEvent, Inv, TypeOK
    <3>2. TypeOK'
      BY <1>4, <2>1, <2>2 DEF TakeEvent, Inv, TypeOK
    <3>. QED  BY <3>1, <3>2 DEF Inv
  <2>3. CASE Walk(p, "stamp", NoDelivery)
    <3>. DEFINE new == [IdleWriter EXCEPT !.at = "stamp", !.seen = NoDelivery]
    <3>1. new \in Writer /\ new.at = "stamp" /\ new.record = "None"
      BY PendingTyped DEF Writer
    <3>2. writer' = [writer EXCEPT ![p] = new]
          /\ overlap' = (overlap \/ Others(p)) /\ overlap' \in BOOLEAN
      BY <2>3 DEF Walk
    <3>3. UNCHANGED <<row, given, link>> /\ given' \subseteq Segments
      BY <1>4 DEF TakeEvent, Inv, TypeOK
    <3>. HIDE DEF new
    <3>4. PlaceOK(p, new)
      BY <3>1 DEF PlaceOK
    <3>5. writer' \in [Writers -> Writer] /\ Core'
      BY <1>1, <3>2, <3>3, <3>4, GoesOn
    <3>6. TypeOK'
      BY <1>4, <2>1, <3>2, <3>5 DEF TakeEvent, Inv, TypeOK
    <3>. QED  BY <3>5, <3>6 DEF Inv
  <2>. QED  BY <1>4, <2>2, <2>3 DEF TakeEvent
<1>5. CASE EnsureRead(p)
  <2>1. writer[p].at # "idle" /\ UNCHANGED <<row, given, link, overlap>>
    BY <1>5 DEF EnsureRead
  <2>2. \E new : writer' = [writer EXCEPT ![p] = new] /\ PlaceOK(p, new)
    BY <1>1, <1>5, EmptyPlace DEF EnsureRead, At
  <2>3. writer' \in [Writers -> Writer] /\ Core'
    BY <1>1, <2>1, <2>2, GoesOn DEF Inv, TypeOK
  <2>4. TypeOK'
    BY <1>5, <2>3 DEF EnsureRead, Inv, TypeOK
  <2>. QED  BY <2>3, <2>4 DEF Inv
<1>6. CASE EnsureWrite(p)
  <2>1. row' \in Delivery /\ Sound(row') /\ Done(row'.index)
    BY <1>6, PendingTyped DEF EnsureWrite, Sound, Done, Segments
  <2>2. writer' \in [Writers -> Writer] /\ Core'
    BY <1>1, <1>6, <2>1, Writes DEF EnsureWrite
  <2>3. TypeOK'
    BY <1>6, <2>1, <2>2 DEF EnsureWrite, Inv, TypeOK
  <2>. QED  BY <2>2, <2>3 DEF Inv
<1>. QED  BY <1>2, <1>3, <1>4, <1>5, <1>6 DEF PipeStep

LEMMA RecordStep == ASSUME Inv, NEW w \in Writers, RecordWrite(w) PROVE Inv'
<1>. DEFINE d == writer[w].seen
            r == writer[w].record
<1>1. d \in Delivery /\ r \in Record \ {"None"} /\ writer[w].at = "write" /\ Sound(d)
      /\ (r = "complete" => Tools \in given)
  BY DEF RecordWrite, Inv, TypeOK, Writer, Core, CopyOK
<1>2. row' = Recorded(d, r) /\ At(w, IF r = "progress" THEN "reload" ELSE "idle")
      /\ UNCHANGED <<given, overlap, link>>
  BY DEF RecordWrite
<1>3. overlap \/ (d.index = row.index /\ Done(row.index)
                  /\ (r = "progress" => row.index \in given \cup Silent))
  BY <1>1 DEF Inv, Core, InStep
<1>. HIDE DEF d, r
<1>4. row' \in Delivery
  BY <1>1, <1>2, RecordedTyped, DeliveryAssumption
<1>5. Sound(row')
  BY <1>1, <1>2, RecordedFields DEF Sound
<1>6. overlap \/ Done(row'.index)
  <2>1. row'.index = IF r = "progress" THEN d.index + 1 ELSE d.index
    BY <1>1, <1>2, RecordedFields
  <2>2. d.index \in Nat /\ Tools \in Nat
    BY <1>1, DeliveryAssumption DEF Delivery
  <2>. QED  BY <1>3, <2>1, <2>2 DEF Done, Segments
<1>7. writer' \in [Writers -> Writer] /\ Core'
  BY <1>1, <1>2, <1>4, <1>5, <1>6, Writes
<1>8. TypeOK'
  BY <1>4, <1>7 DEF RecordWrite, Inv, TypeOK
<1>. QED  BY <1>7, <1>8 DEF Inv

LEMMA BackoffStep == ASSUME Inv, BackoffElapses PROVE Inv'
<1>1. [row EXCEPT !.due = "Now"] \in Delivery /\ row \in Delivery
  BY DEF Inv, TypeOK, Delivery
<1>2. [row EXCEPT !.due = "Now"].index = row.index /\ Sound([row EXCEPT !.due = "Now"])
  BY <1>1 DEF Delivery, Inv, Core, Sound
<1>3. Core'
  BY <1>1, <1>2, Touched DEF BackoffElapses
<1>4. TypeOK'
  BY <1>1 DEF BackoffElapses, Inv, TypeOK
<1>. QED  BY <1>3, <1>4 DEF Inv

LEMMA StutterStep == ASSUME Inv, UNCHANGED deliveryVars PROVE Inv'
<1>1. Core'
  BY Quiet DEF deliveryVars, Inv, TypeOK
<1>2. TypeOK'
  BY DEF deliveryVars, Inv, TypeOK
<1>. QED  BY <1>1, <1>2 DEF Inv

-----------------------------------------------------------------------------
\* Every copy of the row that is about to be written back is as sound as the
\* row, and while the row has one writer at a time it is in step with it.
THEOREM DeliveryInvariant == Spec => []Inv
<1>1. Inv /\ [Next]_deliveryVars => Inv'
  <2>. SUFFICES ASSUME Inv, [Next]_deliveryVars PROVE Inv'
    OBVIOUS
  <2>1. CASE Complete \/ Announce
    BY <2>1, MessageStep
  <2>2. CASE Request
    BY <2>2, RequestStep
  <2>3. CASE Connection
    BY <2>3, ConnectionStep
  <2>4. CASE Drop \/ Crash
    BY <2>4, FaultStep
  <2>5. CASE \E p \in Pipes : PipeStep(p)
    BY <2>5, PipeStepKeeps
  <2>6. CASE Poll
    BY <2>6, PollStep
  <2>7. CASE \E w \in Writers : WriterStep(w)
    BY <2>7, WalkStep, SendStep, RecordStep DEF WriterStep
  <2>8. CASE BackoffElapses
    BY <2>8, BackoffStep
  <2>9. CASE UNCHANGED deliveryVars
    BY <2>9, StutterStep
  <2>. QED  BY <2>1, <2>2, <2>3, <2>4, <2>5, <2>6, <2>7, <2>8, <2>9 DEF Next
<1>. QED  BY <1>1, InitInv, PTL DEF Spec

\* Type correctness: no cursor or count of the delivery leaves its range.
THEOREM DeliveryTypeCorrect == Spec => []TypeOK
<1>1. Inv => TypeOK
  BY DEF Inv
<1>. QED  BY <1>1, DeliveryInvariant, PTL

\* A pending message never drops out of the poller's sight, however stale the
\* copies that are written over its row (record_*, update_message_metadata).
THEOREM PendingStaysDue == Spec => []PendingIsDue
<1>1. Inv => PendingIsDue
  BY DEF Inv, Core, Sound, PendingIsDue
<1>. QED  BY <1>1, DeliveryInvariant, PTL

\* No message is marked sent whose content the adapter never took.
THEOREM SentWasAlwaysGiven == Spec => []SentWasGiven
<1>1. Inv => SentWasGiven
  BY DEF Inv, Core, Sound, SentWasGiven
<1>. QED  BY <1>1, DeliveryInvariant, PTL

\* A row with one writer at a time has no gap: connections that are lost in the
\* middle of a walk, crashes and retries do not skip a segment.
THEOREM NoGapWithoutOverlap == Spec => []NoGapAlone
<1>1. Inv => NoGapAlone
  BY DEF Inv, Core, Done, NoGapAlone
<1>. QED  BY <1>1, DeliveryInvariant, PTL

=============================================================================
