------------------------------ MODULE Delivery ------------------------------
(***************************************************************************)
(* The delivery of one completed agent message to the channel of its chat. *)
(* The message goes out in segments, the texts of its tool calls and then  *)
(* its content; a cursor in the row of the message says which are done.    *)
(* Several walks of the segments share the row: the pipeline of the        *)
(* channel's connection, which hears that the message was completed, the   *)
(* pipeline of an earlier connection that has not ended yet, and the       *)
(* scheduler's poller of due deliveries.  Each of their records, and the   *)
(* requests of others, which are the carrier's report and an edit of the   *)
(* message's metadata, reads the row and writes it back whole, in two      *)
(* steps.                                                                  *)
(*                                                                         *)
(* How a connection comes and goes is in Channels; here it is lost and     *)
(* built again.  Questions to a human, which a completed message has       *)
(* behind it, count as segments without a text.                            *)
(***************************************************************************)
EXTENDS Integers, FiniteSets

CONSTANTS
    Tools,              \* the number of tool calls of the message
    Silent,             \* those without a text
    Pipes, NoPipe,      \* pipelines (a pool of identifiers)
    Poller, Api,        \* the scheduler's walk and one request
    MaxAttempts,        \* DELIVERY_MAX_ATTEMPTS
    MaxRequests,        \* bound: reports of the carrier and edits together
    MaxFaults           \* bound: failed sends, lost connections and crashes together

Walkers == Pipes \cup {Poller}
Writers == Walkers \cup {Api}
Segments == 0 .. Tools          \* the last one is the content

ASSUME DeliveryAssumption ==
    /\ Tools \in Nat /\ Silent \subseteq 0 .. Tools - 1
    /\ Poller \notin Pipes /\ Api \notin Pipes /\ Poller # Api
    /\ NoPipe \notin Pipes \cup {Poller, Api}
    /\ MaxAttempts \in Nat \ {0}
    /\ MaxRequests \in Nat /\ MaxFaults \in Nat

VARIABLES
    completed,    \* the message is stored with the status Completed
    announcing,   \* ... and whoever wrote it is about to broadcast that
    row,          \* the delivery field of its row
    writer,       \* where each walk is, and the request
    pipeline,     \* what became of each pipeline
    inbox,        \* the events it was sent and has not taken
    current,      \* the pipeline of the current connection attempt
    link,         \* how far that attempt is
    given,        \* history: the segments the adapter took
    begun,        \* history: the adapter was called with the content
    overlap,      \* history: the row had two writers at once
    deaf,         \* history: an event came after the reconciliation and
                  \* before the pipeline subscribed
    left          \* what is left of each bound

deliveryVars == <<completed, announcing, row, writer, pipeline, inbox, current, link,
                  given, begun, overlap, deaf, left>>

Delivery == [state : {"None", "Pending", "Sent", "Delivered", "Failed"}, attempts : Nat,
             due : {"None", "Later", "Now"}, index : Nat]
NoDelivery == [state |-> "None", attempts |-> 0, due |-> "None", index |-> 0]
\* MessageDelivery::pending
PendingDelivery == [NoDelivery EXCEPT !.state = "Pending", !.due = "Now"]
Record == {"None", "progress", "complete", "retry", "giveup",
           "delivered", "undelivered", "edit"}
Writer == [at : {"idle", "stamp", "stampwrite", "due", "reload", "segment", "write"},
           seen : Delivery, record : Record]
IdleWriter == [at |-> "idle", seen |-> NoDelivery, record |-> "None"]
Bounds == {"requests", "faults"}
Limit(b) == IF b = "requests" THEN MaxRequests ELSE MaxFaults

TypeOK ==
    /\ completed \in BOOLEAN /\ announcing \in BOOLEAN
    /\ row \in Delivery
    /\ writer \in [Writers -> Writer]
    /\ pipeline \in [Pipes -> {"off", "spawned", "on"}]
    /\ inbox \in [Pipes -> Nat]
    /\ current \in Pipes \cup {NoPipe}
    /\ link \in {"down", "handshake", "reconcile", "stamp", "up"}
    /\ given \subseteq Segments
    /\ begun \in BOOLEAN /\ overlap \in BOOLEAN /\ deaf \in BOOLEAN
    /\ left \in [Bounds -> Nat]

Init ==
    /\ completed = FALSE /\ announcing = FALSE
    /\ row = NoDelivery
    /\ writer = [w \in Writers |-> IdleWriter]
    /\ pipeline = [p \in Pipes |-> "off"]
    /\ inbox = [p \in Pipes |-> 0]
    /\ current = NoPipe /\ link = "down"
    /\ given = {} /\ begun = FALSE /\ overlap = FALSE /\ deaf = FALSE
    /\ left = [b \in Bounds |-> Limit(b)]

-----------------------------------------------------------------------------
\* A writer of the row other than w, or, with NoPipe for w, any.
Others(w) == link = "stamp" \/ \E v \in Writers \ {w} : writer[v].at # "idle"
Use(b) == left[b] > 0 /\ left' = [left EXCEPT ![b] = @ - 1]
At(w, place) == writer' = [writer EXCEPT ![w] = [IdleWriter EXCEPT !.at = place]]
\* A walk begins.
Walk(w, place, seen) ==
    /\ writer' = [writer EXCEPT ![w] = [IdleWriter EXCEPT !.at = place, !.seen = seen]]
    /\ overlap' = (overlap \/ Others(w))
\* A record, from the read of the row on.  It needs a delivery to change; an
\* edit does not look.
ToRecord(w, r) ==
    writer' = [writer EXCEPT ![w] =
        IF row.state # "None" \/ r = "edit" THEN [at |-> "write", seen |-> row, record |-> r]
        ELSE [IdleWriter EXCEPT !.at = IF r = "progress" THEN "reload" ELSE "idle"]]
\* attempt_send of the segment under the cursor, as the walk's copy has it.
Attempt(w, seen) ==
    IF seen.state \in {"None", "Sent", "Delivered"} THEN At(w, "idle")
    ELSE writer' = [writer EXCEPT ![w] = [IdleWriter EXCEPT !.at = "segment", !.seen.index = seen.index]]
Hear ==
    /\ inbox' = [p \in Pipes |-> IF pipeline[p] = "on" THEN inbox[p] + 1 ELSE inbox[p]]
    /\ deaf' = (deaf \/ (link \in {"stamp", "up"} /\ pipeline[current] = "spawned"))

(* The message.                                                            *)
Complete ==
    /\ ~completed
    /\ completed' = TRUE /\ announcing' = TRUE
    /\ UNCHANGED <<row, writer, pipeline, inbox, current, link, given, begun, overlap, deaf, left>>

Announce ==
    /\ announcing
    /\ announcing' = FALSE
    /\ Hear
    /\ UNCHANGED <<completed, row, writer, pipeline, current, link, given, begun, overlap, left>>

\* record_carrier_status from the carrier's callback, and
\* update_message_metadata or patch_message_metadata.
Request ==
    /\ writer[Api].at = "idle" /\ completed /\ ~announcing /\ Use("requests")
    /\ \E r \in (IF begun THEN {"delivered", "undelivered"} ELSE {}) \cup {"edit"} : ToRecord(Api, r)
    /\ overlap' = (overlap \/ Others(Api))
    /\ UNCHANGED <<completed, announcing, row, pipeline, inbox, current, link, given, begun, deaf>>

-----------------------------------------------------------------------------
(* The connection.                                                         *)

\* build_attempt spawns the pipeline; the adapter is published right away.
Build(p) ==
    /\ link = "down" /\ pipeline[p] = "off"
    /\ link' = "handshake" /\ current' = p
    /\ pipeline' = [pipeline EXCEPT ![p] = "spawned"]
    /\ UNCHANGED <<completed, announcing, row, writer, inbox, given, begun, overlap, deaf, left>>

Subscribe(p) ==
    /\ pipeline[p] = "spawned"
    /\ pipeline' = [pipeline EXCEPT ![p] = "on"]
    /\ UNCHANGED <<completed, announcing, row, writer, inbox, current, link, given, begun,
                   overlap, deaf, left>>

\* The adapter says Connected, and resume_deliveries.
ResumeDeliveries ==
    /\ link = "handshake"
    /\ row' = IF completed /\ row.state \notin {"None", "Sent"} /\ row.due # "None"
              THEN [row EXCEPT !.due = "Now"] ELSE row
    /\ link' = "reconcile"
    /\ UNCHANGED <<completed, announcing, writer, pipeline, inbox, current, given, begun,
                   overlap, deaf, left>>

\* Variant: the connection looks for no message that nobody stamped.
ReconcileNothing ==
    /\ link = "reconcile"
    /\ link' = "up"
    /\ UNCHANGED <<completed, announcing, row, writer, pipeline, inbox, current, given, begun,
                   overlap, deaf, left>>

\* reconcile_message_delivery, and the read of ensure_pending_delivery.
Reconcile ==
    /\ link = "reconcile"
    /\ IF completed /\ row.state = "None"
       THEN link' = "stamp" /\ overlap' = (overlap \/ Others(NoPipe))
       ELSE link' = "up" /\ UNCHANGED overlap
    /\ UNCHANGED <<completed, announcing, row, writer, pipeline, inbox, current, given, begun,
                   deaf, left>>

StampOrphan ==
    /\ link = "stamp"
    /\ row' = PendingDelivery
    /\ link' = "up"
    /\ UNCHANGED <<completed, announcing, writer, pipeline, inbox, current, given, begun,
                   overlap, deaf, left>>

\* The attempt ends.  A pipeline notices between two events.
Drop ==
    /\ link \in {"handshake", "up"} /\ Use("faults")
    /\ link' = "down" /\ current' = NoPipe
    /\ UNCHANGED <<completed, announcing, row, writer, pipeline, inbox, given, begun, overlap, deaf>>

PipelineEnds(p) ==
    /\ p # current /\ pipeline[p] # "off" /\ writer[p].at = "idle"
    /\ pipeline' = [pipeline EXCEPT ![p] = "off"]
    /\ inbox' = [inbox EXCEPT ![p] = 0]
    /\ UNCHANGED <<completed, announcing, row, writer, current, link, given, begun, overlap, deaf, left>>

Crash ==
    /\ Use("faults")
    /\ writer' = [w \in Writers |-> IdleWriter]
    /\ pipeline' = [p \in Pipes |-> "off"]
    /\ inbox' = [p \in Pipes |-> 0]
    /\ current' = NoPipe /\ link' = "down" /\ announcing' = FALSE
    /\ UNCHANGED <<completed, row, given, begun, overlap, deaf>>

-----------------------------------------------------------------------------
(* Walks of the segments.                                                  *)

\* handle_outbound_event reads the message first.
TakeEvent(p) ==
    /\ pipeline[p] = "on" /\ inbox[p] > 0 /\ writer[p].at = "idle"
    /\ inbox' = [inbox EXCEPT ![p] = @ - 1]
    /\ IF row.state \in {"Sent", "Failed"} THEN UNCHANGED <<writer, overlap>> ELSE Walk(p, "stamp", NoDelivery)
    /\ UNCHANGED <<completed, announcing, row, pipeline, current, link, given, begun, deaf, left>>

\* ensure_pending_delivery: the read, and the write of what was missing.
EnsureRead(p) ==
    /\ writer[p].at = "stamp"
    /\ At(p, IF row.state = "None" THEN "stampwrite" ELSE "reload")
    /\ UNCHANGED <<completed, announcing, row, pipeline, inbox, current, link, given, begun,
                   overlap, deaf, left>>

EnsureWrite(p) ==
    /\ writer[p].at = "stampwrite"
    /\ row' = PendingDelivery
    /\ At(p, "reload")
    /\ UNCHANGED <<completed, announcing, pipeline, inbox, current, link, given, begun,
                   overlap, deaf, left>>

\* find_due_deliveries: != sent.
FindDue ==
    /\ writer[Poller].at = "idle"
    /\ completed /\ row.state \notin {"None", "Sent"} /\ row.due = "Now"
    /\ Walk(Poller, "due", row)
    /\ UNCHANGED <<completed, announcing, row, pipeline, inbox, current, link, given, begun, deaf, left>>

\* running_adapter: none while there is no attempt.
FindAdapter ==
    /\ writer[Poller].at = "due"
    /\ IF link = "down" THEN At(Poller, "idle") ELSE Attempt(Poller, writer[Poller].seen)
    /\ UNCHANGED <<completed, announcing, row, pipeline, inbox, current, link, given, begun,
                   overlap, deaf, left>>

Reload(w) ==
    /\ writer[w].at = "reload"
    /\ Attempt(w, row)
    /\ UNCHANGED <<completed, announcing, row, pipeline, inbox, current, link, given, begun,
                   overlap, deaf, left>>

\* A tool call without a text.
Skip(w) ==
    /\ writer[w].at = "segment" /\ writer[w].seen.index \in Silent
    /\ ToRecord(w, "progress")
    /\ UNCHANGED <<completed, announcing, row, pipeline, inbox, current, link, given, begun,
                   overlap, deaf, left>>

\* A carrier can report on the first part of the content before the adapter is
\* done with the last.
SendContent(w) ==
    /\ writer[w].at = "segment" /\ writer[w].seen.index >= Tools /\ ~begun
    /\ begun' = TRUE
    /\ UNCHANGED <<completed, announcing, row, writer, pipeline, inbox, current, link, given,
                   overlap, deaf, left>>

\* Variant: the last tool call is taken for the content.
AdapterTakesShort(w) ==
    LET index == writer[w].seen.index IN
    /\ writer[w].at = "segment" /\ index \notin Silent
    /\ given' = given \cup {IF index < Tools THEN index ELSE Tools}
    /\ begun' = (begun \/ index >= Tools)
    /\ ToRecord(w, IF index + 1 < Tools THEN "progress" ELSE "complete")
    /\ UNCHANGED <<completed, announcing, row, pipeline, inbox, current, link, overlap, deaf, left>>

\* on_tool or on_send.
AdapterTakes(w) ==
    LET index == writer[w].seen.index IN
    /\ writer[w].at = "segment" /\ index \notin Silent
    /\ given' = given \cup {IF index < Tools THEN index ELSE Tools}
    /\ begun' = (begun \/ index >= Tools)
    /\ ToRecord(w, IF index < Tools THEN "progress" ELSE "complete")
    /\ UNCHANGED <<completed, announcing, row, pipeline, inbox, current, link, overlap, deaf, left>>

AdapterFails(w) ==
    /\ writer[w].at = "segment" /\ writer[w].seen.index \notin Silent /\ Use("faults")
    /\ \E r \in {"retry", "giveup"} : ToRecord(w, r)
    /\ UNCHANGED <<completed, announcing, row, pipeline, inbox, current, link, given, begun,
                   overlap, deaf>>

\* record_segment_progress
Progressed(d) == [d EXCEPT !.index = @ + 1, !.due = "Now"]

\* record_segment_complete
Finished(d) == [d EXCEPT !.state = "Sent", !.due = "None"]

\* Variants: a failure moves on to the next segment, or back to the one before.
FailedOnwards(d, terminal) ==
    [d EXCEPT !.state = "Failed", !.attempts = @ + 1, !.index = @ + 1,
              !.due = IF terminal \/ d.attempts + 1 >= MaxAttempts THEN "None" ELSE "Later"]
FailedBackwards(d, terminal) ==
    [d EXCEPT !.state = "Failed", !.attempts = @ + 1, !.index = @ - 1,
              !.due = IF terminal \/ d.attempts + 1 >= MaxAttempts THEN "None" ELSE "Later"]

\* record_segment_failure
Failed(d, terminal) ==
    [d EXCEPT !.state = "Failed", !.attempts = @ + 1,
              !.due = IF terminal \/ d.attempts + 1 >= MaxAttempts THEN "None" ELSE "Later"]

\* record_carrier_status
Reported(d, delivered) ==
    IF delivered THEN [d EXCEPT !.state = "Delivered"]
    ELSE [d EXCEPT !.state = "Failed", !.due = "None"]

Recorded(d, r) ==
    CASE r = "progress" -> Progressed(d)
      [] r = "complete" -> Finished(d)
      [] r \in {"retry", "giveup"} -> Failed(d, r = "giveup")
      [] r \in {"delivered", "undelivered"} -> Reported(d, r = "delivered")
      [] r = "edit" -> d

RecordWrite(w) ==
    /\ writer[w].at = "write"
    /\ row' = Recorded(writer[w].seen, writer[w].record)
    /\ announcing' = (announcing \/ writer[w].record = "edit")
    /\ At(w, IF writer[w].record = "progress" THEN "reload" ELSE "idle")
    /\ UNCHANGED <<completed, pipeline, inbox, current, link, given, begun, overlap, deaf, left>>

\* The backoff of a failed attempt is over.
BackoffElapses ==
    /\ row.due = "Later"
    /\ row' = [row EXCEPT !.due = "Now"]
    /\ UNCHANGED <<completed, announcing, writer, pipeline, inbox, current, link, given, begun,
                   overlap, deaf, left>>

-----------------------------------------------------------------------------
PipeStep(p) == Subscribe(p) \/ TakeEvent(p) \/ EnsureRead(p) \/ EnsureWrite(p) \/ PipelineEnds(p)
Poll == FindDue \/ FindAdapter
Connection == (\E p \in Pipes : Build(p)) \/ ResumeDeliveries \/ Reconcile \/ StampOrphan
WriterStep(w) ==
    \/ w \in Walkers /\ (Reload(w) \/ Skip(w) \/ SendContent(w) \/ AdapterTakes(w) \/ AdapterFails(w))
    \/ RecordWrite(w)

Next ==
    \/ Complete \/ Announce \/ Request
    \/ Connection \/ Drop \/ Crash
    \/ \E p \in Pipes : PipeStep(p)
    \/ Poll
    \/ \E w \in Writers : WriterStep(w)
    \/ BackoffElapses

Spec == Init /\ [][Next]_deliveryVars

\* Futures that run go on, the channel is connected again, the poller polls.
FairSpec ==
    /\ Spec
    /\ WF_deliveryVars(Announce) /\ WF_deliveryVars(Connection) /\ WF_deliveryVars(Poll)
    /\ WF_deliveryVars(BackoffElapses)
    /\ \A p \in Pipes : WF_deliveryVars(PipeStep(p))
    /\ \A w \in Writers : WF_deliveryVars(WriterStep(w))

-----------------------------------------------------------------------------
\* A message that waits for delivery is always one the poller will find,
\* whoever wrote the row last (find_due_deliveries asks for a next_attempt_at).
PendingIsDue == row.state = "Pending" => row.due # "None"

\* Whatever connections, crashes and failures come in between, the cursor never
\* gets ahead of the adapter, as long as the row has one writer at a time.
NoGapAlone == overlap \/ \A i \in Segments : i < row.index => i \in given \cup Silent

\* A message is marked sent only when the adapter took its content.
SentWasGiven == row.state = "Sent" => Tools \in given

\* A completed message is sent in the end, or has failed for good, unless its
\* event fell between the reconciliation and the subscription.
CompletedGetsOut ==
    completed ~> \/ row.state \in {"Sent", "Delivered"}
                 \/ row.state = "Failed" /\ row.due = "None"
                 \/ deaf

\* "Cursor: `0..tool_count` walks each tool call's `turn_text`": a message that
\* was sent had all its texts sent.
SentIsWhole == row.state = "Sent" => \A i \in Segments : i \in given \cup Silent
=============================================================================
