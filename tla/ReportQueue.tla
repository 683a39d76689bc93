---------------------------- MODULE ReportQueue ----------------------------
(***************************************************************************)
(* The reports on their way to the cloud. The sensor task and the MQTT       *)
(* thread take a block from the FreeRTOS heap, fill it in and hand its        *)
(* address to mqtt_send through MQTT_Data_Queue; whoever cannot hand a block  *)
(* on frees it. A block is one mqtt_report_t; of its text the model keeps     *)
(* what it reports.                                                           *)
(***************************************************************************)
EXTENDS Integers, Sequences

CONSTANTS
  Blocks,    \* places of a mqtt_report_t in the heap
  NoBlock,   \* no report in hand
  QueueLen   \* CLOUD_QUEUE_LEN

ASSUME ReportAssumption == NoBlock \notin Blocks /\ QueueLen \in Nat \ {0}

VARIABLES
  heap,    \* the blocks that are allocated
  queue,   \* MQTT_Data_Queue
  sensor,  \* the report in Sensor_Task's hand
  sender,  \* the report in mqtt_send's hand
  what,    \* what the text of each block reports: "property" or "event"
  type     \* report->type: an event is the value 1, anything else a property

reports == <<heap, queue, sensor, sender, what, type>>

Kinds == {"property", "event"}
Queued == {queue[i] : i \in DOMAIN queue}

ReportTypeOK ==
  /\ heap \subseteq Blocks
  /\ queue \in Seq(Blocks) /\ Len(queue) <= QueueLen
  /\ sensor \in Blocks \cup {NoBlock} /\ sender \in Blocks \cup {NoBlock}
  /\ what \in [Blocks -> Kinds] /\ type \in [Blocks -> Kinds]

\* The heap starts as zeros.
ReportInit ==
  /\ heap = {} /\ queue = <<>> /\ sensor = NoBlock /\ sender = NoBlock
  /\ what = [b \in Blocks |-> "property"] /\ type = [b \in Blocks |-> "property"]

\* What is written into block b for a report: only mqtt_post_event sets the
\* type. pvPortMalloc and vPortFree leave the byte alone.
Filled(b, kind) ==
  /\ what' = [what EXCEPT ![b] = kind]
  /\ type' = [type EXCEPT ![b] = IF kind = "event" THEN "event" ELSE @]

-----------------------------------------------------------------------------
(* Sensor_Task: cloud_manager_send_message, cloud_smoke_alarm_post and        *)
(* cloud_manager_post_event. The tasks that use the queue run at a higher     *)
(* priority and may come between any two steps. When pvPortMalloc fails the   *)
(* report is not made and nothing changes.                                    *)

SensorAllocates(kind) ==
  /\ sensor = NoBlock
  /\ \E b \in Blocks \ heap :
       /\ heap' = heap \cup {b} /\ sensor' = b
       /\ Filled(b, kind)
  /\ UNCHANGED <<queue, sender>>

\* Mutant of SensorPosts: a full queue loses the block.
SensorPostsLeaks ==
  /\ sensor # NoBlock
  /\ queue' = IF Len(queue) < QueueLen THEN Append(queue, sensor) ELSE queue
  /\ sensor' = NoBlock
  /\ UNCHANGED <<heap, sender, what, type>>

\* Mutant of SensorPosts: the block is freed although the queue took it.
SensorPostsFrees ==
  /\ sensor # NoBlock
  /\ queue' = IF Len(queue) < QueueLen THEN Append(queue, sensor) ELSE queue
  /\ sensor' = NoBlock /\ heap' = heap \ {sensor}
  /\ UNCHANGED <<sender, what, type>>

SensorPosts ==
  /\ sensor # NoBlock
  /\ \/ /\ Len(queue) < QueueLen
        /\ queue' = Append(queue, sensor) /\ heap' = heap
     \/ /\ Len(queue) = QueueLen
        /\ queue' = queue /\ heap' = heap \ {sensor}
  /\ sensor' = NoBlock
  /\ UNCHANGED <<sender, what, type>>

-----------------------------------------------------------------------------
(* mqtt_post_event in the MQTT thread, above the sensor task's priority: the  *)
(* event is queued, or there is no memory or no room and it is dropped; a     *)
(* block that was filled and freed again keeps what was written to it.        *)

EventQueued(b) ==
  /\ Len(queue) < QueueLen
  /\ heap' = heap \cup {b} /\ queue' = Append(queue, b)

EventDropped ==
  /\ Len(queue) = QueueLen
  /\ UNCHANGED <<heap, queue>>

PostEvent ==
  /\ \/ \E b \in Blocks \ heap : Filled(b, "event") /\ (EventQueued(b) \/ EventDropped)
     \/ UNCHANGED <<heap, queue, what, type>>
  /\ UNCHANGED <<sensor, sender>>

-----------------------------------------------------------------------------
(* mqtt_send.                                                                 *)

Receives ==
  /\ sender = NoBlock /\ queue # <<>>
  /\ sender' = Head(queue) /\ queue' = Tail(queue)
  /\ UNCHANGED <<heap, sensor, what, type>>

\* vPortFree, after the report was published or dropped.
Frees ==
  /\ sender # NoBlock
  /\ heap' = heap \ {sender} /\ sender' = NoBlock
  /\ UNCHANGED <<queue, sensor, what, type>>

Topic(b) == IF type[b] = "event" THEN "event" ELSE "property"

\* Another user of the heap has the place for a while. cJSON's nodes and texts
\* and the kernel's objects begin with an aligned address or a character, which
\* is never the value of MQTT_REPORT_EVENT.
OtherUse(b) ==
  /\ b \notin heap
  /\ type' = [type EXCEPT ![b] = "property"]
  /\ UNCHANGED <<heap, queue, sensor, sender, what>>

-----------------------------------------------------------------------------
(* Properties.                                                                *)

\* Every block that is allocated is in exactly one place: once in the queue or
\* in the hand of one task, whatever was full when it was handed on. So no
\* report is lost from the heap and none is freed or sent twice
\* (cloud_manager.c:373, mqttclient.c:952, 1005).
BlocksAccounted ==
  /\ heap = Queued \cup ({sensor, sender} \ {NoBlock})
  /\ \A i, j \in DOMAIN queue : queue[i] = queue[j] => i = j
  /\ {sensor, sender} \cap Queued = {}
  /\ sensor = sender => sensor = NoBlock

\* The reports that were handed over, as they are written, in the order in which they
\* are sent: the one in mqtt_send's hand and those in the queue.
Line == IF sender = NoBlock THEN queue ELSE <<sender>> \o queue
Written == [i \in DOMAIN Line |-> <<what[Line[i]], type[Line[i]]>>]

\* A report that was handed over keeps its place and what is written in it until it is
\* sent or dropped at the front: blocks that are taken, given back and used again
\* around it do not touch it (cloud_manager.c:373, mqttclient.c:952, 973).
ReportsKeepPlace ==
  [][\/ Written' = Written
     \/ \E r \in Kinds \X Kinds : Written' = Append(Written, r)
     \/ Written # <<>> /\ Written' = Tail(Written)]_reports

\* A property report goes to thing/property/post and an event to
\* thing/event/post (mqttclient.h:108, mqttclient.c:988).
RightTopic == sender # NoBlock => Topic(sender) = what[sender]
=============================================================================
