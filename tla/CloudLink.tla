------------------------------ MODULE CloudLink ------------------------------
(***************************************************************************)
(* The cloud connection: Sensor_Task and the MQTT thread feed the queue of    *)
(* reports, mqtt_send empties it over the connection that the MQTT thread     *)
(* opens and closes, and the platform sets the LED.                           *)
(***************************************************************************)
EXTENDS ReportQueue, MqttClient

vars == <<reports, mqtt>>

TypeOK == ReportTypeOK /\ MqttTypeOK

Init == ReportInit /\ MqttInit

SensorReports(kind) == SensorAllocates(kind) /\ UNCHANGED mqtt
SensorQueues == SensorPosts /\ UNCHANGED mqtt
SendReceives == Receives /\ UNCHANGED mqtt
HeapUse(b) == OtherUse(b) /\ UNCHANGED mqtt

\* The report is dropped: an update goes on (FW_UPG_GetState) or s_connected
\* is 0.
SendDrops == Frees /\ UNCHANGED mqtt

\* The report is published; nothing of higher priority runs between the look at
\* s_connected and the write. The platform may answer it.
SendPublishes ==
  /\ s_connected
  /\ Frees
  /\ \/ toDev' = toDev
     \/ conn = "open" /\ Len(toDev) < LineCap /\ toDev' = Append(toDev, Reply)
  /\ UNCHANGED <<mt, s_connected, PacketID, conn, subs, led, desired>>

\* The MQTT thread. A message about the LED is followed by an event.
Connects ==
  /\ Open \/ LoggedIn \/ Subscribed \/ Online \/ ConnectFails
  /\ UNCHANGED reports

Reads ==
  /\ Handles
  /\ IF Head(toDev).kind = "led" THEN PostEvent ELSE UNCHANGED reports

Pings ==
  /\ Ping
  /\ UNCHANGED reports

Ends ==
  /\ Pong \/ PingFails \/ ReadFails \/ GoOffline \/ Close
  /\ UNCHANGED reports

Environment ==
  /\ CannotAck \/ SetDesired
  /\ UNCHANGED reports

Fault ==
  /\ Break \/ GivesUp
  /\ UNCHANGED reports

Next ==
  \/ \E kind \in Kinds : SensorReports(kind)
  \/ SensorQueues \/ SendReceives \/ SendDrops \/ SendPublishes
  \/ \E b \in Blocks : HeapUse(b)
  \/ Connects \/ Reads \/ Pings \/ Ends \/ Environment \/ Fault

Spec == Init /\ [][Next]_vars

\* A task that can run does: the MQTT thread handles what has come and goes on
\* with its connection, the other two hand their report on.
Fairness ==
  /\ WF_vars(Connects) /\ WF_vars(Reads) /\ WF_vars(Ends)
  /\ WF_vars(SensorQueues) /\ WF_vars(SendReceives) /\ WF_vars(SendDrops)

FairSpec == Spec /\ Fairness

-----------------------------------------------------------------------------
(* Properties.                                                                *)

\* While mqtt_is_connected says yes there is a socket, and on this connection
\* every topic has been subscribed: no report is written to a socket that is
\* closed or that has not logged in yet (mqttclient.c:809, 912, 986).
OnlineMeansSubscribed == s_connected => conn # "closed" /\ subs = TopicCount

\* The LED is what the user wants whenever the connection stands and no message
\* about it is under way, whatever was lost while it did not: set messages that
\* came while the device was offline or waited for another packet are made up
\* for by the desired/get of the next login (mqttclient.c:811).
LedFollows ==
  (s_connected /\ conn = "open" /\ mt = "run" /\ desired # NoValue
     /\ \A i \in DOMAIN toDev : toDev[i].kind # "led")
    => led = desired

\* Once the line and the broker stay well the device is online again and again,
\* as long as there are packet identifiers: messages that fall between a
\* request and its answer cost a connection but do not keep the device offline.
Calm == <>[][~Fault]_vars
OutOfIds == PacketID = IdMod
ComesOnline == Calm => []<>(s_connected \/ OutOfIds)

\* And a value that the user leaves as it is reaches the LED.
LedSettles ==
  \A d \in BOOLEAN : (Calm /\ <>[](desired = d)) => <>[](led = d \/ OutOfIds)
=============================================================================
