----------------------------- MODULE MqttClient -----------------------------
(***************************************************************************)
(* Components/mqtt/mqttclient.c: the thread that keeps the connection to the *)
(* platform, and what the platform tells the device to do with its LED.       *)
(*                                                                            *)
(* The TCP connection keeps the order and breaks at any time. The broker's    *)
(* answer to a request is put on its way when the request is sent; messages   *)
(* that it sends on its own may be before it or behind it. It may have no     *)
(* value for the LED, but one that it has it does not refuse to tell.         *)
(***************************************************************************)
EXTENDS Integers, Sequences

CONSTANTS
  TopicCount,  \* subscriptions of one login (4 in the code)
  IdMod,       \* packet identifiers on the line (65536)
  NoValue,     \* the user has not set the LED yet
  LineCap      \* bound: packets under way to the device before it reads one

ASSUME MqttAssumption ==
  /\ TopicCount \in Nat \ {0}
  /\ IdMod \in Nat \ {0, 1} /\ LineCap \in Nat \ {0}
  /\ NoValue \notin BOOLEAN

VARIABLES
  mt,          \* where mqtt_thread is
  s_connected,
  PacketID,    \* uint32_t; IdMod stands for every value that 16 bits do not hold
  conn,        \* the socket: "closed", "open" or "broken" (the thread has not seen it yet)
  subs,        \* topics of this connection that the broker knows, in the code's order
  toDev,       \* packets under way to the device
  led,         \* LED2
  desired      \* the value that the platform's user wants, or NoValue

mqtt == <<mt, s_connected, PacketID, conn, subs, toDev, led, desired>>

Connack == [kind |-> "connack"]
Suback(id) == [kind |-> "suback", id |-> id]
Pingresp == [kind |-> "pingresp"]
Led(d) == [kind |-> "led", on |-> d]     \* property/set or desired/get/reply
Reply == [kind |-> "reply"]              \* one that sets nothing: post/reply, no value
Packets == {Connack, Pingresp, Reply} \cup {Suback(id) : id \in 0 .. IdMod - 1}
             \cup {Led(d) : d \in BOOLEAN}

MqttTypeOK ==
  /\ mt \in {"open", "login", "sub", "run", "ping", "close", "offline"}
  /\ s_connected \in BOOLEAN
  /\ PacketID \in 1 .. IdMod
  /\ conn \in {"closed", "open", "broken"} /\ subs \in 0 .. TopicCount
  /\ toDev \in Seq(Packets) /\ Len(toDev) <= LineCap + 1
  /\ led \in BOOLEAN
  /\ desired \in BOOLEAN \cup {NoValue}

MqttInit ==
  /\ mt = "open" /\ s_connected = FALSE /\ PacketID = 1 /\ conn = "closed" /\ subs = 0
  /\ toDev = <<>> /\ led = FALSE
  /\ desired \in BOOLEAN \cup {NoValue}

\* The broker's answer p to a request, behind the packets in q.
Answered(q, p) == toDev' = IF conn = "open" THEN Append(q, p) ELSE q

-----------------------------------------------------------------------------
(* Client_Connect.                                                            *)

\* A host name that is not resolved and a connection that is refused are tried
\* again after 3 s and change nothing. MQTT_Connect sends CONNECT at once.
Open ==
  /\ mt = "open"
  /\ s_connected' = FALSE /\ conn' = "open" /\ subs' = 0
  /\ mt' = "login" /\ toDev' = <<Connack>>
  /\ UNCHANGED <<PacketID, led, desired>>

\* Mutant of Subscribe: the counter has the width of the field it is sent in.
SubscribeWraps(q) ==
  /\ mt' = "sub"
  /\ PacketID' = (PacketID + 1) % IdMod
  /\ subs' = subs + 1
  /\ Answered(q, Suback(PacketID % IdMod))
  /\ UNCHANGED <<s_connected, conn, led, desired>>

\* MQTTSubscribe: the request; q is what was under way before.
Subscribe(q) ==
  /\ mt' = "sub"
  /\ PacketID' = IF PacketID < IdMod THEN PacketID + 1 ELSE PacketID
  /\ subs' = subs + 1
  /\ Answered(q, Suback(PacketID % IdMod))
  /\ UNCHANGED <<s_connected, conn, led, desired>>

LoggedIn ==
  /\ mt = "login" /\ toDev # <<>> /\ Head(toDev) = Connack
  /\ Subscribe(Tail(toDev))

\* The identifier read back has 16 bits, PacketID - 1 has 32.
RightSuback == toDev # <<>> /\ Head(toDev) = Suback(PacketID - 1)

Subscribed ==
  /\ mt = "sub" /\ RightSuback /\ subs < TopicCount
  /\ Subscribe(Tail(toDev))

\* Mutant of Online: the wanted value is not asked for.
OnlineNoGet ==
  /\ mt = "sub" /\ RightSuback /\ subs = TopicCount
  /\ s_connected' = TRUE /\ mt' = "run"
  /\ toDev' = Tail(toDev)
  /\ UNCHANGED <<PacketID, conn, subs, led, desired>>

\* The last one is acknowledged: s_connected is set, then mqtt_desired_get asks
\* for the value of led_switch. CloudDesiredReply passes over an answer without one.
Online ==
  /\ mt = "sub" /\ RightSuback /\ subs = TopicCount
  /\ s_connected' = TRUE /\ mt' = "run"
  /\ Answered(Tail(toDev), IF desired = NoValue THEN Reply ELSE Led(desired))
  /\ UNCHANGED <<PacketID, conn, subs, led, desired>>

\* transport_close and once more from the start.
Restart ==
  /\ mt' = "open" /\ conn' = "closed" /\ subs' = 0 /\ toDev' = <<>>
  /\ UNCHANGED <<s_connected, PacketID, led, desired>>

\* The connection is gone, or the packet that comes is not the one waited for:
\* also a message of a topic that is subscribed already.
Expected ==
  \/ mt = "login" /\ Head(toDev) = Connack
  \/ mt = "sub" /\ RightSuback
  \/ mt = "ping" /\ Head(toDev) = Pingresp

Unanswered ==
  \/ conn = "broken" /\ toDev = <<>>
  \/ toDev # <<>> /\ ~Expected

\* Mutant of ConnectFails: it waits on for the right packet.
ConnectFailsBrokenOnly ==
  /\ mt \in {"login", "sub"} /\ conn = "broken" /\ toDev = <<>>
  /\ Restart

ConnectFails ==
  /\ mt \in {"login", "sub"} /\ Unanswered
  /\ Restart

\* The broker refuses, or its answer does not come in time.
GivesUp ==
  /\ ~Unanswered
  /\ \/ /\ mt \in {"login", "sub"}
        /\ Restart
     \/ /\ mt = "ping"
        /\ mt' = "close"
        /\ UNCHANGED <<s_connected, PacketID, conn, subs, toDev, led, desired>>

-----------------------------------------------------------------------------
(* mqtt_thread while the connection stands.                                   *)

TakesMessage ==
  /\ mt = "run" /\ toDev # <<>>
  /\ toDev' = Tail(toDev)
  /\ UNCHANGED <<mt, s_connected, PacketID, conn, subs, desired>>

\* UserMsgCtl: the event that CloudLedApply posts is ReportQueue's PostEvent.
Handles ==
  /\ TakesMessage
  /\ led' = IF Head(toDev).kind = "led" THEN Head(toDev).on ELSE led

\* A message that cannot be acknowledged is not handled.
CannotAck ==
  /\ conn = "broken"
  /\ TakesMessage /\ UNCHANGED led

\* select has seen nothing for longer than KEEPLIVE_TIME / 3. Packets may come
\* between that and the PINGREQ.
Ping ==
  /\ mt = "run"
  /\ mt' = "ping" /\ Answered(toDev, Pingresp)
  /\ UNCHANGED <<s_connected, PacketID, conn, subs, led, desired>>

Pong ==
  /\ mt = "ping" /\ toDev # <<>> /\ Head(toDev) = Pingresp
  /\ mt' = "run" /\ toDev' = Tail(toDev)
  /\ UNCHANGED <<s_connected, PacketID, conn, subs, led, desired>>

\* Mutant of PingFails: the packet is thrown away and the connection stays.
PingFailsGoesOn ==
  /\ mt = "ping" /\ Unanswered
  /\ \/ toDev # <<>> /\ mt' = "run" /\ toDev' = Tail(toDev)
     \/ toDev = <<>> /\ mt' = "close" /\ toDev' = toDev
  /\ UNCHANGED <<s_connected, PacketID, conn, subs, led, desired>>

\* MQTT_PingReq reads one packet; any but PINGRESP counts as no answer.
PingFails ==
  /\ mt = "ping" /\ Unanswered
  /\ mt' = "close"
  /\ UNCHANGED <<s_connected, PacketID, conn, subs, toDev, led, desired>>

ReadFails ==
  /\ mt = "run" /\ conn = "broken" /\ toDev = <<>>
  /\ mt' = "close"
  /\ UNCHANGED <<s_connected, PacketID, conn, subs, toDev, led, desired>>

\* Mutant of GoOffline: first the socket.
GoOfflineLast ==
  /\ mt = "close"
  /\ mt' = "offline" /\ conn' = "closed" /\ subs' = 0 /\ toDev' = <<>>
  /\ UNCHANGED <<s_connected, PacketID, led, desired>>

\* CLOSE: first the flag, then the socket; mqtt_send may come between.
GoOffline ==
  /\ mt = "close"
  /\ s_connected' = FALSE /\ mt' = "offline"
  /\ UNCHANGED <<PacketID, conn, subs, toDev, led, desired>>

Close ==
  /\ mt = "offline"
  /\ Restart

-----------------------------------------------------------------------------
(* The line and the platform.                                                 *)

\* Some of what was under way may still arrive.
Break ==
  /\ conn = "open"
  /\ conn' = "broken"
  /\ \E n \in 0 .. Len(toDev) : toDev' = SubSeq(toDev, 1, n)
  /\ UNCHANGED <<mt, s_connected, PacketID, subs, led, desired>>

\* The user sets the value; a device whose property/set is subscribed is told.
SetDesired ==
  /\ desired' \in BOOLEAN \ {desired}
  /\ \/ /\ conn # "open" \/ subs = 0
        /\ toDev' = toDev
     \/ /\ conn = "open" /\ subs > 0 /\ Len(toDev) < LineCap
        /\ toDev' = Append(toDev, Led(desired'))
  /\ UNCHANGED <<mt, s_connected, PacketID, conn, subs, led>>
=============================================================================
