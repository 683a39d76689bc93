---------------------------- MODULE TimeKeeping ----------------------------
(***************************************************************************)
(* The clocks of the device and who waits for them: the calendar of           *)
(* RtcBackup, the time base of Components/ntp/ntp_mmi.c, which is computed    *)
(* from the milliseconds of osal_get_time_ms, NTP_Task, which sets both, and   *)
(* Cloud_Task, which waits for it before it starts MQTT.                       *)
(*                                                                          *)
(* Integers keep their width: a uint32_t counts modulo Wide.                 *)
(***************************************************************************)
EXTENDS RtcBackup, Integers

CONSTANTS
  Wide,      \* values of a uint32_t (2^32 in the code)
  Thousand,  \* configTICK_RATE_HZ, and milliseconds in a second (both 1000)
  MaxTick    \* bound: ticks in one run of the firmware

ASSUME TimeAssumption ==
  /\ Wide \in Nat \ {0, 1} /\ Thousand \in Nat \ {0, 1} /\ MaxTick \in Nat

VARIABLES
  tick,       \* xTaskGetTickCount
  base_unix,  \* s_base_unix
  base_ms,    \* s_base_ms
  s_valid,    \* s_valid
  net,        \* netif up, address assigned and g_lwip_ready
  sem,        \* s_ntp_sync_sem has been posted and not taken
  cloud       \* Cloud_Task: waiting for the network or for NTP, or MQTT started
              \* with or without a time that NTP set

base == <<base_unix, base_ms, s_valid>>
start == <<net, sem, cloud>>
timeVars == <<vars, tick, base, start>>

-----------------------------------------------------------------------------
(* The clocks.                                                              *)

\* osal_get_time_ms: the product is cut to 32 bits before it is divided.
GetTimeMs(t) == ((t * Thousand) % Wide) \div Thousand

\* The time of day, in seconds, that a correct server has at a tick; the device
\* was started at second 1.
UnixTime(t) == 1 + t \div Thousand

\* NTP_MMI_NowUnix
NowUnix ==
  IF s_valid
  THEN (base_unix + ((GetTimeMs(tick) + Wide - base_ms) % Wide) \div Thousand) % Wide
  ELSE 0

TimeInit ==
  /\ Init
  /\ tick = 0 /\ base_unix = 0 /\ base_ms = 0 /\ s_valid = FALSE
  /\ net = FALSE /\ sem = FALSE /\ cloud = "net"

Tick ==
  /\ Running /\ tick < MaxTick
  /\ tick' = tick + 1
  /\ UNCHANGED <<vars, base, start>>

-----------------------------------------------------------------------------
(* NTP_Task.                                                                *)

\* Net_Init_Task has an address from DHCP and has asked for the names once.
NetReady ==
  /\ Running /\ ~net
  /\ net' = TRUE
  /\ UNCHANGED <<vars, tick, base, sem, cloud>>

\* Mutant of SetTime: the base keeps the milliseconds of the start.
SetTimeAtStart ==
  /\ base_unix' = UnixTime(tick)
  /\ base_ms' = 0
  /\ s_valid' = TRUE

\* NTP_MMI_SetTime
SetTime ==
  /\ base_unix' = UnixTime(tick)
  /\ base_ms' = GetTimeMs(tick)
  /\ s_valid' = TRUE

\* Mutant of TakeAnswer: the semaphore is posted behind the loop that waits for an
\* answer, whether one that is valid came or not.
TakeAnswerPosts ==
  \/ /\ net /\ NtpAnswer
     /\ SetTime
     /\ UNCHANGED <<tick, start>>
  \/ /\ net /\ Running /\ ntp = "wait"
     /\ sem' = TRUE
     /\ UNCHANGED <<vars, tick, base, net, cloud>>

\* An answer that NTP_MMI_ParseReply accepts; requests without one are repeated.
TakeAnswer ==
  /\ net /\ NtpAnswer
  /\ SetTime
  /\ UNCHANGED <<tick, start>>

SetCalendar ==
  /\ NtpSetTime \/ NtpSetDate
  /\ UNCHANGED <<tick, base, start>>

\* The end of drv_rtc_set_unix, whose result nobody looks at: Cloud_Task is woken
\* and the task deletes itself.
NtpEnds ==
  /\ NtpMark \/ SetFails
  /\ sem' = TRUE
  /\ UNCHANGED <<tick, base, net, cloud>>

-----------------------------------------------------------------------------
(* Cloud_Task, up to cloud_manager_connect.                                  *)

\* Mutant of CloudWaitsNet: without the limit of 30 seconds.
CloudWaitsNetForEver ==
  /\ Running /\ cloud = "net" /\ net
  /\ cloud' = "ntp"
  /\ UNCHANGED <<vars, tick, base, net, sem>>

\* The network is up, or 30 seconds are over.
CloudWaitsNet ==
  /\ Running /\ cloud = "net"
  /\ cloud' = "ntp"
  /\ UNCHANGED <<vars, tick, base, net, sem>>

CloudSynced ==
  /\ Running /\ cloud = "ntp" /\ sem
  /\ sem' = FALSE /\ cloud' = "synced"
  /\ UNCHANGED <<vars, tick, base, net>>

\* APP_CLOUD_NTP_WAIT_MS is over.
CloudGivesUp ==
  /\ Running /\ cloud = "ntp" /\ ~sem
  /\ cloud' = "unsynced"
  /\ UNCHANGED <<vars, tick, base, net, sem>>

-----------------------------------------------------------------------------

\* A reset loses what is in RAM: the tick, the base and the semaphore.
Reboot ==
  /\ SystemReset \/ PowerLoss
  /\ tick' = 0 /\ base_unix' = 0 /\ base_ms' = 0 /\ s_valid' = FALSE
  /\ net' = FALSE /\ sem' = FALSE /\ cloud' = "net"

StartUp == RtcInit /\ UNCHANGED <<tick, base, start>>
Update == FinishMark /\ UNCHANGED <<tick, base, start>>
NtpTask == TakeAnswer \/ SetCalendar \/ NtpEnds
CloudTask == CloudWaitsNet \/ CloudSynced \/ CloudGivesUp

TimeNext == StartUp \/ Tick \/ NetReady \/ NtpTask \/ CloudTask \/ Update \/ Reboot

\* drv_rtc_init runs to its end, an update that has set its flag resets the
\* device, the tasks are scheduled, and a server that is asked again and again
\* answers. Nothing says that the network ever comes up.
Fairness ==
  /\ WF_timeVars(StartUp)
  /\ WF_timeVars(NtpTask)
  /\ WF_timeVars(CloudTask)
  /\ WF_timeVars(pc = "finish" /\ Reboot)

TimeSpec == TimeInit /\ [][TimeNext]_timeVars
FairTimeSpec == TimeSpec /\ Fairness

-----------------------------------------------------------------------------

\* No later than a second behind, nor ahead, until the milliseconds overflow after
\* 71.6 minutes, whenever in that time the answer came.
InTime == NowUnix \in {UnixTime(tick) - 1, UnixTime(tick)}
RightUntilOverflow == s_valid /\ tick * Thousand < Wide => InTime

\* Who was woken for the time has one, also when the calendar could not be set:
\* the token of the OTA session then has a real time to expire at.
SyncedMeansTime == sem \/ cloud = "synced" => s_valid

\* Left alone, the device starts its cloud connection, without a network, without
\* an answer or after an error of the calendar.
LeftAlone == <>[][~Reboot /\ ~Update]_timeVars
CloudStarts == LeftAlone => <>[](cloud \in {"synced", "unsynced"})

\* Left alone with a network, the device gets a right and valid calendar unless
\* setting it fails, also from a time that a power cut or half a set made wrong:
\* NTP_Task sets it in every run, whatever drv_rtc_is_valid says.
EventuallyRight ==
  LeftAlone /\ <>[]net /\ <>[](ntp # "failed")
  => <>[](dr1 = RTC_BKP_DATA /\ clock = "right")

\* ntp_mmi.c:165: the time is the base plus what a monotonic clock says.
NowIsInTime == s_valid => InTime
=============================================================================
