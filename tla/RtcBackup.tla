----------------------------- MODULE RtcBackup -----------------------------
(***************************************************************************)
(* Platform/drv_rtc.c and the backup domain it shares with the firmware     *)
(* update: the calendar, which runs on LSI, and two backup registers that   *)
(* outlive a reset. DR0 tells drv_rtc_init that the calendar is set up, DR1  *)
(* that its time was set. FW_UPG_SetBkupFlag writes BKP0R, which is DR0.     *)
(*                                                                          *)
(* The calendar is modelled by how it relates to the time of day when it was *)
(* set: that LSI runs fast or slow and that NTP sets it once only is left out. *)
(***************************************************************************)
EXTENDS Naturals

CONSTANT HalFaults   \* may HAL_RTC_Init, SetTime and SetDate report an error?

ASSUME HalFaultsAssumption == HalFaults \in BOOLEAN

VARIABLES
  dr0, dr1,   \* backup registers 0 and 1
  rtcsel,     \* RCC->BDCR: the clock of the calendar
  lsi,        \* RCC->CSR.LSION
  clock,      \* the calendar: unset, right but for the rate of LSI, behind since a power
              \* cut, or a new time on an old date
  pc,         \* drv_rtc_init, or the scheduler running
  ntp         \* NTP_Task: waiting for an answer, in drv_rtc_set_unix, or deleted
              \* after drv_rtc_set_unix did or did not succeed

vars == <<dr0, dr1, rtcsel, lsi, clock, pc, ntp>>
domain == <<dr0, dr1, rtcsel, clock>>

RTC_BKP_DATA == "RTC_BKP_DATA"
FW_UPG_FLAG_MAGIC == "FW_UPG_FLAG_MAGIC"
Zero == "0"

TypeOK ==
  /\ dr0 \in {Zero, RTC_BKP_DATA, FW_UPG_FLAG_MAGIC}
  /\ dr1 \in {Zero, RTC_BKP_DATA}
  /\ rtcsel \in {"none", "LSI", "LSE"}
  /\ lsi \in BOOLEAN
  /\ clock \in {"unset", "right", "behind", "mixed"}
  /\ pc \in {"init", "rebuild", "up", "finish"}
  /\ ntp \in {"wait", "setTime", "setDate", "mark", "gone", "failed"}

\* A board out of the factory, or one that ran a firmware which used LSE.
Init ==
  /\ \/ dr0 = Zero /\ rtcsel = "none"
     \/ dr0 = RTC_BKP_DATA /\ rtcsel = "LSE"
  /\ dr1 = Zero /\ lsi = FALSE /\ clock = "unset"
  /\ pc = "init" /\ ntp = "wait"

-----------------------------------------------------------------------------
(* drv_rtc_init, called by main before the scheduler starts.                *)

SetUp == dr0 = RTC_BKP_DATA /\ rtcsel = "LSI"

\* Mutant of InitKeep: a calendar that is valid is taken to need no NTP.
InitKeepTrusts ==
  /\ pc = "init" /\ SetUp
  /\ lsi' = TRUE /\ pc' = "up"
  /\ ntp' = IF dr1 = RTC_BKP_DATA THEN "gone" ELSE ntp
  /\ UNCHANGED domain

\* The backup domain was kept: LSI, which a power cut turns off, is on again.
InitKeep ==
  /\ pc = "init" /\ SetUp
  /\ lsi' = TRUE /\ pc' = "up"
  /\ UNCHANGED ntp /\ UNCHANGED domain

\* First start, or not as expected: reset the backup domain, LSI for the clock.
InitRebuild ==
  /\ pc = "init" /\ ~SetUp
  /\ dr0' = Zero /\ dr1' = Zero /\ clock' = "unset"
  /\ rtcsel' = "LSI" /\ lsi' = TRUE
  /\ pc' = "rebuild"
  /\ UNCHANGED ntp

\* HAL_RTC_Init, then the mark in DR0. main ignores an error.
InitMark ==
  /\ pc = "rebuild"
  /\ pc' = "up"
  /\ \/ dr0' = RTC_BKP_DATA
     \/ HalFaults /\ UNCHANGED dr0
  /\ UNCHANGED <<dr1, rtcsel, lsi, clock, ntp>>

-----------------------------------------------------------------------------
(* NTP_Task and drv_rtc_set_unix. The task deletes itself after the first    *)
(* valid answer, whatever drv_rtc_set_unix returned.                        *)

Running == pc \in {"up", "finish"}

NtpAnswer ==
  /\ Running /\ ntp = "wait"
  /\ ntp' = "setTime"
  /\ UNCHANGED <<lsi, pc>> /\ UNCHANGED domain

\* Mutant of NtpSetTime: the time is declared valid before the date is set.
NtpSetTimeMarks ==
  /\ Running /\ ntp = "setTime"
  /\ dr1' = RTC_BKP_DATA /\ ntp' = "setDate"
  /\ UNCHANGED <<dr0, rtcsel, lsi, clock, pc>>

\* HAL_RTC_SetTime: the new time of day with the old date.
NtpSetTime ==
  /\ Running /\ ntp = "setTime"
  /\ ntp' = "setDate"
  /\ clock' = IF clock = "right" THEN "right" ELSE "mixed"
  /\ UNCHANGED <<dr0, dr1, rtcsel, lsi, pc>>

NtpSetDate ==
  /\ Running /\ ntp = "setDate"
  /\ ntp' = "mark" /\ clock' = "right"
  /\ UNCHANGED <<dr0, dr1, rtcsel, lsi, pc>>

NtpMark ==
  /\ Running /\ ntp = "mark"
  /\ dr1' = RTC_BKP_DATA /\ ntp' = "gone"
  /\ UNCHANGED <<dr0, rtcsel, lsi, clock, pc>>

\* drv_rtc_set_unix returns -1: SetTime or SetDate reports an error, before or
\* after it wrote the calendar. The year is in range: NTP_MMI_ParseReply lets
\* nothing else through.
SetFails ==
  /\ HalFaults
  /\ Running /\ ntp \in {"setTime", "setDate"}
  /\ ntp' = "failed"
  /\ clock' \in {clock} \cup (IF ntp = "setTime" /\ clock # "right" THEN {"mixed"}
                              ELSE IF ntp = "setDate" THEN {"right"} ELSE {})
  /\ UNCHANGED <<dr0, dr1, rtcsel, lsi, pc>>

-----------------------------------------------------------------------------
(* The end of a firmware update, resets and power cuts.                     *)

\* Mutant of FinishMark: the flag goes to the register next to BKP0R.
FinishMarkNextRegister ==
  /\ pc = "up"
  /\ dr1' = FW_UPG_FLAG_MAGIC /\ pc' = "finish"
  /\ UNCHANGED <<dr0, rtcsel, lsi, clock, ntp>>

\* FW_UPG_SetBkupFlag(FW_UPG_FLAG_MAGIC) in FW_UPG_Finish.
FinishMark ==
  /\ pc = "up"
  /\ dr0' = FW_UPG_FLAG_MAGIC /\ pc' = "finish"
  /\ UNCHANGED <<dr1, rtcsel, lsi, clock, ntp>>

Restart == pc' = "init" /\ ntp' = "wait"

\* NVIC_SystemReset in FW_UPG_Finish, and the reset button at any time.
SystemReset ==
  /\ Restart
  /\ lsi' \in BOOLEAN
  /\ UNCHANGED domain

\* With a battery on VBAT the backup domain stays, but LSI is off and the
\* calendar stands still; without one the domain is lost.
PowerLoss ==
  /\ Restart
  /\ lsi' = FALSE
  /\ \/ clock' = (IF clock = "right" THEN "behind" ELSE clock)
        /\ UNCHANGED <<dr0, dr1, rtcsel>>
     \/ dr0' = Zero /\ dr1' = Zero /\ rtcsel' = "none" /\ clock' = "unset"

RtcInit == InitKeep \/ InitRebuild \/ InitMark
NtpStep == NtpAnswer \/ NtpSetTime \/ NtpSetDate \/ NtpMark

Next == RtcInit \/ NtpStep \/ SetFails \/ FinishMark \/ SystemReset \/ PowerLoss

Spec == Init /\ [][Next]_vars

-----------------------------------------------------------------------------

\* What the LCD shows as the time is one that was set: the calendar of a rebuilt
\* backup domain, which starts in 2000, never passes drv_rtc_is_valid.
ValidMeansSet == dr1 = RTC_BKP_DATA => clock # "unset"

\* Whatever path drv_rtc_init took, the calendar counts while the tasks run.
CalendarRuns == Running => lsi /\ rtcsel = "LSI"

\* drv_rtc.c:123 and 145: the backup domain is rebuilt on the first start and when
\* something is wrong with it; a calendar that was set up and set is kept.
SetTimeIsKept ==
  [][pc = "init" /\ pc' = "rebuild" => dr1 # RTC_BKP_DATA \/ rtcsel # "LSI"]_vars
=============================================================================
