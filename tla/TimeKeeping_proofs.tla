-------------------------- MODULE TimeKeeping_proofs --------------------------
(***************************************************************************)
(* The clocks of the device for every width of its integers, tick rate and   *)
(* bound on the ticks: who is woken for the time has it, the time is right    *)
(* until the milliseconds overflow, and the calendar keeps what RtcBackup     *)
(* promises of it.                                                          *)
(***************************************************************************)
EXTENDS TimeKeeping, TLAPS

-----------------------------------------------------------------------------
(* The calendar: types, and what a valid mark and a running task may rely   *)
(* on after any sequence of resets, power cuts, updates and HAL errors.     *)

\* The inductive invariant: how far drv_rtc_init and drv_rtc_set_unix have come
\* says what the backup domain holds.
RtcInv ==
  /\ TypeOK
  /\ ValidMeansSet
  /\ CalendarRuns
  /\ pc = "rebuild" => lsi /\ rtcsel = "LSI"
  /\ pc \in {"init", "rebuild"} => ntp = "wait"
  /\ ntp \in {"setDate", "mark"} => clock # "unset"

LEMMA RtcInitInv == Init => RtcInv
BY DEF Init, RtcInv, TypeOK, ValidMeansSet, CalendarRuns, RTC_BKP_DATA, FW_UPG_FLAG_MAGIC, Zero,
   Running, domain

LEMMA RtcInductive == RtcInv /\ [Next]_vars => RtcInv'
<1> SUFFICES ASSUME RtcInv, [Next]_vars PROVE RtcInv'
  OBVIOUS
<1> USE DEF RtcInv, TypeOK, ValidMeansSet, CalendarRuns, RTC_BKP_DATA, FW_UPG_FLAG_MAGIC, Zero,
    Running, domain
<1>1. CASE InitKeep
  BY <1>1 DEF InitKeep, SetUp
<1>2. CASE InitRebuild
  BY <1>2 DEF InitRebuild
<1>3. CASE InitMark
  BY <1>3 DEF InitMark
<1>4. CASE NtpAnswer
  BY <1>4 DEF NtpAnswer
<1>5. CASE NtpSetTime
  BY <1>5 DEF NtpSetTime
<1>6. CASE NtpSetDate
  BY <1>6 DEF NtpSetDate
<1>7. CASE NtpMark
  BY <1>7 DEF NtpMark
<1>8. CASE SetFails
  BY <1>8 DEF SetFails
<1>9. CASE FinishMark
  BY <1>9 DEF FinishMark
<1>10. CASE SystemReset
  BY <1>10 DEF SystemReset, Restart
<1>11. CASE PowerLoss
  BY <1>11 DEF PowerLoss, Restart
<1>12. CASE UNCHANGED vars
  BY <1>12 DEF vars
<1> QED
  BY <1>1, <1>2, <1>3, <1>4, <1>5, <1>6, <1>7, <1>8, <1>9, <1>10, <1>11, <1>12
     DEF Next, RtcInit, NtpStep

\* The backup domain and the two tasks that use it keep their types.
THEOREM TypeCorrect == Spec => []TypeOK
<1>1. RtcInv => TypeOK
  BY DEF RtcInv
<1> QED BY <1>1, RtcInitInv, RtcInductive, PTL DEF Spec

\* A time that drv_rtc_get_str shows was set by NTP since the calendar started.
THEOREM ValidIsSet == Spec => []ValidMeansSet
<1>1. RtcInv => ValidMeansSet
  BY DEF RtcInv
<1> QED BY <1>1, RtcInitInv, RtcInductive, PTL DEF Spec

\* Whichever way drv_rtc_init took, the calendar has its clock while tasks run.
THEOREM CalendarCounts == Spec => []CalendarRuns
<1>1. RtcInv => CalendarRuns
  BY DEF RtcInv
<1> QED BY <1>1, RtcInitInv, RtcInductive, PTL DEF Spec

-----------------------------------------------------------------------------
(* Arithmetic.                                                              *)

LEMMA ProductGrows ==
  ASSUME NEW a \in Nat, NEW b \in Nat, a <= b, NEW n \in Nat \ {0}
  PROVE  a * n <= b * n /\ b <= b * n
BY Z3

LEMMA ModSmall ==
  ASSUME NEW x \in Nat, NEW n \in Nat, x < n
  PROVE  x % n = x /\ (x + n) % n = x
BY Z3

LEMMA DivProduct ==
  ASSUME NEW a \in Nat, NEW n \in Nat \ {0}
  PROVE  (a * n) \div n = a
BY Z3

\* Seconds are lost in two roundings, and never more than one.
LEMMA DivSum ==
  ASSUME NEW a \in Nat, NEW b \in Nat, NEW n \in Nat \ {0}
  PROVE  /\ (a + b) \div n \in {a \div n + b \div n, a \div n + b \div n + 1}
         /\ a \div n \in Nat
BY Z3

LEMMA DivSmall ==
  ASSUME NEW a \in Nat, NEW n \in Nat \ {0, 1}
  PROVE  a \div n \in Nat /\ a \div n <= a /\ (a > 0 => a \div n < a)
BY Z3

-----------------------------------------------------------------------------
(* The tasks that wait for the calendar.                                     *)

LEMMA ClockStep == [TimeNext]_timeVars => [Next]_vars
<1> SUFFICES ASSUME [TimeNext]_timeVars PROVE [Next]_vars
  OBVIOUS
<1>1. CASE StartUp \/ Update \/ Reboot
  BY <1>1 DEF StartUp, Update, Reboot, Next
<1>2. CASE NtpTask
  BY <1>2 DEF NtpTask, TakeAnswer, SetCalendar, NtpEnds, Next, NtpStep
<1>3. CASE Tick \/ NetReady \/ CloudTask \/ UNCHANGED timeVars
  BY <1>3 DEF Tick, NetReady, CloudTask, CloudWaitsNet, CloudSynced, CloudGivesUp, timeVars
<1> QED BY <1>1, <1>2, <1>3 DEF TimeNext

\* With the tasks that wait for it the calendar does what RtcBackup says of it.
THEOREM CalendarIsRtcBackup == TimeSpec => Spec
<1>1. TimeInit => Init
  BY DEF TimeInit
<1> QED BY <1>1, ClockStep, PTL DEF TimeSpec, Spec

-----------------------------------------------------------------------------
(* Who is woken has the time.                                               *)

\* The inductive invariant: the base is set when NTP_Task goes past the answer.
WokenInv ==
  /\ SyncedMeansTime
  /\ ntp # "wait" => s_valid

LEMMA WokenInductive == ASSUME WokenInv, [TimeNext]_timeVars PROVE WokenInv'
<1> USE DEF WokenInv, SyncedMeansTime
<1>1. CASE StartUp
  BY <1>1 DEF StartUp, RtcInit, InitKeep, InitRebuild, InitMark, base, start
<1>2. CASE TakeAnswer
  BY <1>2 DEF TakeAnswer, SetTime
<1>3. CASE SetCalendar
  BY <1>3 DEF SetCalendar, NtpSetTime, NtpSetDate, base, start
<1>4. CASE NtpEnds
  BY <1>4 DEF NtpEnds, NtpMark, SetFails, base
<1>5. CASE CloudTask
  BY <1>5 DEF CloudTask, CloudWaitsNet, CloudSynced, CloudGivesUp, base, vars
<1>6. CASE Tick \/ NetReady
  BY <1>6 DEF Tick, NetReady, base, start, vars
<1>7. CASE Update
  BY <1>7 DEF Update, FinishMark, base, start
<1>8. CASE Reboot
  BY <1>8 DEF Reboot, SystemReset, PowerLoss, Restart
<1>9. CASE UNCHANGED timeVars
  BY <1>9 DEF timeVars, vars, base, start
<1> QED BY <1>1, <1>2, <1>3, <1>4, <1>5, <1>6, <1>7, <1>8, <1>9 DEF TimeNext, NtpTask

\* Cloud_Task, woken by NTP_Task, has a time for its token: SyncedMeansTime.
THEOREM WokenHasTime == TimeSpec => []SyncedMeansTime
<1>1. TimeInit => WokenInv
  BY DEF TimeInit, Init, WokenInv, SyncedMeansTime
<1>2. WokenInv => SyncedMeansTime
  BY DEF WokenInv
<1> QED BY <1>1, <1>2, WokenInductive, PTL DEF TimeSpec

-----------------------------------------------------------------------------
(* The time is right until the milliseconds overflow.                        *)

\* The inductive invariant: the base was taken at a tick of this run.
BaseInv ==
  /\ tick \in Nat
  /\ s_valid => \E t \in Nat : t <= tick /\ base_unix = UnixTime(t) /\ base_ms = GetTimeMs(t)

LEMMA BaseInductive == ASSUME BaseInv, [TimeNext]_timeVars PROVE BaseInv'
<1> USE DEF BaseInv
<1>1. ASSUME tick' \in Nat, tick <= tick', UNCHANGED base PROVE BaseInv'
  <2> SUFFICES ASSUME s_valid'
               PROVE \E t \in Nat : t <= tick' /\ base_unix' = UnixTime(t) /\ base_ms' = GetTimeMs(t)
    BY <1>1
  <2>1. PICK t \in Nat : t <= tick /\ base_unix = UnixTime(t) /\ base_ms = GetTimeMs(t)
    BY <1>1 DEF base
  <2>2. t <= tick' /\ base_unix' = UnixTime(t) /\ base_ms' = GetTimeMs(t)
    BY <1>1, <2>1 DEF base
  <2> QED BY <2>2
<1>2. CASE TakeAnswer
  <2>1. tick' = tick /\ base_unix' = UnixTime(tick) /\ base_ms' = GetTimeMs(tick)
    BY <1>2 DEF TakeAnswer, SetTime
  <2> QED BY <2>1
<1>3. CASE Tick
  <2>1. tick' = tick + 1 /\ UNCHANGED base
    BY <1>3 DEF Tick
  <2> QED BY <1>1, <2>1
<1>4. CASE UNCHANGED <<tick, base>>
  BY <1>1, <1>4
<1>5. CASE Reboot
  BY <1>5 DEF Reboot
<1>6. CASE StartUp \/ Update \/ SetCalendar \/ NtpEnds \/ CloudTask \/ NetReady
  BY <1>4, <1>6 DEF StartUp, Update, SetCalendar, NtpEnds, CloudTask, CloudWaitsNet, CloudSynced,
     CloudGivesUp, NetReady
<1>7. CASE UNCHANGED timeVars
  BY <1>4, <1>7 DEF timeVars
<1> QED BY <1>2, <1>3, <1>5, <1>6, <1>7 DEF TimeNext, NtpTask

LEMMA ClockUntilOverflow ==
  ASSUME NEW t \in Nat, t * Thousand < Wide PROVE GetTimeMs(t) = t
<1>1. t * Thousand \in Nat
  BY TimeAssumption
<1>2. (t * Thousand) % Wide = t * Thousand
  BY <1>1, ModSmall, TimeAssumption
<1> QED BY <1>2, DivProduct, TimeAssumption DEF GetTimeMs

LEMMA TimeIsRight == BaseInv => RightUntilOverflow
<1> SUFFICES ASSUME BaseInv, s_valid, tick * Thousand < Wide PROVE InTime
  BY DEF RightUntilOverflow
<1>0. tick \in Nat /\ Thousand \in Nat \ {0, 1} /\ Wide \in Nat \ {0, 1}
  BY TimeAssumption DEF BaseInv
<1>1. PICK t \in Nat : t <= tick /\ base_unix = UnixTime(t) /\ base_ms = GetTimeMs(t)
  BY DEF BaseInv
<1>2. t * Thousand <= tick * Thousand /\ tick <= tick * Thousand
  BY <1>0, <1>1, ProductGrows
<1>3. GetTimeMs(tick) = tick /\ base_ms = t /\ tick < Wide
  <2>1. t * Thousand \in Nat /\ tick * Thousand \in Nat
    BY <1>0
  <2>2. t * Thousand < Wide
    BY <1>0, <1>2, <2>1
  <2> QED BY <1>0, <1>1, <1>2, <2>1, <2>2, ClockUntilOverflow
<1> DEFINE d == tick - t
<1>4. d \in Nat /\ d < Wide /\ t + d = tick
  BY <1>0, <1>1, <1>3
<1>5. (GetTimeMs(tick) + Wide - base_ms) % Wide = d
  <2>1. GetTimeMs(tick) + Wide - base_ms = d + Wide
    BY <1>0, <1>3
  <2> QED BY <1>0, <1>4, <2>1, ModSmall
<1> DEFINE q == t \div Thousand + d \div Thousand
<1>6. tick \div Thousand \in {q, q + 1} /\ q \in Nat /\ tick \div Thousand \in Nat
  BY <1>0, <1>4, DivSum
<1>7. 1 + tick \div Thousand < Wide
  <2>1. CASE tick = 0
    <3>1. tick \div Thousand = 0
      BY <1>0, <2>1, DivSmall
    <3> QED BY <1>0, <3>1
  <2>2. CASE tick > 0
    <3>1. tick \div Thousand < tick
      BY <1>0, <2>2, DivSmall
    <3> QED BY <1>0, <1>3, <1>6, <3>1
  <2> QED BY <1>0, <2>1, <2>2
<1>8. (1 + q) % Wide = 1 + q
  <2>1. 1 + q \in Nat /\ 1 + q < Wide
    BY <1>0, <1>6, <1>7
  <2> QED BY <1>0, <2>1, ModSmall
<1>9. NowUnix = 1 + q
  <2>1. base_unix = 1 + t \div Thousand
    BY <1>1 DEF UnixTime
  <2>2. base_unix + d \div Thousand = 1 + q
    BY <1>0, <1>1, <1>4, <2>1, DivSmall
  <2> QED BY <1>5, <1>8, <2>2 DEF NowUnix
<1> QED BY <1>6, <1>9 DEF InTime, UnixTime

\* Whenever the answer came, the time of day is right up to a second until the
\* 32-bit product overflows: RightUntilOverflow.
THEOREM RightBeforeOverflow == TimeSpec => []RightUntilOverflow
<1>1. TimeInit => BaseInv
  BY DEF TimeInit, BaseInv
<1> QED BY <1>1, BaseInductive, TimeIsRight, PTL DEF TimeSpec
=============================================================================
