# Verification of the STM32F407 IoT terminal firmware

This directory holds TLA+ models of the firmware under `src/`, the TLC
configurations that model-check them and the theorems about them that TLAPS
proves. The firmware collects sensor data, reports it over MQTT to the OneNET
cloud, sets its clock by NTP and can be updated in two ways: over a serial line
(Ymodem) and over the air (OTA). An update is received into a backup partition
of the internal flash by the application ("APP") and installed by a Bootloader
after the next reset.

Contents: 1 the system; 2 the modules and how they correspond to the code;
3 the runs; 4 the fairness; 5 the proofs; 6 the findings; 7 what is not
modelled; 8 the plan.

## 1. The system

Only the repository's own code is considered. Vendored code (`FreeRTOS`,
`LwIP`, `Libraries`, the cJSON parser, the Paho packet codec in `MQTT/`,
cm_backtrace, fonts and the LCD controller) is taken to do what its interface
says. `Doc/STM32_IoT采集终端系统设计_4e239e5d.md` was read as background; its
OTA and boot chapters describe another design than the code has, so nothing is
translated from it.

### Components

| component | state | operations | neighbours | what is hard | what makes it correct | status |
|---|---|---|---|---|---|---|
| flash driver `Platform/drv_flash` | three flash regions: flag (Sector 4), APP (5-7), backup (8-10) | erase a sector, program a word, read | fw_upgrade, Bootloader | power cuts in the middle; programming a cell that is not erased | (context of the properties below) | modelled |
| upgrade control `FwUpgrade/fw_upgrade.c` | `s_fwupg`: state, sizes, CRC, erase progress, 4-byte buffer | StartUpdate, WriteData, StopUpdate, Finish, SetBkupFlag | Ymodem and OTA call it; the LCD reads its state | sector boundaries inside a chunk, remainders, failures in the middle, a restart of an update | what was accepted is stored; DONE means verified; the flag is only set for a complete image | modelled |
| Bootloader `Listings/fw_boot_fixed.c` | progress of a copy (lost in a power cut) | IsUpdateRequired, CopyFirmware, ClearUpgradeFlag, JumpToApp | reads what fw_upgrade wrote | power cuts and flash errors during the copy | never bricks; never starts a part of an image; an accepted image is installed | partly (its `main` is missing) |
| Ymodem channel `FwUpgrade/ymodem` | `s_rcb`: expected number, flags, error count, window | byte state machine, packet handlers, time limits, handshake resend | UART ring, fw_upgrade, the host | lost, damaged, repeated and late frames; time limits; 8-bit numbers | packets stored once and in order; only whole files installed; silence ends the session | partly (repetitions not counted) |
| upgrade UART `bsp_upgrade_usart.c` | receive ring, `s_rx_head`, `s_rx_tail` | interrupt puts a byte, task takes one | Ymodem | interrupt and task without a lock; overrun | a queue that loses only what does not fit | modelled |
| OTA session `Components/ota/ota_mmi.c` | `s_ota`: step, task, offset, buffers | a round: version, task, download in ranges, MD5, status, finish | MQTT connection state, Ymodem window, fw_upgrade | late answers after a retry, exclusion by one look, failures half-way | one writer at a time; only the announced file is installed; no update left behind | modelled |
| OTA protocol `ota_proto.c` | none | build and parse HTTP | OTA session | formats | - | not modelled |
| RTC `Platform/drv_rtc.c` | backup registers DR0, DR1, clock source, calendar | init, set, read, is_valid | NTP sets, LCD reads, fw_upgrade writes DR0 | survives resets and power cuts; shared register | a valid time is one that was set; the calendar counts | modelled |
| NTP and time base `ntp_mmi.c`, `osal.c` | base time, base milliseconds, semaphore | parse, set, get; millisecond clock | RTC, OneNET token, Cloud_Task | 32-bit wrap, a semaphore posted once | the time is right; who is woken has it; the cloud starts anyway | modelled |
| MQTT client `mqttclient.c`, `transport.c` | connection, packet identifiers, two tasks | connect, subscribe, publish, keep-alive, receive, send | report queue, LwIP, the platform | two tasks on one connection; messages that fall between request and answer; reconnects | online means subscribed; the LED follows the platform; the device comes back online | partly (see 7) |
| cloud manager `cloud_manager.c` | report queue of 8 pointers, smoke debounce | post, alarm, build, receive a command | sensors, MQTT | ownership of heap blocks, full queue, recycled memory | each block in one place; each report on its topic | partly (see 7) |
| sensor manager `sensor_manager.c`, `drv_sensor.c` | cached readings behind a mutex | update, get | tasks, cloud, LCD | - | - | not modelled |
| tasks `App/main.c` | handles, semaphores | start-up order, NTP, OTA and LED, LCD loops | all | waits at start-up, edge-triggered OTA | start-up ends | partly (see 7) |
| `net_manager.c`, `ota_manager.c` | none | stubs | - | - | - | not modelled |
| OneNET token, peripheral drivers, ports, tools, test client, JSON sample | - | - | - | - | - | not modelled |

### How they interact

`main` runs `drv_rtc_init`, `FW_UPG_Init` and `FW_UPG_YM_Init` (which opens a
window of 10 seconds for a local upgrade) before the scheduler starts.
`Ymodem_Task` has the highest application priority (4) and polls every
millisecond. `Net_Init_Task` has priority 3; sensors and cloud 2; LCD, NTP and
OTA 1. The MQTT threads (6, 7) are created once the network is up. `OTA_Task`
polls `mqtt_is_connected` each second and starts one round on a rising edge; a
round gives up at once if the Ymodem channel is armed or an update goes on.
Both channels end in `FW_UPG_Finish`, which writes magic, size and CRC32 to
Sector 4 and `FW_UPG_FLAG_MAGIC` to a backup register, and resets the
processor. The Bootloader then checks the backup partition against the flag,
copies it over the APP, erases the flag and jumps.

## 2. Modules and code

| module | models | variables and where they are in the code |
|---|---|---|
| `NorFlash` | `drv_flash.c`, the memory map | `backup`, `app`, `flag`; `pc` is where the processor is |
| `FwUpgrade` | `fw_upgrade.c` | `state`, `recv_size`, `wcnt` as in `FW_UPG_T`; `img` stands for `fw_size` and `crc32`; `erased` is `erased_addr`; `len`, `rem`, `wr_offs` are locals of `FW_UPG_WriteData` |
| `Bootloader` | `fw_boot_fixed.c` | `cursor` is the loop variable of `FW_BOOT_CopyFirmware` |
| `UpdateSystem` | both and the power | none of its own; composes the two programs, which never run at the same time, over one flash |
| `AtomicUpdate` | abstract: what an update promises when the Bootloader's flash reports no error | `installed`, `update` |
| `TwoSlots` | abstract: what it promises whatever fails | `running`, `pending`, `update` |
| `UpgradeControl` | abstract: what the functions of `fw_upgrade.h` promise to a transport | `fw` (`FW_UPG_GetState`), `size`, `taken` |
| `MCUpdateSystem` | image sizes for TLC | - |
| `RtcBackup` | `drv_rtc.c`, NTP_Task's use of it, `FW_UPG_SetBkupFlag` | `dr0`, `dr1`, `rtcsel`, `lsi` are the registers; `clock` is how the calendar relates to the time of day |
| `TimeKeeping` | `RtcBackup` with `ntp_mmi.c`, `osal_get_time_ms`, the start of Cloud_Task | `tick`, `base_unix`, `base_ms`, `s_valid` as in the code; `net`, `sem`, `cloud` are what the tasks wait for |
| `Ymodem` | `ymodem_recv.c`, `ymodem_send.c`, the host as environment | names of `YM_RCB_T`; `eot2` is `eot2_tick # 0`, `mid` is `state # YM_STATE_HEAD`; `fw`, `fw_size`, `stored` are the part of fw_upgrade that the channel sees; `toDev`, `toHost` the line; `snd`, `blk`, `tries` the host |
| `UartRing` | `bsp_upgrade_usart.c` and the loop of `ymodem_scan_poll` | `head`, `tail`, `buf` are `s_rx_…`; `drain` is the count taken at the start of the loop |
| `BoundedFifo` | abstract: a queue that loses what does not fit | `queue` |
| `LocalWindow` | abstract: what Ymodem promises to the other channel | `armed` (`FW_UPG_YM_IsArmed`), `fw` |
| `UpgradeChannels` | `ota_mmi.c`, OTA_Task, the server as environment, what Ymodem shows of itself | `armed`, `last_conn`, `retry`; `body` is `resp_buf`, `hashed` what `MD5_Update` was given, `stream` the answers under way |
| `ReportQueue` | `cloud_manager.c` and the queue side of `mqttclient.c` | `heap`, `queue` (`MQTT_Data_Queue`), the reports in the hands of Sensor_Task and mqtt_send, `type` and `what` of each block |
| `MqttClient` | `mqtt_thread` and `Client_Connect`, the broker as environment | `s_connected`, `PacketID`; `mt` is where the thread is; `conn`, `subs`, `toDev` the connection; `led`, `desired` |
| `CloudLink` | `ReportQueue` with `MqttClient` | none of its own |
| `…_proofs` | theorems about the module of that name; `AtomicUpdate_proofs` is about `UpdateSystem` and its three refinements, `TimeKeeping_proofs` covers `RtcBackup` too | - |

### Update path

Each flash operation is one step, because a power cut may fall between any two
of them or inside one. A call such as `FW_UPG_WriteData` is thus a sequence of
steps, and `pc` names the operation that comes next: `WriteData` does the
checks and the truncation at the declared size, `EraseBefore` and `WriteWord`
alternate as the loop reaches words, `WriteReturn` does the assignments behind
the loop. `Finish`, `FinishTail`, `FinishFlagErase` and the three `FinishFlag…`
steps are `FW_UPG_Finish`. In the same way `BootCheck`, `EraseApp`, `CopyWord`,
`CopyEnd`, `ClearUpgradeFlag` and `JumpToApp` are the Bootloader.

A cell is a word; word `k` of image `i` is the pair `<<i, k>>`. Programming a
cell that is neither erased nor equal ends in the value or in garbage (NOR flash
only clears bits). A failed or interrupted operation leaves each cell in its
reach as it was, garbled or, after an erase, erased, in any combination.
CRC32 is taken to be free of collisions, so the CRC of an image is the image.
What the call sequence of a transport is, is left open: any `FwCall` may come in
`pc = "run"`, which covers Ymodem, OTA and a change between them.

Chunks may have any length. When bytes wait in `wbuf`, the next word is written at
`recv_size`, where no word begins. `TakesMisaligned` says what the flash makes of it: a
STM32F4 reports an error and programs nothing (`FALSE`), so the call fails; with `TRUE`
the bytes go where they do not belong, whole or garbled. The transports do come there:
Ymodem's packets are whole words, but OTA hands over a body of any length from 1 to
`chunk_size` + 512 (`ota_mmi.c:201-204`) and never compares it with the range that it
asked for (`ota_mmi.c:349-358`), and after the last try the body of an answer that is no
206 (`ota_mmi.c:336-351`).

The last word of the flag, the backup register, the delay and the state DONE are one
step (`FinishFlagCrc`): the commit is the word, and behind it only the reset is left.

The Bootloader's `main` is not in the repository. It is taken to call
`FW_BOOT_IsUpdateRequired`, `FW_BOOT_CopyFirmware` and then `FW_BOOT_JumpToApp`
whatever the copy returned. `BootFaults` says whether its flash operations may
report errors. If they do, an update that failed half-way is followed by a jump
to an APP partition that is not whole (`pc = "broken"` or `"halt"`); the flag and
the backup are still there and the next reset tries again. This is why
`Recoverable` is stated with such errors and `NeverRunsPartial` without.

### RTC

`clock` has four values: `unset` (a rebuilt domain), `right`, `behind` (stood
still during a power cut) and `mixed` (a new time of day with an old date, the
moment between `HAL_RTC_SetTime` and `HAL_RTC_SetDate`). `HalFaults` says whether
HAL calls may fail. A power cut keeps the backup domain if there is a battery and
loses it if not; both are possible in every step. `right` means right up to the rate of
LSI, which is not modelled.

### Ymodem

One step of `Receive` handles all the bytes of one frame in the order the byte
state machine does. A frame is received as it was sent (`Intact`), goes into a packet
that was cut before (`EndsCutPacket`), or is `Damaged`: ignored, refused with a
NAK, left incomplete, or, when its first bytes are missing, read as control
characters. What is left of a frame behind the packet that it ended is read at the
head of a packet again: a name or a payload may then begin a packet, end the session
or be an EOT. More than one control character in one frame is not modelled; the next
frame may bring the second. `ReadAsHead` is `ymodem_head_packet` on whatever the packet holds: a
data packet has arbitrary bytes where a head packet has the name and the size.
Sizes are counted in packets. `FW_UPG_Finish` and `FW_UPG_WriteData` may fail at
any time, since the flash behind them is another module.

Abstractions of `Ymodem`: the number of handshake repetitions (10) and the
lengths of the time limits are not counted, a time limit may expire whenever the
line is silent, and a handshake may be repeated behind the window too, since its count
(`ct_send`) is not tied to it; the count of errors saturates one above its limit; control
characters under way to the host are capped (`ReplyCap`) and the host repeats a
frame at most `MaxTries` times; the host sends a frame when the line is free. The
host is the standard sender that `ymodem_recv.c:16` describes.

### Time

`TimeKeeping` extends `RtcBackup`: every action of it is one of the calendar, or
leaves the calendar alone. `GetTimeMs` cuts the product `tick * 1000` to the width
of a `uint32_t` (`Wide`) before it divides, as `osal_get_time_ms` does, and
`NowUnix` takes the difference to the base modulo the same width. NTP_Task sets the
base and then the calendar and posts the semaphore at its end whether or not
`drv_rtc_set_unix` succeeded, since nobody looks at its result. Cloud_Task goes on
when its time limits are over. A reset loses the tick, the base and the semaphore.

### UART ring

The interrupt runs to its end between any two accesses of the task; the task's
steps are the snapshot of the count, the read of `buf[tail]` and the advance of
`tail`. The host is chosen at the start: one that waits for the answer to each
packet, as Ymodem wants, or one that sends what it likes. Only the parity of the
number of dropped bytes is kept.

### Two channels

`UpgradeChannels` runs a round of OTA over one TCP connection, with the local
channel between any two of its steps. TCP keeps the order of the answers, but the
answer to a request that timed out may come later and nothing in it says which
request it belongs to; `Leftovers` says what is left in the stream when `recv`
fills the buffer with more than one answer. Lengths are counted in units of a byte or
more, and a unit is either the k-th of the file or `Foreign`. An answer is its 206, if
there is one in its head, and a body of any length that the code takes (`Lengths`): a
part of the range, more than it, a text, or something from another place. `WriteData`
appends it, cut at the size, and refuses when a word would be written where none begins
(`Word`); how the units get into the flash is in `FwUpgrade`. MD5 is taken to be free of
collisions. The local channel appears through what `LocalWindow` says of it: it
works on the upgrade control only while `armed`, and `armed` never becomes true
without a reset. `Ymodem` implements `LocalWindow!AloneSpec` (checked and proved), and
the composition with OTA implements `LocalWindow!Spec` (proved).

### Interfaces between the modules

The three models that call or are `fw_upgrade.c` meet in `UpgradeControl`, in which
an update has a size, takes data up to it and is done only with all of it.
`UpdateSystem` implements it in bytes, with every flash operation that may fail;
`Ymodem` and `UpgradeChannels` hold `fw` and what was stored as variables of their own
and implement it in packets and in pieces of the file. So the upgrade control that the transports
are checked against is the one that the flash was checked under.

### Cloud connection

In `ReportQueue` a block is a `mqtt_report_t` in the FreeRTOS heap; a block keeps
its `type` when it is freed and allocated again, unless another user had the place
meanwhile (`OtherUse`). `MqttClient` puts the broker's answer to a request on its
way when the request is sent, and messages the broker sends on its own before or
behind it; `mqtt_thread` reads one packet where it expects an answer and takes any
other for a failure. The priorities are mqtt_send 7, mqtt_thread 6, Sensor_Task 2,
so mqtt_send's look at `s_connected` and its publish are one step, and the steps of
the others may be interrupted anywhere. The platform's user may not have set the LED yet
(`NoValue`); then the answer to `desired/get` has no value and changes nothing. A
platform that has a value is assumed to tell it: a refusal (`mqttclient.c:303`) would
leave the LED as it is until the next login, and no property promises more then. `IdMod` stands for every value of the 32-bit
`PacketID` that a 16-bit field cannot hold.

## 3. Runs

| run | cfg | expected | question |
|---|---|---|---|
| update_faults | `UpdateSafety.cfg` | pass | whatever is interrupted or fails, can the device still boot a complete image? |
| update_install | `UpdateInstall.cfg` | pass | with chunks of any length and a flash that rejects misaligned words: is what was accepted stored, is the update atomic, and is it installed in the end? |
| tail_not_erased | `DoneVerified.cfg` | violation | does DONE mean verified for every image size? |
| timekeeping | `TimeKeeping.cfg` | pass | are the calendar and the time base right, do they become right, and does the cloud connection start? |
| clock_overflows | `ClockOverflows.cfg` | violation | is the time still right when the milliseconds overflow? |
| rtc_after_update | `SetTimeIsKept.cfg` | violation | is a calendar that was set kept over a reset? |
| ymodem_transfer | `YmodemTransfer.cfg` | pass | is a file stored in order, whole, under the window, and does silence end it? |
| ymodem_long_file | `YmodemLongFile.cfg` | violation | is only packet 0 of a file read as a head packet? |
| uart_ring | `UartRing.cfg` | pass | is the ring without a lock a queue, and does the loop over it end? |
| upgrade_channels | `UpgradeChannels.cfg` | pass | can two channels write one update, can anything but the file be installed, does a round end and leave nothing behind? |
| cloud_link | `CloudLink.cfg` | pass | who owns a report, what does "connected" promise, does the LED follow the platform, does the device come back? |
| report_type | `ReportType.cfg` | violation | does a property report go to the property topic? |

### Properties

*Update path*

* `Recoverable`: the APP is complete, or the flag is valid and the backup holds
  what it names. Broken when the flag is cleared before the copy.
* `ImplementsTwoSlots`: whatever fails, the running image is torn down only while a
  whole pending one stands behind it, and the pending one is withdrawn only while a
  whole one runs. Only the image being received can become pending.
* `ImplementsUpgradeControl`: an update takes no byte beyond its size and is done only
  with the last of them, for chunks that are no multiple of a word too. It counts bytes
  and says nothing of where they are.
* `StepsAdvance`: each flash operation of a call or a boot leaves fewer to do (`Rank`),
  whatever fails: no call keeps Ymodem_Task for ever, no boot goes round in circles.
* `AcceptedIsStored`: every whole word accepted is in its place in the backup. Broken
  when a word is programmed wherever `recv_size` points, and when the erase on demand
  comes before each word.
* `DoneMeansVerified`: in state DONE the backup holds the image.
* `NeverRunsPartial`: the Bootloader starts complete images only and always
  starts one.
* `ImplementsAtomicUpdate`: the device implements `AtomicUpdate`, where one image
  is installed at every moment and changes in one step, and only to the one being
  received. The refinement maps `installed` to the image that an undisturbed boot
  would run. The commit point is the program of the third flag word; clearing the
  flag after the copy is a stutter.
* `EventuallyInstalled`: once power stays, an image that the flag names is
  copied and started.

`AtomicUpdate` needs `BootFaults = FALSE` and `TwoSlots` does not, because the two differ
where a flash error of the Bootloader strikes: when the erase of the APP fails at its
first sector, the old APP runs on with the flag still valid, and an update that it
starts withdraws the image that was promised. `AtomicUpdate` calls the promised image
installed from the commit on and so cannot describe this; `TwoSlots` keeps the two
apart.

*Time*

* `ValidMeansSet`: a calendar that passes `drv_rtc_is_valid` was set since its domain
  was built.
* `RightUntilOverflow`: the time base is at most a second off until the product of
  the tick overflows. `NowIsInTime` is the same without the limit, and fails.
* `SyncedMeansTime`: a task that the semaphore woke finds a time.
* `CloudStarts`, `EventuallyRight`: left alone, the cloud connection starts with or
  without a network, and with one the calendar becomes right unless setting it fails.

*Ymodem and its ring*

* `StoredInOrder`, `DoneIsWholeFile`: the packets that are stored are those of the file,
  each once and in order, and an update that is finished got all of them, whatever is
  lost, damaged, repeated or late. `SilenceEndsSession`: a session does not outlive its
  host.
* `ImplementsLocalWindow`: what `UpgradeChannels` takes from this module.
  `ImplementsUpgradeControl`: what this module takes from `fw_upgrade.c`.
* `PoliteNeverLoses`: a host that waits for its answers loses no byte, even if
  the task is held up for the whole
  of a packet. `ImplementsFifo`: the refinement to `BoundedFifo`. `LoopEnds`: bytes
  that never stop do not keep the task with the highest priority in its loop.

*Two channels*

* `OneWriter`: while OTA is between StartUpdate and its end the window is closed and
  the update is OTA's, though OTA looks at the window long before.
* `OnlyTheFile`: what is installed, and what is reported as a success, is the file,
  whatever lengths the answers have.
* `NoOrphan`: an update that goes on has a channel that will end it. A state that
  stays RECVING would block both channels and every report until the next reset.
* `RoundEnds`: however the server behaves, a round ends. `RoundShrinks` says how: each
  step of a round makes `RoundRank` smaller (the work and the tries left), and nothing
  that comes between makes it larger.
* `ImplementsUpgradeControl`: both channels together use one upgrade control as its
  interface says.

*Cloud connection*

* `BlocksAccounted`: each allocated block is once in the queue or in one hand.
* `ReportsKeepPlace`: a report that was handed over keeps its place in the line and what
  is written in it until mqtt_send has done with it, while the blocks around it are
  taken, freed and written again by two tasks.
* `OnlineMeansSubscribed`: while `mqtt_is_connected` says yes there is a socket and
  every topic was subscribed on it.
* `LedFollows`, `LedSettles`: when the connection stands and no message about it is
  under way the LED is what the user wants, whatever was lost before; and a value
  that stays reaches the LED.
* `ComesOnline`: when the line and the broker stay well, the device is online again
  and again, as long as it has packet identifiers.
* `RightTopic` (report_type): a property report goes to the property topic.

Seven more properties are stated and proved for every size (section 5) without a run
of their own, because the properties above are stronger on the same instance or rest
on them: `AppWrittenFromVerifiedBackup` (under `ImplementsTwoSlots`), `ProgramsErasedOnly`
and `WbufIsRemainder` (behind `AcceptedIsStored` and `DoneMeansVerified`), `OnlyResetOpens`
and `ReceivingIsArmed` (the two halves of `ImplementsLocalWindow`), `SnapshotHolds` (behind
`ImplementsFifo`) and `CalendarRuns`.

For each property of a passing run `PROJECT.json` names a mutant: a form of one
definition with a plausible bug, under which the property fails. The mutants stand
next to the definitions they replace.

### Bounds

*Update path.* Two bytes to a word, two words to a sector, two sectors to a
partition: enough for a remainder in the word buffer, a chunk that crosses a word
or a sector, an erase on demand in the middle of a chunk, a copy that spans
sectors and power cuts that leave one sector done and one not. `TailSizes` has an
image that ends one byte behind a sector boundary (5), one that fills the
partition (8) and one that does not fit (9). `SafeSizes` has one with a tail
inside a sector (7) and one that fills the partition. Both runs use chunks of 3 bytes,
after which a byte waits in `wbuf` and the write address is odd, next to whole words (4,
and in `update_install` 6, which crosses a sector). `update_faults` runs on a flash that
takes a word at any address, `update_install` on one that rejects it, as the STM32F4's
does: `AcceptedIsStored` is false on the first with such chunks.
Two images are enough to tell old from new, and since a third update only meets
what a second left, the number of updates is not bounded at all: all state is
finite.

`update_install` keeps flash errors of the Bootloader out (`BootFaults = FALSE`)
because `NeverRunsPartial` and `EventuallyInstalled` need it: a flash that always
fails installs nothing. Errors of the flash in the APP are in both runs.

*Time.* `Wide = 20`, `Thousand = 3`, `MaxTick = 8`: the product of the tick
overflows at tick 7 and is no multiple of the width there, as 2^32 is none of 1000;
the answer of NTP may come at any tick before or behind it. The calendar's state is
finite.

*Ymodem.* `SeqMod = 4` and three packets let every number but the wrap occur, so
the passing run shows what holds for files of up to 255 packets; the run
`ymodem_long_file` has as many packets as numbers. One retransmission more than
the error limit (`MaxTries = 2`, `MaxErrors = 1`) makes the limit reachable. The
line to the device holds one frame, and with the restarts of the host and the
time limits of the device that one may belong to an earlier session.

*UART ring.* A ring of four slots holds three bytes, the longest packet fills it,
and the indices wrap at every offset of a packet. Two values of a byte tell a byte
from its neighbour. The real ring has room for any Ymodem packet as well.

*Two channels.* A file of five units, a word of three and bodies of one to three: a body
may be a whole word, less, or a word that an earlier short body has misplaced; the file
ends inside a word, as a body does. Two tries per range (3 in the code) and up to two
answers under way: a late answer can fall into the next try, the next range or a status
report.

*Cloud connection.* Two heap blocks and a queue of one make the full queue, the full
heap and a block that changes hands reachable; four topics as in the code;
identifiers for two logins (`IdMod = 10`), so they run out; a platform with a value from
the start or later; two packets under way
before one is read let a message fall in front of and behind an answer.
`report_type` needs three blocks and no more than one topic.

Deadlock is checked in every run: a power cut, a reset or a step of the environment
is always possible, so no state is final.

## 4. Fairness

* `UpdateSystem`: weak fairness of the steps of a call that has begun, of the
  Bootloader and of the reset that follows DONE: a processor with power goes on.
  Nothing obliges a transport to make a call, and nothing forces power cuts.
  `EventuallyInstalled` assumes that power cuts end.
* `TimeKeeping`: `drv_rtc_init` runs to its end, an update that set its flag resets
  the device (there is no exit before `NVIC_SystemReset`), the tasks are scheduled,
  and NTP_Task, which asks again for ever (`main.c:589-593`), is answered at some
  time once there is a network. The last is an assumption about the server; that a
  network comes up is assumed nowhere but as a premise of `EventuallyRight`, which
  further assumes that resets, cuts and updates end and that a set does not fail.
* `Ymodem`: Ymodem_Task has the highest priority and polls each millisecond, so
  bytes are read, and a time limit that keeps being exceeded is noticed. Nothing is
  assumed of the host, the line or the reset button.
* `UartRing`: the task's steps only. The interrupt and the host are free to act or
  not; `LoopEnds` holds because the loop counts down a snapshot.
* `UpgradeChannels`: a round goes on, because every call of the socket interface ends
  (`APP_OTA_TIMEOUT_MS`), and a finished update resets the device. Nothing brings a
  reconnect of MQTT, so no property promises another round.
* `CloudLink`: steps of the three tasks that are enabled are taken: log in and
  subscribe, handle what has come, close, hand a report on. `Calm` is the premise
  that from some time on the line does not break and the broker neither refuses nor
  lets a time limit pass. Messages that fall between a request and its answer are no
  part of `Fault`: that they cost a connection is behaviour of the code, and
  `ComesOnline` shows that it recovers.

## 5. Proofs

TLAPS proves the following for every value of the constants that satisfies the
named assumptions of the modules (`GeometryAssumption`, `ImageAssumption`,
`MisalignedAssumption`, `MagicAssumption`, `ChunkAssumption`, `BootFaultsAssumption`, `HalFaultsAssumption`,
`TimeAssumption`, `YmodemAssumption`, `RingAssumption`, `ChannelAssumption`,
`ReportAssumption`, `MqttAssumption`), which say that sizes are natural numbers, that
a word, a sector, a ring and a partition are not empty and that cell contents differ
from each other. In particular the geometry of the real chip, any set of images and
any lengths are covered. Three theorem groups carry further hypotheses, in their
statements:

* `WordsInPlace`: a flash that takes words at misaligned addresses gets whole words only
  (`Aligned`). The real flash rejects them, so chunks of any length are covered: those
  of a server that does not honour the range too. `OnlyErasedIsProgrammed` alone needs
  `Aligned` itself, since a rejected word is an operation on a cell as well.
* `SafeTails`: no image has its last, partial word as the first of a sector. Without
  it the statements are false, which is the finding `tail_not_erased`.
* `ShortFile`: a file has fewer packets than there are sequence numbers. Without it
  they are false, which is the finding `ymodem_long_file`.

| module | theorem | states | argument |
|---|---|---|---|
| `UpdateSystem_proofs` | `TypeCorrect` | `[]TypeOK` | each action keeps the types |
| | `RecoveryInvariant`, `AlwaysRecoverable` | `[]RecoveryInv`, `[]Recoverable` | inductive, see below |
| | `AppOnlyFromVerifiedBackup` | `AppWrittenFromVerifiedBackup` | only erase, copy and power cuts change `app`, and under `RecoveryInv` a valid flag stands behind each |
| | `NeverPartial` | `~BootFaults`: `[]NeverRunsPartial` | `RecoveryInv` and `BootInv` |
| `AtomicUpdate_proofs` | `UpdateKeepsTwoSlots` | `ImplementsTwoSlots` | `RecoveryInv` and `SlotInv` |
| | `UpdateIsControlled` | `ImplementsUpgradeControl`, chunks of any length | `CountInv` |
| | `CallsAreBounded` | `StepsAdvance` | `RecoveryInv`, `WbufInv`, `CursorInv`: `Rank` is a natural number that falls |
| | `WbufIsTheRemainder` | `[]WbufIsRemainder`, chunks of any length | `WbufInv` |
| | `AcceptedStaysStored` | `WordsInPlace`: `[]AcceptedIsStored` | `WriterInv` |
| | `DoneIsVerified` | `WordsInPlace`, `SafeTails`: `[]DoneMeansVerified` | `WriterInv`, `IdleInv` |
| | `OnlyErasedIsProgrammed` | `Aligned`, `SafeTails`: `[]ProgramsErasedOnly` | `WriterInv`, `IdleInv` |
| | `UpdateIsAtomic` | `~BootFaults`, `WordsInPlace`, `SafeTails`: `ImplementsAtomicUpdate` | all of the above and `FlagInv` |
| `TimeKeeping_proofs` | `TypeCorrect`, `ValidIsSet`, `CalendarCounts` | `[]TypeOK`, `[]ValidMeansSet`, `[]CalendarRuns` of `RtcBackup` | `RtcInv` |
| | `CalendarIsRtcBackup` | `TimeSpec => Spec`: the composition implements `RtcBackup`, so its theorems hold there | each step is one of the calendar or a stutter |
| | `WokenHasTime`, `RightBeforeOverflow` | `[]SyncedMeansTime`, `[]RightUntilOverflow` | `WokenInv`, `BaseInv` |
| `Ymodem_proofs` | `TypeCorrect`, `LocalUpdateIsArmed`, `ClosedStaysClosed` | `[]TypeOK`, `[]ReceivingIsArmed`, `OnlyResetOpens` | the only steps that clear `armed` leave `fw = "IDLE"` behind; only a reset sets it in a closed window |
| | `ChannelIsWindow`, `ChannelIsControlled` | `ImplementsLocalWindow`, `ImplementsUpgradeControl` | step by step, from the same invariants |
| | `ShortFileInOrder`, `ShortFileIsWhole`, `ShortFileHasOneHead` | `ShortFile`: `[]StoredInOrder`, `[]DoneIsWholeFile`, `OnlyHeadStarts` | `FileInv` |
| `UartRing_proofs` | `TypeCorrect`, `SnapshotIsHeld`, `PoliteHostIsSafe` | `[]TypeOK`, `[]SnapshotHolds`, `[]PoliteNeverLoses` | `RingInv` |
| | `RingIsFifo` | `ImplementsFifo` | `RingInv`; each step appends, removes, drops or stutters |
| `UpgradeChannels_proofs` | `TypeCorrect`, `ChannelsExclude`, `UpdateHasOwner`, `OnlyFileInstalled` | `[]TypeOK`, `[]OneWriter`, `[]NoOrphan`, `[]OnlyTheFile` | `TypeInv`, `ExclusionInv`, `ContentInv` |
| | `ChannelsAreControlled` | `ImplementsUpgradeControl` | `TypeInv`, `BodyInv`, `IdleInv` (nothing is stored when idle) |
| | `WindowIsKept` | `ImplementsLocalWindow` | `TypeInv`, `ExclusionInv` |
| | `RoundIsBounded` | `RoundShrinks` | `TypeInv`, `ExclusionInv`, `BodyInv`: `RoundRank` falls |
| `CloudLink_proofs` | `ReportsStayInPlace` | `ReportsKeepPlace` | `ReportInv`: no block is twice in the line, none of it is in a task's hand |
| | `TypeCorrect`, `BlocksStayAccounted`, `OnlineIsSubscribed`, `LedIsFollowing` | `[]TypeOK`, `[]BlocksAccounted`, `[]OnlineMeansSubscribed`, `[]LedFollows` | `MqttTypeInv`, `ReportInv`, `SessionInv`, `LedInv` |

**Recovery.** `Recoverable` is not inductive: in a state where the Bootloader copies
although no flag is valid, the next step could destroy the APP. `RecoveryInv` adds

1. in the APP's part of the program, and while the flag is being cleared, the APP
   partition is complete;
2. during erase and copy, the flag is valid;
3. `CopyProgress`: sectors in front of the erase cursor are erased, words in front
   of the copy cursor equal the backup, words behind it are erased.

The third is what makes the end of the copy give a complete APP (`CopiedWhole`): at
`CopyEnd` every word of the image is in front of the cursor. The writer's steps
(`FwStep`, `FwCall`) preserve the invariant for a simple reason, that they run under 1
and do not touch `app`; so the APP's faults need no further argument, whatever they
do to the backup and to the flag. A power cut is the delicate step: it keeps
`FlagValid` in erase and copy because neither the flag nor the backup is under
operation there, and keeps `AppComplete` elsewhere because the APP is not. `BootInv`
is the strengthening for `NeverRunsPartial`: without errors `jump` is reached only
with a complete APP, because a state in which it is not has, by `Recoverable`, a
valid flag, and then `BootCheck` goes to `erase`.

**The writer.** `WriterInv` says where a call is in terms of one number `w`: the first
`w` words of the image are stored, and what was erased for the words behind is still
erased, up to a sector boundary (`Stored(w)`). Between calls `recv_size` is `w` words
and what is in `wbuf`, and something is in it only when the image is complete; inside
WriteData `wr_offs` is at word `w`. Erasing on demand then always hits the sector that
begins with word `w` (`EraseKeepsStored`), and programming always an erased cell
(`ProgramStores`). The tail written by Finish goes to word `w` without an erase:
`SafeTails` is exactly what puts it in front of the erased boundary (`TailPlace`).

**Atomicity.** `FlagInv` says that a flag whose three words agree names an image that
the backup holds, and that while the APP runs and until its last flag word is
programmed the words do not agree, because the CRC32 is erased first and written
last. No damage to the flag makes it name an image that it did not name before
(`DamagedNamed`). With it each step maps to a step of `AtomicUpdate`: StartUpdate to
`Begin`, the last flag word to `Commit`, failures, StopUpdate and restarts to `Drop`,
everything else to a stutter: the Bootloader's copy because the flag stays valid, and
the clearing of the flag because the APP then holds the very image it named
(`OneImage`).

**Two slots.** With flash errors of the Bootloader too, each step maps to a step of
`TwoSlots`: the last flag word to `Commit`, and so does the last data word when an image
is received again that an old flag still names (`WordCommits`); erase and copy of the
APP to `Tear`, the word that makes it whole to `Install`; the writes over a backup that
an old flag names, the erase of that flag, and the clearing after a copy, to `Withdraw`.
What `RecoveryInv` does not say and the map needs is `SlotInv`: while
the first two flag words are programmed the third is erased, so no image becomes pending
early; and the flag is cleared only behind a copy of the very image it names, so what is
withdrawn runs. No hypothesis on chunks, tails or faults is left.

**Counting.** `CountInv` bounds `recv_size` by the size between calls, `recv_size + len` in a
call, and says that the flag is written only when the two are equal. It holds for chunks
of any length, since the truncation of WriteData does not depend on what the words do.

**Length of a call.** `Rank` counts the flash operations that a call or a boot has yet to
do. In WriteData it falls by one from the erase to the word and by one for the word, so
an erase on demand must be followed by a word; `WbufInv` gives the remainder behind
the offset that this needs. In a boot `CursorInv` and `CopiesWithin` keep the copy
inside the partition, which holds because the flag names an image that fits.

**Ring.** `RingInv`: the snapshot is at most what is in the ring, the byte in hand is
still in its slot, and the bytes a polite host has under way are those in the ring. The
interrupt only makes the ring fuller, so it preserves the first; it never writes the
slot at `tail`, so it preserves the second.

**Channels.** `ExclusionInv`: from the look at the window to StartUpdate `armed` is
false and fw_upgrade is idle, and nobody else can change that, because a closed window
never opens. `ContentInv`: the backup holds what was hashed, cut at the size, so equal
sums mean equal contents. `BodyInv` says that a body is written only when there is one
in the buffer and the file is not complete; with it a write of OTA is a `Write` of
`UpgradeControl`, and a step of the round takes something off `RoundRank`, which weighs
the units that are missing by the steps that one can take at most (`Left * PerUnit`,
as each body has at least one), so that a retry and a late answer count less than the range they belong to.

**Cloud.** `LedInv` says that in a session the last message about the LED under way
carries the wanted value, or the LED has it already; the login establishes it by
asking for the value after the last subscription. For `ReportsKeepPlace` the line is a
sequence that only grows at its end or loses its front (`LineGrows`, `LineStays`), and
`ReportInv` keeps the block that a task writes apart from all in it (a task only fills a
block that was free, and a queued block is never free).

Only model-checked are the liveness properties `EventuallyInstalled`, `CloudStarts`,
`EventuallyRight`, `SilenceEndsSession`, `LoopEnds`, `RoundEnds`, `ComesOnline` and
`LedSettles`: liveness under fairness and ENABLED are beyond the prover, and so are
induction over data and recursive operators. No module uses RECURSIVE. `CallsAreBounded`
and `RoundIsBounded` are the half of `EventuallyInstalled` and `RoundEnds` that can be
proved: a natural number falls with every step; that the steps are taken is the
fairness of section 4.

## 6. Findings

Each is a run that TLC must find violated; `PROJECT.json` quotes the lines.

1. **tail_not_erased.** `FW_UPG_Finish` programs the padded tail word without
   `fw_upg_erase_before`. When it is the first word of a sector, it goes into what
   an earlier update left. The read-back CRC notices, but the result is only
   printed: the state becomes DONE ("received and verified", `fw_upgrade.h:19`) and
   the flag is set; the Bootloader then refuses the image. The device stays safe
   (`Recoverable`), the update is lost although success is shown.
2. **clock_overflows.** `osal_get_time_ms` multiplies in 32 bits before it divides, so
   the milliseconds fall back to 0 after 71.6 minutes, and unsigned differences across
   that point are wrong. The time jumps by 49 days and back.
3. **rtc_after_update.** `FW_UPG_SetBkupFlag` writes BKP0R, which is the register
   `drv_rtc_init` keeps its own mark in, so each update throws the time away.
4. **ymodem_long_file.** Packet 256 has number 0 and is read as a head packet. Files
   of more than 255 packets cannot be transferred (32 KB in 128-byte packets, 255 KB
   in 1024-byte packets; a partition has 384 KB).
5. **report_type.** Property and alarm reports never set `report->type`. In a heap block
   that held an event before, it still says event, and the report goes to the wrong
   topic.

Seen while modelling, without a run of their own:

* `FW_UPG_WriteData` promises to handle alignment (`fw_upgrade.h:72`) but starts at
  `recv_size` also when bytes wait in `wbuf`. Ymodem never comes there. OTA does when a
  server answers a range with a body whose length is no multiple of 4, since the length
  is not compared with the range (`ota_mmi.c:201`, `349`). The flash then rejects the
  next word and the round is given up; what was installed before stays.
* The calendar runs on LSI, which stands still without VDD, so after a power cut the
  valid mark (`drv_rtc.c:206`) is on a time that is behind; NTP puts it right
  (`EventuallyRight`). While it runs it drifts: LSI has 32 kHz nominally
  (`stm32f4xx_hal_conf.h:119`), is divided by 32768 (`drv_rtc.c:133`), is not
  calibrated, and NTP_Task deletes itself after the first answer (`main.c:588`).
* A `desired/get` that is refused is not repeated before the next login
  (`mqttclient.c:303`).
* After a complete Ymodem file a further head packet starts an update with `file_done`
  still set.
* The packet identifier is 32 bits wide in one place and 16 in another: after 65535
  subscriptions, four per login, no SUBACK matches and the device does not come online
  again before a reset (`OutOfIds` in `ComesOnline`).
* A message that arrives between PINGREQ and PINGRESP, or between a SUBSCRIBE and its
  SUBACK, is thrown away and costs the connection; the value that it carried comes back
  at the next login. Reports come every 20 s and a PINGREQ after 20 s of silence.
* The last try of a range takes any whole answer, although `ota_mmi.c:331` says it must
  be a 206; the MD5 finds out. The cloud is told 201 (success) before `FW_UPG_Finish`
  has run, and a failure there is not reported.
* A smoke alarm in the first minute after a reset sends no event, because the limit
  counts from tick 0 (`cloud_manager.c:172`), and it is not sent later.
* Sensor_Task looks at the smoke sensor once a second for 10 seconds, then sleeps 10
  seconds more (`main.c:288`) without a look, although its comment promises a period of
  one second (`main.c:260`).
* When `FW_UPG_Finish` fails after a round, `ota_mmi.c:414` leaves the step FINISH behind;
  `ota_is_busy` would stay true, but nobody calls it.
* Reports are dropped while an update goes on.

## 7. Not modelled

* Bytes, CRC, MD5 and signature arithmetic, dates, HTTP and JSON text, printing.
* The rate of LSI; a platform that refuses to tell a value that it has.
* FreeRTOS, LwIP, HAL, CMSIS, cJSON and the Paho codec. They are vendored and make up
  98 percent of the lines below `src/`, so the share of the tree that the modules map
  is below one percent and cannot be raised much. Of the firmware's own 7600 lines the
  map covers a third, the part that keeps state that others rely on; the rest is
  text building and parsing, hardware set-up, display and printing.
* `FW_BOOT_SetUpgradeFlag` and `cloud_manager_deinit` (no caller),
  `FW_BOOT_DumpBackupData` (prints).
* The branch of `mqtt_thread` for messages with QoS 2 and publishing with QoS 1 or 2:
  every subscription asks for QoS 1 and every publish uses QoS 0.
* The debounce of the smoke alarm: a counter that one task owns.
* The sensor cache: each access is one critical section under one mutex and nothing
  else is shared. `drv_sensor_read_all` marks every reading as valid.
* The start-up before the scheduler runs, the LCD, LED, key and monitor tasks: they
  only show what others hold.
* Readout and write protection of the flash; option bytes; the cache.
* The other components with status `not_modelled` in `PROJECT.json`: stubs, drivers
  without state that others rely on, pure computations, sample code.

## 8. Plan

Done: the update path with its refinement, the calendar and the time base, both
transports and their exclusion, the ring, the report queue and the MQTT client, and
theorems for every safety property that a passing run checks. What is left, in order:

1. The smoke alarm's debounce and its event limit.
2. The number of handshake repetitions against the length of Ymodem's window: the
   handle that `FW_UPG_YM_Init` does not reset.
3. `OutOfIds` removed from `ComesOnline` by a bound on the number of logins instead.
4. `Ymodem` and `UpgradeChannels` composed in one module. `LocalWindow` and
   `UpgradeControl` already state what one takes from the other; what the composition
   would add is the frames of a host during a round of OTA.
5. Proofs: a variant for the receiver's session, as `RoundRank` is for a round.
