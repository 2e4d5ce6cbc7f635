# A TLA+ model of the Saliwen station

Saliwen is the firmware of a small environment station on an STM32 board with
RT-Thread: it measures light, temperature, humidity and pressure, drives four
LEDs, a fan and a step motor, is switched by clapping, and talks MQTT over an
ESP8266. The program's own logic is in `src/electronic/applications/` (about
1000 lines); it runs on the RT-Thread kernel and the kawaii-mqtt client, whose
timers, mailbox and connection it depends on. The rest of the repository is the
ST HAL and third-party packages the station does not use, or only for I/O. This
directory holds TLA+ modules of that logic, the TLC configurations that check
them and TLAPS proofs about them.
`PROJECT.json` lists every definition with the lines it models.

## Inventory

| Part | State | Operations | Talks to |
|---|---|---|---|
| Clap switch (`main.c:28-146`) | `curr_state`, `cnt`, `flag_sound_first_pulse`, `flag_led_status`, two one-shot timers | `on_soundlevel` (EXTI), `on_key1_clicked` (EXTI), `on_debounce_timer`, `on_clap_space_timer` (SysTick) | LEDs; raises `flag_clap_send` for the demo thread |
| LEDs (`led_control.c`) | four pins, active low | `init_io_port`, `control_led`, `turn` | called by the clap switch and the main loop |
| Threshold control (`main.c:384-415`) | `flag_arr`, `lt_arr`, `tmp_arr`, the current readings | compare, `fan`, `turn`, once per loop | LEDs, fan, motor; light mails to the demo thread |
| Remote commands (`main.c:170-220`) | the same flag and thresholds | `sub_topic_handle1`, called by the MQTT thread | motor, thresholds |
| Step motor (`drv_stepMotor.c`) | EN, DIR, PWM | `drv_stepMotor_init`, `drv_stepMotor_ctrl` | called by the main loop and the handler |
| HTU21D driver (`htu21d_drv.c`) | the device's measurement | `read_temp`, `read_humi`, `htu21d_init` | called by the main and the demo thread |
| FBM320 driver (`fbm320_drv.c`) | `Formula_Select`, coefficients, raw values | `fbm320_init`, `Coefficient`, `fbm320_read_data`, `Calculate` | called by `main()` at start-up, then by the demo thread |
| BH1750 driver (package) | the device | `bh1750_read_light` | called by the main loop |
| Report path (`main.c:233-320`, `384-396`) | `flag_clap_send`, `test_mb` (one mail) | `kawaii_mqtt_demo`, `rt_mb_send`, `rt_mb_recv` | sensors, MQTT client |
| Start-up (`main.c:338-382`, `ka_mqtt`) | what has been created so far | the steps of `main()` | all of the above |
| Kernel timers (`timer.c`, `clock.c`) | `rt_tick`, the sorted list of timers | `rt_timer_start`, `rt_timer_stop`, `rt_tick_increase`, `rt_timer_check` | the clap switch's callbacks; sleeping threads use the same list |
| Kernel mailbox (`ipc.c`) | ring buffer | `rt_mb_send`, `rt_mb_recv` | used by the report path |
| MQTT connection (`mqttclient.c`) | `mqtt_client_state`, socket, write lock, keep-alive timers, outstanding ping | connect, publish, subscribe, disconnect (application's thread); read, keep-alive, scan and resend, reconnect, clean up (`mqtt_yield_thread`). Both close the socket | the network, through AT sockets whose sends and closes block |
| MQTT acknowledgements (`mqttclient.c`) | list of awaited acknowledgements and its counter, packet id, subscription handlers | record, unrecord, scan; the handlers of PUBLISH, PUBACK, PUBREC, PUBREL, PUBCOMP, SUBACK; resubscribe | the broker; calls `sub_topic_handle1` |

What runs when: EXTI interrupts (priority 5) are more urgent than the SysTick
interrupt (lowest priority), which counts the tick and then runs the timer
callbacks; among the threads the MQTT client's (priority 5) is more urgent than
main (10), and main more urgent than the demo thread (17). A handler of an EXTI
interrupt is therefore atomic for everybody here, and so is a timer callback,
which `rt_timer_check()` runs with interrupts disabled; but a pulse may come
between the two halves of SysTick. `sub_topic_handle1` is atomic for main and
demo (between its first and its last write to shared state it calls nothing that
blocks), while main and demo can be preempted anywhere. The demo thread is the
application's thread of the MQTT client: it runs only while the client's own
thread waits for data, for the write lock or for time to pass.

What is hard here: orders of pulses and timer expiries; preemption of the main
thread between a test and the writes that depend on it; a sensor shared by two
threads without a lock around a whole read; transfers that fail without anyone
looking at the result; a one-mail mailbox that prefers old mails; requests that
arrive in the middle of a report or of the start-up; ticks that overflow; a link
that breaks, closes or falls silent at any moment, time-outs that race late
answers, sends without a time-out, a socket that one thread closes while the
other uses it, and acknowledgements that are lost, late or repeated. `PROJECT.json` lists these
hazards at their lines, with the properties that watch them.

What makes each part correct:

- clap switch: exactly two claps, properly spaced, switch the lamp; no pulse
  order confuses state machine, count and timers;
- outputs: no mixture of two agents' writes leaves the motor in a harmful
  state, stop orders hold, and outputs end up following the thresholds;
- drivers: a value returned is a value of the quantity asked for, or the caller
  is told;
- report path: no request is lost, readings are recent, requests are served;
- start-up: nothing is used before it exists;
- kernel timers: callbacks run in the check in which they are due;
- MQTT connection: a dead link is noticed and replaced, a live one is kept, and
  the most urgent thread does not starve the others;
- MQTT acknowledgements: what `mqtt_publish()` takes arrives, QoS 2 at most once
  in either direction, and the list empties.

## Modules

| Module | Models | Proofs |
|---|---|---|
| `LedControl` | the pin writes of `led_control.c` | |
| `DoubleClap` | abstract specification of the clap switch: claps, silence, lamp, request | |
| `ClapControl` | the handlers and timers of the clap switch | `ClapControlProofs` |
| `RtTimer` | the kernel's list of hard timers, as functions on its state | `ClapControlProofs` |
| `ClapTimers` | `ClapControl` on the list of `RtTimer`, which it shares with a sleeping thread | `ClapControlProofs` |
| `Actuators` | main loop, remote commands and double claps on the shared outputs | `ActuatorsProofs` |
| `ActuatorsHalt` | `Actuators` with a history variable for stop orders | `ActuatorsProofs` |
| `Htu21d`, `MCHtu21d` | the driver of the shared sensor, and an instance of it | `Htu21dProofs` |
| `Fbm320` | the pressure driver on a bus that fails | `Fbm320Proofs` |
| `Report` | request flag, mailbox, main and demo thread | `StationProofs` |
| `Station` | start-up, composed with `Report` | `StationProofs` |
| `MqttClient` | both threads of the MQTT client, its connection and its time-outs | `MqttClientProofs` |
| `MqttAcks`, `MCMqttAcks` | the acknowledgement list against a broker and a network that fails, and an instance of it | `MqttAcksProofs`, `MqttDeliveryProofs` |
| `MqttDelivery` | abstract specification of what QoS 1 and 2 promise | `MqttDeliveryProofs` |

State and actions keep the names of the code. Some correspondences:

- **ClapControl.** `left[t]` is the number of checks a timer still has to run, 0
  when it is not in the kernel's timer list. SysTick is two actions,
  `rt_tick_increase` and `rt_timer_check`; `late` is 1 between them, and a timer
  that a pulse starts then runs until one more check. The callbacks are part of
  the check. `on_soundlevel` has one action per value of the pulse gate. The
  code's two branches on `curr_state` both leave a freshly started
  `clap_space_timer` and `LED_CLAP`, so they are one action.
- **RtTimer, ClapTimers.** The functions of `timer.c` take the kernel's timers (a
  record) and return them changed, so that the two or three calls of
  `on_soundlevel` compose. Here the list alone decides which callbacks run;
  `left` has become a history variable, and `CallbacksOnTime` says that the two
  agree. `earlier` is a history variable too, the order in which the timers of
  the list were started.
- **Actuators.** A call of `turn()` is a sequence of pin writes that the main
  thread performs one action at a time (`todo`, `WritePin`); the same call of
  `drv_stepMotor_ctrl()` inside the handler is one action. A payload is the
  record of the items the handler looks for. `rt_pwm_enable()` and
  `rt_pwm_disable()`, several register writes in the HAL, are one write.
- **Htu21d.** `Begin` is the command transfer, `Finish` the data transfer and
  the conversion; the bus lock makes each atomic. The device is external:
  a measurement takes a fixed time, during which the device does not acknowledge
  a read and either ignores a further command or starts over with it.
- **Fbm320.** Bytes are represented by what they mean (`"temp"`, `"press"`,
  `"zeros"`). Each transfer succeeds or fails; a failed command leaves the last
  conversion in the device, a failed data transfer leaves the buffer as it was.
  `Calculate` records what it is computed from.
- **Report.** A reading is its age, the number of mails received since it was
  measured. `waiting` is a history variable: a request has come since sensors
  were last read.
- **Station.** It extends `Report` and takes its steps once `main()` has got far
  enough, so that the report path is checked from reset on. `booted` counts the
  completed steps of `BootOrder`, the statements of `main()` before its loop.
- **MqttClient.** Timers are what they have left to run. A blocking call is two
  actions, its begin and its end, and the clock runs in between (`timer`, set by
  `Call`). The guard `~MqttReady` gives the client's thread its priority;
  `LockHanded` is the exception, because `rt_mutex_release()` makes a waiting
  thread the owner whoever goes on running. `TcpOk`, `TcpFail`, `SendConnect`,
  `Connack` and `ConnectFails` are the parts of `mqtt_connect_with_results()`,
  which the application calls once and the client's thread whenever it
  reconnects. `todo` counts what `mqtt_ack_list_scan()` or
  `mqtt_try_resubscribe()` has left to send, one lock and one send each; how
  many records are overdue is any number up to `MaxSends`.
  A send takes any time up to `SendTime`, which `CmdTimeout` does not limit:
  `at_sendto()` never applies the time-out that `setsockopt()` stores.
  `mqtt_publish()` that finds too many records, or no memory for one, gives the
  connection up in four steps, outside the lock (`AppRelease`, `AppClose`,
  `AppForget`, `AppTell`); in between the socket may be closed with its number
  still stored (`net = "gone"`), or be another one by now (`stale`). `CutShort`
  is a read that ends before its time on a live link: an oversized packet, or a
  wake-up by a notice of `at_recvfrom()` whose data were handed out before.
  `dead` and `spin` are history variables that measure how long a client without
  a live link says it is connected, and how long others cannot run.
  Simplifications: a packet arrives as a whole, so that a read ends in its time
  (`at_recvfrom()` would wait for ever for the rest of one when the time is used
  up); what has arrived before the link is lost has been read by then; of two
  threads that close one socket at the same time one frees it.
- **MqttAcks.** A step is one critical section of `mqtt_write_lock`; `at` and
  `todo` say where the client's thread is between two of them. Time is left out,
  a record may be overdue at any moment. A record's `payload` is the packet that
  will be sent again. The broker and the network are external: FIFO channels
  that lose what they hold when the link breaks, and a broker that keeps its
  session. The station itself asks for a clean session (`main.c:290`): what its
  broker has not finished when the link breaks is forgotten, and the promises
  here, which are those of the client for QoS 1 and 2, are about clients that set
  `clean_session` to 0. Two things are coarser than the code, and no property
  depends on them: `mqtt_get_next_packet_id()` returns the id it has taken
  (the code reads it again after its lock), and `Release` closes the socket and
  changes the state in one step (`MqttClient` has the steps).

## Runs

| Run | Root module | Checks |
|---|---|---|
| `clap` | `ClapTimers` | `TypeOK`, `GestureCoherent`, `GateWillReopen`, `ClapsApart`; the kernel's list stays in order across the overflow of `rt_tick`, and with it the callbacks run on time, that is, `ClapTimers` implements `ClapControl`; the clap switch implements `DoubleClap`; a gesture ends although uncounted noise goes on for ever |
| `actuators` | `ActuatorsHalt` | `TypeOK`; the motor driver is not left enabled without a step signal; a stop order that finds the main thread outside its threshold block is final; LEDs, motor and fan end up following the thresholds |
| `htu21d` | `MCHtu21d` | `TypeOK`; an undisturbed read is right; a humidity is never taken for a temperature by the main thread |
| `fbm320` | `Fbm320` | `TypeOK`; a read without failures is right after any failures before it |
| `station` | `Station` | the report path from reset on: `TypeOK`, requests are not forgotten, readings are fresh; the mailbox exists before it is used; pulses are harmless once threads run; requests, those during start-up too, are served |
| `mqtt` | `MqttClient` | `TypeOK`; a client that says it is connected has a reading thread, and a socket unless `mqtt_publish()` has just closed it; a client without a live link notices in bounded time, resends, lock waits and slow sends included; a live link is not given up while the PINGRESP is under way, unless the read was cut short or nothing could be sent; the polling of a closed connection is bounded; the connection is restored |
| `mqtt_acks` | `MCMqttAcks` | `TypeOK`; the counter is the length of the list and acknowledgements are unambiguous; a message that was taken is on the list or at the broker; QoS 2 delivers at most once in both directions (two refinements of `MqttDelivery`); the list drains |

Five runs show a disagreement between the code and what its comments,
assertions or documents say (`findings` in `PROJECT.json`):

| Run | Shows |
|---|---|
| `actuators_stop` | a stop order that preempts the main thread inside `turn(1)` is undone, and the motor runs on although the threshold function is off |
| `htu21d_reads` | overlapping reads make `read_temp()` return -1 or -46.85, which main compares with its threshold |
| `station_assert` | a pulse between `init_int()` and `timer_init()` starts a timer that is `RT_NULL`, and the failed assertion hangs the station |
| `mqtt_sockets` | a connection that the broker refuses or does not answer leaves its socket allocated, against the comment that asks to release it; after as many as there are sockets no reconnection can succeed |
| `mqtt_topics` | a subscription whose SUBACK is lost with the connection is not renewed by the reconnection, against the package's README |

Seen while modelling, in single steps that need no run: a double clap sets the
LED status flag to "on" and switches the LEDs off (`main.c:83-85`);
`fbm320_read_data()` never reports a failed transfer; the FBM320's coefficients
are unpacked for formula 1 and used with formula 0 (`fbm320_drv.c:304`);
`platform_timer.c:36` compares times as plain numbers, which fails around the
overflow of `rt_tick` after 49 days, while the kernel's own comparison does not.

### Bounds

- `ClapSpace = 5`, `Debounce = 2` (1000 and 250 ticks in the code): the window
  is longer than twice the debounce time, so a gesture can hold three claps, and
  the two are not multiples of each other. `CntMax` caps `cnt`, which saturates:
  the code only asks whether it is 2, and the cap is above that. `TickMax = 13`
  is odd, as the code's 2^32 - 1, and just large enough for the window to be
  below half of it, as `rt_timer_start()` asserts; `rt_tick` overflows in every
  phase of a gesture. `SleepTimes = {0, 5}`: a thread's timer that is due at once, and one
  that competes with the window for its place in the list.
- `Levels = {0, 1}`: readings and thresholds are only compared, so two ordered
  values give both outcomes of every comparison.
- `Delay = 4` with conversions of at most 4 (temperature) and 2 (humidity)
  ticks: a temperature uses up the whole delay, a humidity is ready early.
- `MaxAge = 3`: ages saturate there; the property separates ages up to 1.
- `KeepAlive = 4`, `CmdTimeout = 2`, `SendTime = 1`, `RetryTime = 1`,
  `Latency = 1`: several reads fit into a keep-alive interval and three sends
  take less than it, as with the code's 100 s, 4 s, up to 20 s and 1 s, and a
  PINGRESP may come in the last moment of a read. `MaxSends = 2`: a scan, or a
  resubscription, has a first, a next and a last packet. `MaxSockets = 2`: one
  socket can leak and one is left. `MqttSockets.cfg` has `MaxSends = 1`. The
  bound of `NoticedInTime` is met: with one tick less TLC finds it violated. In the
  station's numbers it is far from comfortable: a client with 64 records that
  are all overdue may spend 2 * 20 s on each before it looks at its timers
  again. Nothing else needs a bound.
- `MqttAcks`: one message of each quality in each direction and one topic, of
  which at most three are used (`MaxExchanges`), two packet ids, so that ids are
  used again (the code's 65534), one id for all of the broker's messages, one
  fault, channels of two packets. `MaxAcks = 1`: the limit is met by the second
  publication. Deliveries are counted up to `QoS[m]`: one for QoS 1, where
  repetitions are allowed, two for QoS 2. With one message of each quality two
  awaited messages of one quality never share an id here, so the run does not
  look at that case: `NothingLost` and `PublishedOnce` are false in it.
- `Station` and `MqttAcks` are checked with `CHECK_DEADLOCK FALSE`: a failed
  assertion does stop the station, and all exchanges may be over. Every other
  run checks for deadlock.

### Fairness

- `ClapTimers`: weak fairness of SysTick (`Tick \/ Check`); the hardware timer
  keeps running.
- `ActuatorsHalt`: weak fairness of the main thread, which blocks only in delays
  and in transfers that end. The MQTT thread and claps are not fair.
- `Station`: weak fairness of the main and the demo thread. It assumes
  that the calls they make return (the MQTT client's end with the AT device's answer
  or its time-outs). Interrupts
  are not fair. `BootRequestServed` assumes that the station does not hang and
  that the light sensor is found, since `main()` returns otherwise.
- `MqttClient`: weak fairness of the client's thread, which is the most urgent
  one, and of the application's sends, which the AT device answers or gives up.
  Strong fairness of the clock, which goes on although the client's thread may
  pass from round to round without a pause.
  Strong fairness of the three steps of a reconnection: it is tried again for ever, and
  a network that lets it succeed again and again lets it succeed in the end.
  `Recovers` assumes that there is a socket to be had whenever the client stores
  none (the leak of `mqtt_sockets`, or `mqtt_publish()` forgetting a new socket,
  can use them up) and that the application
  does not disconnect.
- `MqttAcks`: weak fairness of both threads and of the broker; strong fairness
  of a record that is overdue again and again: its time-out is restarted after
  every attempt, so it is scanned for ever. `Drains` excludes a record that was
  corrupted (`Corrupted`) and stays so: the broker closes the connection
  whenever it is resent.

## Proofs

TLAPS proves the following for all values of the constants that satisfy the
named assumptions (`ClapAssumption`: `0 < Debounce < ClapSpace`, `CntMax > 2`;
`LevelsAssumption`: a non-empty set of integers; `HtuAssumption`: conversions
take between one tick and the whole delay; `AgeAssumption`: `MaxAge > 2`;
`TickAssumption`, `SleepAssumption`: every timeout is below half of
`RT_TICK_MAX`, as `rt_timer_start()` asserts; `AcksAssumption`: every message has
QoS 1 or 2, there are packet ids, and messages, topics and `None` are different
things;
`MqttAssumption`: a PINGRESP takes less than a command time-out, and three sends
less than the keep-alive interval).

- Every module's `TypeOK`.
- `ClapControlProofs`: `TypeOK /\ GestureCoherent /\ GateWillReopen /\
  ClapsApart` is inductive. None of the last three is inductive alone: the
  spacing of claps needs the debounce timer to run while the gate is closed, and
  the judgement of the gesture needs count and timer to agree. All hold between
  the two halves of SysTick too, where a pulse restarts timers for one more
  check. From the invariant follows step by step that `ClapControl` implements
  `DoubleClap` (`ClapControlImplementsDoubleClap`).
- `ClapControlProofs`, on the kernel's list: `ListAlwaysInOrder` and
  `CallbacksAlwaysOnTime`, for every `RT_TICK_MAX` and every position of its
  overflow. `ListInOrder` is not inductive. The comparison of two ticks in
  `rt_timer_start()` means "later" only while both are near (`Near`: a timer of
  the list is due in less than half the range, and one more between the halves
  of SysTick), and `rt_timer_stop()` takes a timer out only if it is there once
  (`NoDuplicates`). `Sound` is all of this; `StopSound`, `StartSound`,
  `TickSound` and `CheckSound` say that each kernel operation keeps it, for any
  set of timers, and `ExpiredFacts` that a check takes off exactly the timers
  that are due. `TimersInv` adds that a timer of the switch is in the list
  exactly while `left` is positive, and due in as many ticks. From it every step
  of `ClapTimers` is one of `ClapControl` or a stutter, and what was proved
  there holds on the kernel's timers (`SwitchOnKernelTimers`).
- `ActuatorsProofs`: `NotHeldUnderCurrent` is not inductive, because the handler
  may run between any two writes of `turn()`. `LastWriteIsSafe` closes the gap:
  the last write of every `turn()` (EN high, or PWM on) excludes the bad mixture
  by itself. `HaltAlwaysFinal` needs in addition that after an idle halt
  `flag_arr` is 0 and the main thread stays out of its block.
- `Htu21dProofs`: an undisturbed read's measurement was started by it and has
  no more ticks left than its delay (`AloneInv`); the main thread only ever
  reads temperatures (`MainReadsTemp`), so the status bit protects it.
- `Fbm320Proofs`: `Progress` says what registers and raw values hold at every
  point of a read that has not failed so far.
- `StationProofs`, on `Report`: `OneMail` says that receiving empties the mailbox, so that a
  reading ages at most once, in the hands of the main thread.
- `StationProofs`, on `Station`: `BootInv` relates the progress of `main()` to the demo thread
  and to a hang. Every step of `Station` is a step of `Report` or a stutter
  (`StationImplementsReport`), which carries `TypeOK`, `NoRequestForgotten` and
  `ReadingIsFresh` over.
- `MqttAcksProofs`: `CountIsLength` together with the finiteness of the list: an
  unrecord takes away at most one entry because acknowledgements are
  unambiguous, and that is why the counter may go down by one.
  `AcksTypeCorrect` needs in addition that records of subscriptions hold topics.
- `MqttDeliveryProofs`, from the broker: `ReceivedAtMostOnce`, without further
  assumptions. `InboundInv` says that a QoS 2 message that was handed over is on
  the list, or in hand, for as long as a copy of it is under way (`CopyKnown`), and that
  PUBREL, which strikes it off, is behind the last copy on the channel.
- `MqttDeliveryProofs`, to the broker: `NothingLost` and `PublishedOnce` are
  proved under `FreshIds`: no publication gets a packet id of which a record, a
  packet or the broker's memory is left. `mqtt_get_next_packet_id()` counts
  round its 65534 ids without looking, and without the assumption both are false
  (two messages of QoS 2 and a single id are enough for TLC to show it).
  `OutboundInv` says
  that an id stands for one message (`OneId`), that what is acknowledged has
  arrived (`AckedDelivered`), that while a copy of a QoS 2 message is left the
  broker knows its id exactly if it has the message (`PendingDelivered`), and
  that a release follows all copies (`ReleaseOrder`, `NotReleased`).
  `FirstRoundIsFresh` discharges the assumption for as long as the last id has
  not been given away, because everything in use has an id given away before
  (`Seen`); `FirstRoundDelivers` is what the client then promises.
- `MqttClientProofs`: `MqttInv` is the conjunction of what each place of the two
  threads means: who runs (`Roles`), who holds the lock (`Locking`), which socket
  there is (`Socket`), what is left to send (`Work`), how much time is left
  (`TimesLeft`, `Pinging`), and how old a dead link may be at that place (`Age`).
  `NoticedInTime` is far from inductive. It adds up the age at which a round
  first finds the timers expired (`FirstLook`: a keep-alive interval and the scan
  that begins at its end, or a reconnection with its subscriptions, scan and
  pause), that read, the wait for the lock and the ping, one more scan, and the
  last read; `Cost` is what a scan takes when the application sends a packet of
  its own before each. That a packet read before the link was lost cannot put
  this off needs its handler to be short, which is why three sends must take less
  than a keep-alive interval.
  `ConnectedIsServed` needs to know what the application is doing to a socket
  that is gone. `NoFalseAlarm` rests on `Pinging`: a read after a ping has more
  time left than the answer needs, however long the scan between the two took.

Only model-checked: everything under fairness (`NoiseCannotHoldGesture`,
`OutputsSettle`, `FanFollows`, `BootRequestServed`, `Recovers`, `Drains`), which
is beyond the prover, and the counterexamples. Every invariant and every safety
action property of the passing runs is a theorem, `NothingLost` and
`PublishedOnce` under the hypothesis above.

## Not modelled

- `Calculate()`'s arithmetic and the conversions of the HTU21D: floating point
  and 32-bit overflow; only what they are computed from is kept.
- BH1750 driver: a straight sequence of transfers; a light reading is any value.
- Of the MQTT client: `mqtt_unsubscribe()` and wills (the station uses neither),
  a thread that cannot be created, packets that come in parts, the packet codec
  and topic matching; sends that are reported as failed but arrive.
- Of the kernel: periodic and soft timers, creation and deletion, the mailbox's
  ring buffer (one entry here) and lists of suspended threads.
- cJSON, AT client and ESP8266 driver, HAL, board support: third-party code and
  I/O. `applications/cjson.c` and `loop_led()`: not called.
- Failed creation of timers, threads or the mailbox (no memory at start-up).

## Plan

Done, in this order: clap switch with its abstract specification; shared
outputs; HTU21D; report path; start-up composed with it; FBM320; the kernel's
timer list under the clap switch; the MQTT client's connection; its
acknowledgement list with an abstract specification of delivery; proofs of all
safety properties.

Next:

1. `RtMailbox`: the ring buffer with suspended threads, refining the FIFO of
   `Report`, with its proof.
2. Proofs: `TimersInv` for any number of sleeping threads (the lemmas about the
   list do not depend on how many timers there are).
3. `Bh1750` with the width of a reported light reading; topic matching and the
   remaining-length codec of MQTT as functions checked against a reference
   definition.
