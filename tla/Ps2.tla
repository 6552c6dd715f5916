--------------------------------- MODULE Ps2 ---------------------------------
(***************************************************************************)
(* The PS/2 driver, src/src/kernel/hardware/io/ps2.c, with its keyboard    *)
(* and mouse drivers.                                                      *)
(*                                                                         *)
(* The controller and the devices are external.  The controller has one    *)
(* output buffer for both ports and raises IRQ 1 or 12 when it fills; a    *)
(* device answers its latest command before it sends anything else.  A     *)
(* task sets the devices up by polling, with interrupts on, so that an     *)
(* interrupt comes before the task can notice a byte.  An interrupt        *)
(* handler has interrupts off; when it sends a command to the keyboard to  *)
(* set the LEDs it polls, too, but the timer stands still meanwhile.       *)
(***************************************************************************)
EXTENDS Keyboard, Integers, FiniteSetsExt

CONSTANTS
  Port2,         \* what port 2 can be, see second
  KeysWithMouse, \* the keys that are pressed if there is a mouse
  MaxStrokes,    \* how often keys are pressed or released, at most
  MaxPackets,    \* how often the mouse moves, at most
  Movements,     \* what the second and third byte of a packet can be
  EarlyKeys,     \* whether keys are pressed while the controller is set up
  Prompt         \* whether devices are so fast that ps2_flush meets all they have to answer

ASSUME Ps2Assumption ==
  /\ Port2 \subseteq {"present", "reads 0", "reads 1"} /\ Port2 # {}
  /\ KeysWithMouse \subseteq KeyNames
  /\ MaxStrokes \in Nat /\ MaxPackets \in Nat
  /\ Movements \subseteq 0 .. 255
  /\ EarlyKeys \in BOOLEAN /\ Prompt \in BOOLEAN

VARIABLES
  second,      \* whether there is a port 2, or what the bit for its clock reads without
  port2_supported,
  outbuf,      \* what the output buffer holds: a port and a byte, or NoByte
  latch,       \* the byte that reading an empty output buffer yields
  irr,         \* ports whose interrupt is requested
  device,      \* the devices, and the controller as far as it answers
  config,      \* the configuration of the controller, as the set of its bits
  pc,          \* the operation of Program that the task is at
  flushing,    \* whether ps2_flush has seen a byte and is about to read it
  reset_timeout, \* the timeout of ps2_reset_device's loop, see ResetTimeouts
  init_done,
  polling,     \* 0 outside of handlers, else which answer the handler waits for
  driver,      \* state of the keyboard driver
  packet_len,  \* state of the mouse driver
  down,        \* keys that are held down
  strokes,     \* counts strokes
  packets,     \* counts packets
  lost,        \* history: ports a byte of which was read by polling, or dropped
  astray       \* history: whether a driver was ever given what is not a byte for it

hardware == <<outbuf, latch, irr, device, config, second>>
task == <<port2_supported, pc, flushing, reset_timeout, init_done>>
drivers == <<polling, driver, packet_len>>
user == <<down, strokes, packets>>
vars == <<hardware, task, drivers, user, lost, astray>>

DEVICE_ACK == 250           \* 0xFA
DEVICE_TEST_PASSED == 170   \* 0xAA
MOUSE_ID == 0
TEST_PS2_PASSED == 85       \* 0x55

\* The ports; the controller itself answers as if it were the first device.
Ports == {1, 2}
CONTROLLER == 0
IRQOf(source) == IF source = 2 THEN 2 ELSE 1

\* A byte knows its port and whether it is input, that is, sent because of a key or a
\* movement, as opposed to an answer.  The driver sees the data only.
Byte == [port : Ports \union {CONTROLLER}, data : 0 .. 255, input : BOOLEAN]
NoByte == [port |-> -1, data |-> 0, input |-> FALSE]

\* scanning: whether input is sent; argument: whether a command awaits its argument.
Device == [answers : Seq(0 .. 255), queue : Seq(0 .. 255),
           scanning : BOOLEAN, argument : BOOLEAN]

\* A pit_timeout_t, with what pit_timed_out can make of it.  Nobody has looked at it yet
\* ("unseen"); the first look was in time ("waiting"), or just at its moment, so that the next
\* look ends it ("due"), or after its moment ("missed").  A missed one is taken for one that
\* lies behind the overflow of ticks, and runs on for 2^32 ticks: for ever, in the model.
ResetTimeouts == {"unseen", "waiting", "due", "missed"}

\* ps2_config_t: interrupts, clocks (disabled if set) and translation.
INTR(port) == port - 1
CLOCK(port) == port + 3
TRANSL == 6
BitsOf(data) == {n \in 0 .. 7 : (data \div 2^n) % 2 = 1}
ByteOf(bits) == CHOOSE data \in 0 .. 255 : BitsOf(data) = bits

\* What becomes of the configuration bits if they are written.
Written(bits) ==
  CASE second = "present" -> bits
    [] second = "reads 0" -> bits \ {CLOCK(2)}
    [] second = "reads 1" -> bits \union {CLOCK(2)}

-----------------------------------------------------------------------------
(* The set-up as a sequence of operations.  Those for port 2 are skipped   *)
(* if it is not supported.                                                 *)

On(op, port) == [op |-> op, port |-> port]
Flush == On("flush", CONTROLLER)

\* A command for a device is followed by ps2_read_device.
Sent(op, port, n) == [i \in 1 .. 2 * n |-> On(IF i % 2 = 1 THEN op ELSE "await", port)]

\* ps2_init_controller.
DetectAgain == <<On("enable port", 2), On("read config", 2), On("detect again", 2)>>

SetUpController ==
  <<On("disable port", 1), On("disable port", 2), Flush,
    On("read config", CONTROLLER), On("detect", CONTROLLER),
    On("test", CONTROLLER), On("await", CONTROLLER)>>
  \o DetectAgain \o
  <<On("test", CONTROLLER), On("await", CONTROLLER), On("test", 2), On("await any", 2),
    On("enable port", 1), On("enable port", 2),
    On("read config", CONTROLLER), On("turn on", CONTROLLER)>>

ResetDevices ==
  <<On("reset", 1), On("await reset", 1), On("reset", 2), On("await reset", 2), Flush>>

DisableDevices ==
  Sent("disable", 1, 1) \o <<Flush>> \o Sent("disable", 2, 1) \o <<Flush>>

\* keyboard_init sets the LEDs and the scancode set, each with an argument.
SetUpKeyboard ==
  Sent("set", 1, 4) \o <<On("read config", CONTROLLER), On("translate", CONTROLLER)>>

\* mouse_init sets resolution and sample rate.
SetUpMouse == Sent("set", 2, 4)

EnableDevices == Sent("enable", 1, 1) \o Sent("enable", 2, 1)

InitDone == On("init_done", CONTROLLER)

\* Plausible slips in Program: the devices are not disabled while they are set up; the last
\* bytes are flushed too early.
NotDisabledMutant ==
  SetUpController \o ResetDevices \o
  SetUpKeyboard \o SetUpMouse \o EnableDevices \o <<InitDone, Flush>>
FlushFirstMutant ==
  SetUpController \o ResetDevices \o DisableDevices \o
  SetUpKeyboard \o SetUpMouse \o EnableDevices \o <<Flush, InitDone>>

\* ps2_init.
Program ==
  SetUpController \o ResetDevices \o DisableDevices \o
  SetUpKeyboard \o SetUpMouse \o EnableDevices \o <<InitDone, Flush>>

\* Where the task goes from operation i.
After(i, supported) ==
  Min({j \in i + 1 .. Len(Program) + 1 :
         supported \/ j > Len(Program) \/ Program[j].port # 2})

ControllerDone == pc > Len(SetUpController)

TypeOK ==
  /\ second \in Port2 /\ port2_supported \in BOOLEAN
  /\ outbuf \in Byte \union {NoByte} /\ latch \in Byte \union {NoByte}
  /\ irr \subseteq Ports /\ config \subseteq 0 .. 7
  /\ device \in [Ports \union {CONTROLLER} -> Device]
  /\ pc \in 1 .. Len(Program) + 1
  /\ flushing \in BOOLEAN /\ reset_timeout \in ResetTimeouts /\ init_done \in BOOLEAN
  /\ polling \in 0 .. 2
  /\ driver \in Driver /\ Len(driver.buf) < SCANCODE_LEN
  /\ packet_len \in 0 .. PACKET_LEN - 1
  /\ down \subseteq KeyNames /\ strokes \in 0 .. MaxStrokes /\ packets \in 0 .. MaxPackets
  /\ lost \subseteq Ports /\ astray \in BOOLEAN

Init ==
  /\ second \in Port2 /\ port2_supported = TRUE
  /\ outbuf = NoByte /\ latch = NoByte /\ irr = {}
  /\ config = Written({INTR(1), INTR(2), TRANSL})
  /\ device = [p \in Ports \union {CONTROLLER} |->
       [answers |-> <<>>, queue |-> <<>>, scanning |-> p = 1, argument |-> FALSE]]
  /\ pc = 1 /\ flushing = FALSE /\ reset_timeout = "unseen" /\ init_done = FALSE
  /\ polling = 0 /\ driver = InitialDriver /\ packet_len = 0
  /\ down = {} /\ strokes = 0 /\ packets = 0
  /\ lost = {} /\ astray = FALSE

-----------------------------------------------------------------------------
(* The user, the devices and the controller.                               *)

Send(port, bytes) == device' = [device EXCEPT ![port].queue = @ \o bytes]

CanType ==
  /\ device[1].scanning /\ strokes < MaxStrokes
  /\ EarlyKeys \/ ControllerDone

Press(key) ==
  /\ CanType
  /\ key.name \notin down
  /\ second = "present" => key.name \in KeysWithMouse
  /\ Send(1, key.make)
  /\ down' = down \union {key.name} /\ strokes' = strokes + 1
  /\ UNCHANGED <<outbuf, latch, irr, config, second, task, drivers, packets, lost, astray>>

Release(key) ==
  /\ CanType
  /\ key.name \in down
  /\ Send(1, key.break)
  /\ down' = down \ {key.name} /\ strokes' = strokes + 1
  /\ UNCHANGED <<outbuf, latch, irr, config, second, task, drivers, packets, lost, astray>>

\* The first byte of a packet has nothing but the flag.
Move(x, y) ==
  /\ second = "present" /\ device[2].scanning /\ packets < MaxPackets
  /\ Send(2, <<FLAG_ALWAYS_ONE, x, y>>)
  /\ packets' = packets + 1
  /\ UNCHANGED <<outbuf, latch, irr, config, second, task, drivers, down, strokes, lost, astray>>

Fill(port, data, input) ==
  /\ outbuf = NoByte
  /\ outbuf' = [port |-> port, data |-> data, input |-> input]
  /\ irr' = IF INTR(IRQOf(port)) \in config THEN irr \union {IRQOf(port)} ELSE irr
  /\ UNCHANGED <<latch, config, second, task, drivers, user, lost, astray>>

\* What a device sends waits while its clock is disabled.
Clocked(port) == port = CONTROLLER \/ CLOCK(port) \notin config

Answer(port) ==
  /\ device[port].answers # <<>> /\ Clocked(port)
  /\ Fill(port, Head(device[port].answers), FALSE)
  /\ device' = [device EXCEPT ![port].answers = Tail(@)]

Input(port) ==
  /\ device[port].answers = <<>> /\ device[port].queue # <<>> /\ ~ device[port].argument
  /\ Clocked(port)
  /\ Fill(port, Head(device[port].queue), TRUE)
  /\ device' = [device EXCEPT ![port].queue = Tail(@)]

\* A command changes a device: to reset or to disable it drops what it has not sent yet.
Commanded(d, op, port) ==
  CASE op = "reset" ->
         [answers |-> <<DEVICE_ACK, DEVICE_TEST_PASSED>> \o
                       (IF port = 2 THEN <<MOUSE_ID>> ELSE <<>>),
          queue |-> <<>>, scanning |-> port = 1, argument |-> FALSE]
    [] op = "disable" ->
         [d EXCEPT !.answers = <<DEVICE_ACK>>, !.queue = <<>>, !.scanning = FALSE]
    [] op = "enable" -> [d EXCEPT !.answers = <<DEVICE_ACK>>, !.scanning = TRUE]
    [] op = "read config" -> [d EXCEPT !.answers = <<ByteOf(config)>>]
    [] op = "test" -> [d EXCEPT !.answers = <<TEST_PS2_PASSED>>]
    [] op = "set" -> [d EXCEPT !.answers = <<DEVICE_ACK>>]
    [] op = "leds" -> [d EXCEPT !.answers = <<DEVICE_ACK>>, !.argument = ~ @]

Obey(op, port) ==
  /\ device' = [device EXCEPT ![port] = Commanded(@, op, port)]
  /\ lost' = IF op \in {"reset", "disable"} /\ device[port].queue # <<>>
             THEN lost \union {port} ELSE lost

-----------------------------------------------------------------------------
(* Polling.                                                                *)

\* inb(PS2_DATA): reading an empty buffer yields what was read before.
Data == IF outbuf = NoByte THEN latch ELSE outbuf
inb == outbuf' = NoByte /\ latch' = Data

\* PS2_ANY_PORT is CONTROLLER.
ps2_available(port) == outbuf # NoByte /\ (port = CONTROLLER \/ IRQOf(outbuf.port) = port)

\* What is polled is not handed to a driver.
Poll ==
  /\ inb
  /\ lost' = IF outbuf.input THEN lost \union {outbuf.port} ELSE lost
  /\ UNCHANGED <<irr, device, second, drivers, user, astray>>

Proceed ==
  /\ pc' = After(pc, port2_supported) /\ flushing' = FALSE /\ reset_timeout' = "unseen"
  /\ UNCHANGED <<port2_supported, init_done>>
Stay == UNCHANGED <<port2_supported, pc, init_done>> /\ flushing' = FALSE

\* The task that runs ps2_init is at operation op, and no interrupt is due.
At(op) ==
  /\ polling = 0 /\ irr = {}
  /\ pc \in DOMAIN Program /\ Program[pc].op = op

Command(op) ==
  /\ At(op)
  /\ Obey(op, IF op \in {"read config", "test"} THEN CONTROLLER ELSE Program[pc].port)
  /\ Proceed
  /\ UNCHANGED <<outbuf, latch, irr, config, second, drivers, user, astray>>

\* ENABLE_PORT_1 to DISABLE_PORT_2.
SwitchPort(op) ==
  /\ At(op)
  /\ LET clock == {CLOCK(Program[pc].port)}
     IN  config' = Written(IF op = "enable port" THEN config \ clock ELSE config \union clock)
  /\ Proceed
  /\ UNCHANGED <<outbuf, latch, irr, device, second, drivers, user, lost, astray>>

AwaitAnswer ==
  /\ At("await") /\ ps2_available(Program[pc].port)
  /\ Poll
  /\ Proceed
  /\ UNCHANGED config

\* The answer to TEST_PORT_2 is no byte of port 2.
AwaitAny ==
  /\ At("await any") /\ ps2_available(CONTROLLER)
  /\ Poll
  /\ Proceed
  /\ UNCHANGED config

\* ps2_read_config yields the bits that were read, be they bits of the configuration or not;
\* others are written back.
AwaitConfig(op, written, supported) ==
  /\ At(op) /\ ps2_available(CONTROLLER)
  /\ Poll
  /\ config' = Written(written)
  /\ port2_supported' = supported
  /\ pc' = After(pc, supported)
  /\ UNCHANGED <<flushing, reset_timeout, init_done>>

Read == BitsOf(outbuf.data)

\* A plausible slip in the next action: the clock is not looked at once port 2 is enabled.
DetectOnceMutant ==
  \/ AwaitConfig("detect", Read \ {INTR(1), INTR(2), TRANSL},
                 port2_supported /\ CLOCK(2) \in Read)
  \/ AwaitConfig("detect again", config \union {CLOCK(2)}, port2_supported)

\* There is a port 2 if its clock can be disabled and enabled; if so it is disabled again.
DetectPort2 ==
  \/ AwaitConfig("detect", Read \ {INTR(1), INTR(2), TRANSL},
                 port2_supported /\ CLOCK(2) \in Read)
  \/ AwaitConfig("detect again",
                 IF CLOCK(2) \in Read THEN config ELSE config \union {CLOCK(2)},
                 port2_supported /\ CLOCK(2) \notin Read)

\* The end of ps2_init_controller.
TurnOn ==
  AwaitConfig("turn on",
              Read \union {INTR(1)} \union (IF port2_supported THEN {INTR(2)} ELSE {}),
              port2_supported)

\* The end of keyboard_scancode_set.
TurnTranslationOff == AwaitConfig("translate", Read \ {TRANSL}, port2_supported)

\* ps2_reset_device waits for a particular answer.  After any other byte it looks at its own
\* timeout, in time, unless the moment had come before.
AwaitReset ==
  /\ At("await reset") /\ ps2_available(Program[pc].port)
  /\ Poll
  /\ IF outbuf.data = DEVICE_TEST_PASSED \/ reset_timeout = "due" THEN Proceed
     ELSE Stay /\ reset_timeout' = IF reset_timeout = "unseen" THEN "waiting" ELSE reset_timeout
  /\ UNCHANGED config

\* The devices answer in time; only if the answer is not to come the timeout is reached.
NothingToCome ==
  LET port == Program[pc].port
  IN  \/ outbuf # NoByte
      \/ ~ Clocked(port)
      \/ device[port].answers = <<>> /\ device[port].queue = <<>>

TimedOut == NothingToCome /\ ~ ps2_available(Program[pc].port)

\* A plausible slip in the next action: there are no timeouts.
NoTimeoutMutant == FALSE /\ UNCHANGED vars

\* When ps2_read has timed out, so has the timeout of ps2_reset_device, which is as long and
\* was made before.  But if this is the first look at it the loop goes on: for one more look
\* if ticks is still at its moment, else until ticks overflows.
LookAfterTimeout ==
  \/ reset_timeout \in {"waiting", "due"} /\ Proceed
  \/ reset_timeout = "unseen" /\ Stay /\ reset_timeout' \in {"due", "missed"}

AwaitTimesOut ==
  /\ \/ At("await") /\ TimedOut /\ Proceed
     \/ At("await reset") /\ TimedOut /\ LookAfterTimeout
  /\ UNCHANGED <<hardware, drivers, user, lost, astray>>

ps2_flush ==
  /\ At("flush") /\ ~ flushing
  /\ IF ps2_available(0)
     THEN flushing' = TRUE /\ UNCHANGED <<port2_supported, pc, reset_timeout, init_done>>
     ELSE Proceed /\ (Prompt => \A port \in Ports : device[port].answers = <<>>)
  /\ UNCHANGED <<hardware, drivers, user, lost, astray>>

FlushByte ==
  /\ At("flush") /\ flushing /\ ps2_available(0)
  /\ Poll
  /\ Stay
  /\ UNCHANGED <<config, reset_timeout>>

SetInitDone ==
  /\ At("init_done")
  /\ init_done' = TRUE /\ pc' = pc + 1
  /\ UNCHANGED <<hardware, port2_supported, flushing, reset_timeout, drivers, user, lost, astray>>

-----------------------------------------------------------------------------
(* The interrupt handler.                                                  *)

\* The driver for port gets the byte.
Deliver(port, byte) ==
  /\ astray' = (astray \/ byte # outbuf \/ byte.port # port \/ ~ byte.input)
  /\ IF port = 1
     THEN /\ driver' = keyboard_handle_data(driver, byte.data)
          /\ UNCHANGED packet_len
     ELSE /\ packet_len' = mouse_handle_data(packet_len, byte.data)
          /\ UNCHANGED driver

\* keyboard_leds is called, which sends a command and waits for its answer.
SetsLeds(port) == port = 1 /\ driver'.locks # driver.locks

Handles(port) == init_done /\ (port = 2 => port2_supported)

\* A byte that comes before everything is set up is left to the task.
Handle(port, ignored) ==
  /\ polling = 0 /\ port \in irr
  /\ irr' = irr \ {port}
  /\ \/ /\ ~ Handles(port)
        /\ UNCHANGED <<outbuf, latch, device, drivers, lost, astray>>
     \/ /\ Handles(port) /\ Data.data \in ignored
        /\ inb
        /\ UNCHANGED <<device, drivers, lost, astray>>
     \/ /\ Handles(port) /\ Data.data \notin ignored
        /\ inb
        /\ Deliver(port, Data)
        /\ IF SetsLeds(port) THEN polling' = 1 /\ Obey("leds", 1)
           ELSE polling' = 0 /\ UNCHANGED <<device, lost>>
  /\ UNCHANGED <<config, second, task, user>>

\* A plausible slip in the next action: acknowledgements are not ignored.
KeepAckMutant(port) == Handle(port, {})

ps2_handle_interrupt(port) == Handle(port, {DEVICE_ACK})

\* ps2_read in a handler: no tick is counted, so that there is no timeout.  The answer to
\* SET_LEDS is followed by the argument.
AwaitLeds ==
  /\ polling # 0 /\ ps2_available(1)
  /\ inb
  /\ IF polling = 1
     THEN device' = [device EXCEPT ![1].answers = <<DEVICE_ACK>>, ![1].argument = FALSE]
     ELSE UNCHANGED device
  /\ lost' = IF outbuf.input THEN lost \union {1} ELSE lost
  /\ polling' = (polling + 1) % 3
  /\ UNCHANGED <<irr, config, second, driver, packet_len, task, user, astray>>

-----------------------------------------------------------------------------

User ==
  \/ \E i \in DOMAIN KeyTable : Press(KeyTable[i]) \/ Release(KeyTable[i])
  \/ \E x, y \in Movements : Move(x, y)

Controller == \E port \in Ports \union {CONTROLLER} : Answer(port) \/ Input(port)

Task ==
  \/ \E op \in {"read config", "test", "reset", "disable", "set", "enable"} : Command(op)
  \/ \E op \in {"enable port", "disable port"} : SwitchPort(op)
  \/ DetectPort2 \/ TurnOn \/ TurnTranslationOff
  \/ AwaitAnswer \/ AwaitAny \/ AwaitReset \/ AwaitTimesOut
  \/ ps2_flush \/ FlushByte \/ SetInitDone

Handler == (\E port \in Ports : ps2_handle_interrupt(port)) \/ AwaitLeds

Next == User \/ Controller \/ Task \/ Handler

Spec == Init /\ [][Next]_vars

(* Devices send what they have, interrupts are handled, the task goes on.  *)
(* Users do as they like.                                                  *)
FairSpec == Spec /\ WF_vars(Controller) /\ WF_vars(Task) /\ WF_vars(Handler)

-----------------------------------------------------------------------------
(* Properties.                                                             *)

\* No byte of port is on its way.
Quiet(port) ==
  /\ device[port].queue = <<>>
  /\ (outbuf.port = port => ~ outbuf.input)

(* keyboard_handle_data is "called by the PS/2 driver with a scancode      *)
(* byte", mouse_handle_data with a byte of a packet: each byte comes from  *)
(* the right device, once, and is no answer to a command.                  *)
RightDriver == ~ astray

(* After any sequence of strokes the state machine of the keyboard driver  *)
(* is back at its start and knows which keys are down, unless a byte was   *)
(* polled before the driver could get it.                                  *)
KeysRecognised ==
  Quiet(1) /\ 1 \notin lost =>
    /\ driver.keyboard_state = "START" /\ driver.buf = <<>>
    /\ driver.keys = down \ (LockKeys \union {"PAUSE"})
    /\ driver.shift = (down \intersect ShiftKeys # {})

(* The mouse driver is never out of step with the packets of the mouse.    *)
PacketsAligned == Quiet(2) /\ 2 \notin lost => packet_len = 0

(* From init_done on a byte in the output buffer is read at some time, so  *)
(* that the devices can go on: no interrupt was missed at the end of       *)
(* ps2_init_devices.                                                       *)
NothingStuck == init_done /\ outbuf # NoByte ~> outbuf = NoByte

(* Port 2 is taken for supported exactly if there is one, whatever the bit *)
(* for its clock reads on a controller without.                            *)
Port2Detected == ControllerDone => port2_supported = (second = "present")

(* Once ps2_init_controller is over the interrupts and clocks of all ports *)
(* are on and stay so: no byte of a device is taken for the configuration, *)
(* such as a scancode, or an answer that ps2_flush should have cleared.    *)
ConfigKept ==
  ControllerDone =>
    config = Written({INTR(1)} \union (IF second = "present" THEN {INTR(2)} ELSE {}))

Resetting == pc \in DOMAIN Program /\ Program[pc].op = "await reset"

\* The keyboard has the output buffer and the mouse has not acknowledged its reset yet.
ResetDisturbed ==
  /\ Resetting /\ Program[pc].port = 2
  /\ outbuf.input /\ device[2].answers # <<>> /\ Head(device[2].answers) = DEVICE_ACK

(* ps2_init ends with whatever is typed meanwhile, awaited answers that    *)
(* are kept out of the output buffer included, if only no key takes the    *)
(* buffer before the mouse has acknowledged its reset.                     *)
InitEnds == []~ ResetDisturbed => <>(pc = Len(Program) + 1)

(* pit.c:84-86 has it that a moment that is missed "when doing heavier     *)
(* tasks like I/O polling" is no problem since it compares with > and <:   *)
(* the loop of ps2_reset_device comes to an end.  Fails: see README.md.    *)
ResetEnds == Resetting ~> ~ Resetting

(* ps2_read waits until the "controller holds data for port or a timeout   *)
(* occurs": a handler that polls comes to an end.                          *)
PollingEnds == polling # 0 ~> polling = 0

=============================================================================
