-------------------------------- MODULE Uhci --------------------------------
(***************************************************************************)
(* The UHCI host controller driver (driver/usb/uhci/mod.rs): the           *)
(* enumeration of the two root ports at boot, each control transfer a      *)
(* chain of descriptors hung on the one asynchronous queue head, and the   *)
(* interrupt transfers of HID devices that stay in the schedule and are    *)
(* re-armed from the interrupt handler (driver/usb/mod.rs).                *)
(*                                                                         *)
(* The controller and the devices run on their own: they walk the          *)
(* schedule in memory, complete descriptors and raise status bits at any   *)
(* point of what the driver does.                                          *)
(***************************************************************************)
EXTENDS Integers, Sequences, FiniteSets, SequencesExt, FiniteSetsExt

CONSTANTS UhPlugs,      \* what may sit in the two ports: functions 1..2 -> kind
          UhFrames,     \* page frames a PhysBuf may take
          MaxReports,   \* bound: packets a HID device sends
          MaxUhFaults   \* bound: transfers or packets that go wrong

ASSUME UhSizes == /\ UhPlugs \subseteq [1..2 -> {"none", "hid", "other"}]
                  /\ UhFrames \subseteq Nat /\ MaxReports \in Nat
                  /\ MaxUhFaults \in Nat

VARIABLES uh,         \* the driver: where it is, its buffers, its drivers
          hw,         \* the schedule and registers the controller works on
          uhFaults    \* faults so far
uhVars == <<uh, hw, uhFaults>>

-----------------------------------------------------------------------------
(* The control transfers of enumerate_device_on_port and of the HID        *)
(* driver's init, in order: how often each is tried when it times out, and *)
(* the step a failure leads to (0 gives the port up).  Only requests that  *)
(* return data have a data buffer.  The device is one that names its class *)
(* in its interface and has both strings, which is the longest path.       *)
StepAt(tries, fail, data) == [tries |-> tries, fail |-> fail, data |-> data]

(* get_device_descriptor_prefix, set_address, get_device_descriptor_full.  *)
PrefixStep == StepAt(3, 0, TRUE)
AddressStep == StepAt(3, 0, FALSE)
DescriptorStep == StepAt(3, 0, TRUE)
(* get_config_descriptor: the header, then the whole.                      *)
ConfigSteps == <<StepAt(1, 6, TRUE), StepAt(1, 6, TRUE)>>
(* get_langid, and get_string_descriptor, header and whole, for each name. *)
LangStep == StepAt(1, 11, TRUE)
StringSteps(fail) == <<StepAt(1, fail, TRUE), StepAt(1, fail, TRUE)>>
(* The HID driver's init: configuration header and whole, set              *)
(* configuration, protocol and idle rate.                                  *)
HidSteps == <<StepAt(1, 0, TRUE), StepAt(1, 0, TRUE), StepAt(1, 0, FALSE),
              StepAt(1, 0, FALSE), StepAt(1, 0, FALSE)>>

EnumSteps == <<PrefixStep, AddressStep, DescriptorStep>> \o ConfigSteps
               \o <<LangStep>> \o StringSteps(9) \o StringSteps(11) \o HidSteps
Detects == {4, 5}
DriverInit == 11

(* PhysBuf::new: the lowest free frames, one for each buffer.              *)
UhFree == UhFrames \ uh.owned
NthFree(n) == CHOOSE f \in UhFree : Cardinality({g \in UhFree : g < f}) = n - 1

(* A chain of descriptors hung on the queue, and a HID device's transfer.  *)
NoChain == [td |-> 0, state |-> "none"]
Idle0(port) == [port |-> port, linked |-> TRUE, active |-> TRUE, bad |-> FALSE,
                tok |-> 0, data_toggle |-> 0, devtog |-> 0,
                sent |-> 0, got |-> 0, lost |-> 0, again |-> 0, errs |-> 0]

(* UHci::new and init_controller: an empty schedule, status cleared.       *)
UhInit ==
    /\ \E p \in UhPlugs :
         uh = [pc |-> "port", port |-> 1, step |-> 1, tries |-> 0, plug |-> p,
               known |-> TRUE, owned |-> {}, held |-> {}, failed |-> FALSE]
    /\ hw = [chain |-> NoChain, ints |-> <<>>, sts |-> FALSE, wild |-> FALSE]
    /\ uhFaults = 0

-----------------------------------------------------------------------------
(* run_control_transfer up to its wait: the setup packet, the descriptors  *)
(* and the data take buffers, the chain goes on the queue, and every       *)
(* status bit is cleared.                                                  *)
SubmitControl(data) ==
    LET n == IF data THEN 3 ELSE 2 IN
    /\ uh' = [uh EXCEPT !.pc = "wait", !.tries = @ + 1,
                        !.owned = @ \cup {NthFree(i) : i \in 1..n},
                        !.held = {NthFree(i) : i \in 1..n}]
    /\ hw' = [hw EXCEPT !.chain = [td |-> NthFree(n), state |-> "active"],
                        !.sts = FALSE]

(* What list and enumerate_device_on_port do next on a port.  An empty     *)
(* port is skipped; a present one is reset and enabled first, which only   *)
(* fails if the device has gone.  A device that is not a HID has no driver *)
(* to initialise.                                                          *)
NextPort(w) == [w EXCEPT !.pc = "port", !.port = @ + 1, !.step = 1, !.tries = 0,
                         !.known = TRUE]
HasDriver == uh.known /\ uh.plug[uh.port] = "hid"

EmptyPort ==
    /\ uh.pc = "port" /\ uh.port <= 2 /\ uh.plug[uh.port] = "none"
    /\ uh' = NextPort(uh)
    /\ UNCHANGED <<hw, uhFaults>>

NoDriver ==
    /\ uh.pc = "port" /\ uh.port <= 2 /\ uh.plug[uh.port] # "none"
    /\ uh.step >= DriverInit /\ ~HasDriver
    /\ uh' = NextPort(uh)
    /\ UNCHANGED <<hw, uhFaults>>

Enumerate ==
    /\ uh.pc = "port" /\ uh.port <= 2 /\ uh.plug[uh.port] # "none"
    /\ uh.step <= Len(EnumSteps)
    /\ uh.step >= DriverInit => HasDriver
    /\ SubmitControl(EnumSteps[uh.step].data)
    /\ UNCHANGED uhFaults

(* schedule_interrupt: queue head and descriptor in a buffer of their own, *)
(* put at the head of every frame; the report buffer is kept by the        *)
(* driver, so both stay taken.                                             *)
ScheduleInterrupt ==
    /\ uh.pc = "port" /\ uh.port <= 2 /\ uh.step > Len(EnumSteps) /\ HasDriver
    /\ uh' = NextPort([uh EXCEPT !.owned = @ \cup {NthFree(1), NthFree(2)}])
    /\ hw' = [hw EXCEPT !.ints = Append(@, Idle0(uh.port))]
    /\ UNCHANGED uhFaults

-----------------------------------------------------------------------------
(* The loop at the end of run_control_transfer.  Success detaches the      *)
(* chain; every return gives the buffers back.                             *)
FreeBuffers(w) == [w EXCEPT !.owned = @ \ w.held, !.held = {}]
Detached(c) == IF c.state = "done" THEN NoChain ELSE c

Retries == hw.chain.state = "active" /\ uh.tries < EnumSteps[uh.step].tries

TransferDone ==
    /\ uh.pc = "wait" /\ hw.chain.state = "done"
    /\ uh' = FreeBuffers([uh EXCEPT !.pc = "port", !.step = @ + 1, !.tries = 0])
    /\ hw' = [hw EXCEPT !.chain = Detached(@)]
    /\ UNCHANGED uhFaults

(* A stalled or failed descriptor ends the transfer; a request nobody      *)
(* answers times out, and the first three are tried three times.           *)
TransferFails ==
    /\ uh.pc = "wait" /\ hw.chain.state \in {"active", "stalled"}
    /\ hw.chain.state = "active" => uhFaults < MaxUhFaults
    /\ uhFaults' = IF hw.chain.state = "active" THEN uhFaults + 1 ELSE uhFaults
    /\ LET fail == EnumSteps[uh.step].fail
           w == FreeBuffers([uh EXCEPT !.pc = "port", !.failed = TRUE])
       IN uh' = IF Retries THEN w
                ELSE IF fail = 0 THEN NextPort(w)
                ELSE [w EXCEPT !.step = fail, !.tries = 0,
                               !.known = @ /\ uh.step \notin Detects]
    /\ UNCHANGED hw

-----------------------------------------------------------------------------
(* Seeded fault: the queue head is not pointed at the descriptor again.    *)
AckForgetsQueue(t) ==
    [t EXCEPT !.linked = FALSE, !.active = TRUE, !.tok = t.data_toggle,
              !.data_toggle = IF t.bad THEN @ ELSE 1 - @, !.bad = FALSE]

(* InterruptTransfer::ack: the queue head points at the descriptor again,  *)
(* which is active once more; the token takes the software toggle, and     *)
(* only then is that toggle flipped, unless the packet was in error.       *)
Ack(t) ==
    [t EXCEPT !.linked = TRUE, !.active = TRUE, !.tok = t.data_toggle,
              !.data_toggle = IF t.bad THEN @ ELSE 1 - @, !.bad = FALSE]

(* UsbDriver::poll: a completed transfer is read from the buffer, in error *)
(* or not, and acknowledged.                                               *)
PollOne(t) ==
    IF t.active THEN t
    ELSE Ack([t EXCEPT !.got = IF t.bad THEN @ ELSE @ + 1,
                       !.again = IF t.bad THEN @ + 1 ELSE @])
PollDrivers(h) == [h EXCEPT !.ints = [i \in DOMAIN @ |-> PollOne(@[i])]]

(* handle_interrupt: no status bit, not ours; otherwise the bits are       *)
(* cleared first and the drivers polled after.  The first call is the      *)
(* recovery pass that ends init, later ones are interrupts.                *)
HandleInterrupt(h) == [h EXCEPT !.sts = FALSE]

Recovery ==
    /\ uh.pc = "port" /\ uh.port > 2
    /\ uh' = [uh EXCEPT !.pc = IF hw.sts THEN "poll" ELSE "run"]
    /\ hw' = HandleInterrupt(hw)
    /\ UNCHANGED uhFaults
UsbIrq ==
    /\ uh.pc = "run" /\ hw.sts
    /\ uh' = [uh EXCEPT !.pc = "poll"]
    /\ hw' = HandleInterrupt(hw)
    /\ UNCHANGED uhFaults
IrqPolls ==
    /\ uh.pc = "poll"
    /\ uh' = [uh EXCEPT !.pc = "run"]
    /\ hw' = PollDrivers(hw)
    /\ UNCHANGED uhFaults

-----------------------------------------------------------------------------
(* The controller.  A chain that completes raises the status bit of its    *)
(* last descriptor and empties the queue; a failing one raises the error   *)
(* bit and stays where it is.  A chain whose buffer has been given back is *)
(* still walked.                                                           *)
HcControl ==
    /\ hw.chain.state = "active"
    /\ \/ /\ hw' = [hw EXCEPT !.chain.state = "done", !.sts = TRUE,
                              !.wild = @ \/ hw.chain.td \notin uh.held]
          /\ UNCHANGED uhFaults
       \/ /\ uhFaults < MaxUhFaults /\ uhFaults' = uhFaults + 1
          /\ hw' = [hw EXCEPT !.chain.state = "stalled", !.sts = TRUE,
                              !.wild = @ \/ hw.chain.td \notin uh.held]
    /\ UNCHANGED uh

(* A HID device answers the IN token.  A packet with the wrong toggle is   *)
(* acknowledged and dropped by the controller, and the device moves on.    *)
HcInterrupt(i) ==
    LET t == hw.ints[i] IN
    /\ t.active /\ t.linked /\ t.sent < MaxReports
    /\ hw' = IF t.tok = t.devtog
             THEN [hw EXCEPT !.ints[i] = [t EXCEPT !.active = FALSE, !.sent = @ + 1,
                                                   !.devtog = 1 - @],
                             !.sts = TRUE]
             ELSE [hw EXCEPT !.ints[i] = [t EXCEPT !.sent = @ + 1, !.lost = @ + 1,
                                                   !.devtog = 1 - @]]
    /\ UNCHANGED <<uh, uhFaults>>
HcError(i) ==
    LET t == hw.ints[i] IN
    /\ t.active /\ t.linked /\ uhFaults < MaxUhFaults
    /\ uhFaults' = uhFaults + 1
    /\ hw' = [hw EXCEPT !.ints[i] = [t EXCEPT !.active = FALSE, !.bad = TRUE, !.errs = @ + 1],
                        !.sts = TRUE]
    /\ UNCHANGED uh

UhNext ==
    \/ EmptyPort \/ NoDriver \/ Enumerate \/ ScheduleInterrupt
    \/ TransferDone \/ TransferFails
    \/ Recovery \/ UsbIrq \/ IrqPolls
    \/ HcControl
    \/ \E i \in DOMAIN hw.ints : HcInterrupt(i) \/ HcError(i)

UhSpec == UhInit /\ [][UhNext]_uhVars

-----------------------------------------------------------------------------
(* Type invariant.                                                         *)
UhTypeOK ==
    /\ uh.pc \in {"port", "wait", "run", "poll"}
    /\ uh.port \in 1..3 /\ uh.step \in 1..(Len(EnumSteps) + 1) /\ uh.tries \in 0..3
    /\ uh.owned \subseteq UhFrames /\ uh.held \subseteq uh.owned
    /\ uh.known \in BOOLEAN /\ uh.failed \in BOOLEAN
    /\ hw.chain.td \in UhFrames \cup {0}
    /\ hw.chain.state \in {"none", "active", "done", "stalled"}
    /\ hw.sts \in BOOLEAN /\ hw.wild \in BOOLEAN
    /\ \A i \in DOMAIN hw.ints :
         LET t == hw.ints[i] IN
         /\ {t.tok, t.data_toggle, t.devtog} \subseteq {0, 1}
         /\ {t.sent, t.got, t.lost, t.again} \subseteq Nat
    /\ uhFaults \in 0..MaxUhFaults

(* Once interrupts are on, a HID transfer is either armed and in the       *)
(* schedule or finished with a status bit still up (or the handler on its  *)
(* way to the drivers), so its device is never deaf: the bits are cleared  *)
(* before the drivers are polled, and acknowledging puts the descriptor    *)
(* back.  Boots in which no control transfer failed.                       *)
KeyboardNotDeaf ==
    uh.pc \in {"run", "poll"} /\ ~uh.failed =>
        \A i \in DOMAIN hw.ints :
            \/ hw.ints[i].active /\ hw.ints[i].linked
            \/ hw.sts \/ uh.pc = "poll"

(* "a boot keyboard may complete its first IN TD before IRQ registration.  *)
(* Re-arm once so runtime keypresses can continue" (driver/usb/mod.rs:64): *)
(* the same without the proviso.                                           *)
RecoveryRearms ==
    uh.pc \in {"run", "poll"} =>
        \A i \in DOMAIN hw.ints :
            hw.ints[i].active \/ hw.sts \/ uh.pc = "poll"

(* Every descriptor the controller can reach is in a buffer the driver     *)
(* holds ("Detach TD list from schedule so it doesn't get re-walked",      *)
(* uhci/mod.rs:580).                                                       *)
ScheduleOwned == hw.chain.td # 0 => hw.chain.td \in uh.held

(* The software toggle falls behind the device's once, at the first        *)
(* re-arm, and twice more for each packet in error: that many reports are  *)
(* dropped and no more, and every other report reaches its driver.         *)
LossBounded ==
    \A i \in DOMAIN hw.ints :
        LET t == hw.ints[i] IN
        /\ t.lost <= 1 + 2 * t.errs
        /\ t.got + t.lost + (IF t.active \/ t.bad THEN 0 ELSE 1) = t.sent

(* The reports of a device keep reaching its driver: its transfer is never *)
(* left disarmed, and few reports are dropped.                             *)
ReportsReach == UhTypeOK /\ KeyboardNotDeaf /\ LossBounded
=============================================================================
