----------------------------- MODULE SlcanState -----------------------------
(***************************************************************************)
(* One network device of the driver as the rest of Linux sees it: attached *)
(* or not, up or down, its CAN state and its carrier, as ndo_open,         *)
(* ndo_stop and the adapter's reports move them (slcan-core.c).            *)
(*                                                                         *)
(* The module has no Next of its own: module Slcandx puts its actions      *)
(* together with the daemon that attaches and detaches the device.         *)
(***************************************************************************)
EXTENDS ErrorFrames

CONSTANTS MaxReports,   \* changes of the bus that are reported, in a behaviour
          MaxUps        \* times the device is brought up

ASSUME StateAssumption == MaxReports \in Nat /\ MaxUps \in Nat

VARIABLES
    configured,  \* the device has a bitrate of its own, given with ip link
    net,         \* "none", "down", "opening", "up", "closing"
    canState,    \* can.state
    carrier,     \* netif_carrier_ok
    bus,         \* the state of the controller in the adapter
    wire,        \* reports on their way to the driver
    reports, ups,
    behind,      \* history: the newest report since ndo_open was lost, or none was heard
    sent         \* the commands O and C the adapter was sent: by whom, for which channel

stateVars == <<configured, net, canState, carrier, bus, wire, reports, ups, behind, sent>>

Dev == 0         \* the channel of the device

StateInit ==
    /\ configured \in BOOLEAN
    /\ net = "none" /\ canState = "active" /\ carrier = FALSE
    /\ bus = "active" /\ wire = <<>> /\ reports = 0 /\ ups = 0
    /\ behind = TRUE /\ sent = <<>>

Command(by, c, cmd) == [by |-> by, ch |-> c, cmd |-> cmd]
DriverSends(cmds) ==
    sent' = IF configured THEN sent \o [i \in DOMAIN cmds |-> Command("driver", Dev, cmds[i])] ELSE sent

---------------------------------------------------------------------------
(* slcan_open: alloc_candev leaves the device stopped and slcan_open clears *)
(* its private part, so that can.state starts as ERROR_ACTIVE, which is 0.  *)
Attached ==
    /\ net = "none" /\ net' = "down"
    /\ canState' = "active" /\ carrier' = FALSE
    /\ wire' = <<>>
    /\ UNCHANGED <<configured, bus, reports, ups, behind, sent>>

(* slcan_close: unregister_candev waits for an open or close under way and  *)
(* closes a device that is up, while the driver can still write; then the   *)
(* device is freed.                                                         *)
Detached ==
    /\ net \in {"down", "up"} /\ net' = "none"
    /\ IF net = "up" THEN DriverSends(<<"C">>) ELSE UNCHANGED sent
    /\ wire' = <<>> /\ canState' = "active" /\ carrier' = FALSE /\ behind' = TRUE
    /\ UNCHANGED <<configured, bus, reports, ups>>

---------------------------------------------------------------------------
(* slcan_netdev_open: open_candev turns the carrier on; the commands, if    *)
(* any, are sent one after the other, and reports are handled meanwhile.    *)
OpenDev ==
    /\ net = "down" /\ ups < MaxUps
    /\ net' = "opening" /\ carrier' = TRUE /\ ups' = ups + 1
    /\ DriverSends(<<"C">>)
    /\ UNCHANGED <<configured, canState, bus, wire, reports, behind>>

(* The last command is answered in time: what was reported until now is     *)
(* overwritten.                                                             *)
OpenDone ==
    /\ net = "opening" /\ net' = "up"
    /\ canState' = "active" /\ behind' = TRUE
    /\ DriverSends(<<"O">>)
    /\ UNCHANGED <<configured, carrier, bus, wire, reports, ups>>

(* cmd_transmit_failed: a command timed out, before or after the O. *)
OpenFails ==
    /\ net = "opening" /\ configured /\ net' = "down"
    /\ DriverSends(<<"O">>) \/ UNCHANGED sent
    /\ UNCHANGED <<configured, canState, carrier, bus, wire, reports, ups, behind>>

(* slcan_netdev_close *)
CloseDev ==
    /\ net = "up" /\ net' = "closing"
    /\ DriverSends(<<"C">>)
    /\ UNCHANGED <<configured, canState, carrier, bus, wire, reports, ups, behind>>

CloseDone ==
    /\ net = "closing" /\ net' = "down"
    /\ canState' = "stopped"
    /\ UNCHANGED <<configured, carrier, bus, wire, reports, ups, behind, sent>>

---------------------------------------------------------------------------
(* The adapter reports each change of its controller, in an s or an E line. *)
(* What it says while no driver is attached is left out: nobody hears it.   *)
BusChange ==
    /\ net # "none" /\ reports < MaxReports /\ reports' = reports + 1
    /\ bus' \in States \ {bus}
    /\ \E cmd \in {"s", "E"} :
          wire' = Append(wire, [cmd |-> cmd, state |-> bus'])
    /\ UNCHANGED <<configured, net, canState, carrier, ups, behind, sent>>

(* can_bus_off: restart_ms is never set, so the carrier goes off for good. *)
KeepCarrier(s) == carrier                     \* mutant: a bus-off leaves the carrier on
CarrierAfter(s) == IF s = "busoff" THEN FALSE ELSE carrier

(* slcan_bump_state records every state, bus-off too, with or without a     *)
(* frame; slcan_bump_err_new records the others.                            *)
Recorded(r) == IF r.cmd = "E" /\ r.state = "busoff" THEN canState ELSE r.state

(* A report arrives whole, whether the device is up or not. *)
HandleReport ==
    /\ net # "none" /\ wire # <<>> /\ wire' = Tail(wire)
    /\ canState' = Recorded(Head(wire))
    /\ carrier' = CarrierAfter(Head(wire).state)
    /\ behind' = (net # "up")
    /\ UNCHANGED <<configured, net, bus, reports, ups, sent>>

(* It arrives damaged, or an E line finds no memory for its frame. *)
LoseReport ==
    /\ net # "none" /\ wire # <<>> /\ wire' = Tail(wire)
    /\ behind' = TRUE
    /\ UNCHANGED <<configured, net, canState, carrier, bus, reports, ups, sent>>

Device == OpenDev \/ OpenDone \/ OpenFails \/ CloseDev \/ CloseDone
Reporting == BusChange \/ HandleReport \/ LoseReport

DeviceFairness == WF_stateVars(OpenDone) /\ WF_stateVars(CloseDone)

---------------------------------------------------------------------------
(* Once the driver has read all that was reported, and the last report was  *)
(* whole and came after ndo_open had ended, it agrees with the adapter: its *)
(* state is the controller's, or its carrier is off if that is bus-off.     *)
StateFollows ==
    net = "up" /\ wire = <<>> /\ ~behind =>
        IF bus = "busoff" THEN ~carrier ELSE canState = bus

=============================================================================
