------------------------------ MODULE BtConnect ------------------------------
(***************************************************************************)
(* Connecting to a Bluetooth device: bluetooth_connect and its BtOpCtx     *)
(* (panel/src/logic/bluetooth_manager.c), in the main loops of             *)
(* WifiConnect.                                                            *)
(*                                                                         *)
(* A context is given to three that come back by themselves: a watch of    *)
(* PropertiesChanged, a timeout, and the answer to Pair or Connect.  Each  *)
(* of the first two frees it; the answer does if it is an error.           *)
(***************************************************************************)
EXTENDS WifiConnect, SequencesExt

CONSTANTS
    Devices,
    Contexts   \* the BtOpCtx structures

ASSUME ContextsAssumption == Contexts \subseteq Nat

VARIABLES
    paired,     \* the devices that are paired
    connected,  \* and those that are connected
    op,         \* op[c]: "none", "pair", "connect", "freed"
    device,     \* device[c]
    call,       \* call[c]: Pair or Connect is not answered yet
    btBus       \* on their way: << "signal" or "error", context >>

btVars == << paired, connected, op, device, call, btBus >>

BtInit ==
    /\ paired \in SUBSET Devices /\ connected = {}
    /\ op = [c \in Contexts |-> "none"]
    /\ device = [c \in Contexts |-> CHOOSE d \in Devices : TRUE]
    /\ call = [c \in Contexts |-> FALSE]
    /\ btBus = << >>

Live(c) == op[c] \in {"pair", "connect"}

FreshContext(c) ==
    op[c] = "none" /\ \A b \in Contexts : b < c => op[b] # "none"

(* A context is made, watches its device, and calls; freed are given back. *)
Start(kind, d, freed) ==
    \E c \in Contexts :
        /\ FreshContext(c)
        /\ op' = [b \in Contexts |-> IF b = c THEN kind
                                     ELSE IF b \in freed THEN "freed" ELSE op[b]]
        /\ device' = [device EXCEPT ![c] = d]
        /\ call' = [call EXCEPT ![c] = TRUE]

(* on_bt_row_activated: bluetooth_connect reads Paired first.  The list    *)
(* may be old: the device may be connected by now.                         *)
BluetoothConnect(d) ==
    /\ Loops
    /\ Start(IF d \in paired THEN "connect" ELSE "pair", d, {})
    /\ UNCHANGED << paired, connected, btBus, broken >>

-----------------------------------------------------------------------------
(* BlueZ.  A signal goes to the contexts that watch the device by then.    *)

Signal(d, kind) ==
    \E signals \in SetToSeqs({<< "signal", c >> :
          c \in {b \in Contexts : op[b] = kind /\ device[b] = d}}) :
        btBus' = btBus \o signals

(* What becomes of a device that no context is about is left out.          *)
Asked(d) == \E c \in Contexts : Live(c) /\ device[c] = d

Pairs(d) ==
    /\ Asked(d) /\ d \notin paired
    /\ paired' = paired \cup {d}
    /\ Signal(d, "pair")
    /\ UNCHANGED << connected, op, device, call, broken >>

Connects(d) ==
    /\ Asked(d) /\ d \in paired \ connected
    /\ connected' = connected \cup {d}
    /\ Signal(d, "connect")
    /\ UNCHANGED << paired, op, device, call, broken >>

(* Also bluetooth_disconnect; the watches wait for TRUE only.              *)
Disconnects(d) ==
    /\ d \in connected
    /\ connected' = connected \ {d}
    /\ UNCHANGED << paired, op, device, call, btBus, broken >>

(* The answer to a call, or GDBus's own error when there is none in time.  *)
(* Connect may also fail after Connected was signalled, when no profile    *)
(* could be connected.  on_pair_call_done and on_connect_call_done do      *)
(* nothing with an answer that is no error: the signal or the timeout ends *)
(* the context.                                                            *)
Answers(c, ok) ==
    /\ call[c]
    /\ ok \in {answer \in BOOLEAN : answer => device[c] \in paired}
    /\ call' = [call EXCEPT ![c] = FALSE]
    /\ btBus' = IF ok THEN btBus ELSE Append(btBus, << "error", c >>)
    /\ UNCHANGED << paired, connected, op, device, broken >>

-----------------------------------------------------------------------------
(* The panel has the oldest message.                                       *)

Frees(c) == op' = [op EXCEPT ![c] = "freed"] /\ UNCHANGED << device, call >>

(* on_pair_props_changed: the context ends, do_connect makes another.      *)
OnPaired(c) ==
    /\ Head(btBus) = << "signal", c >> /\ op[c] = "pair"
    /\ Start("connect", device[c], {c})
    /\ UNCHANGED broken

(* on_connect_props_changed.                                               *)
OnConnected(c) ==
    /\ Head(btBus) = << "signal", c >> /\ op[c] = "connect"
    /\ Frees(c)
    /\ UNCHANGED broken

(* on_pair_call_done, on_connect_call_done with an error: they use the     *)
(* context, which the signal or the timeout may have freed.                *)
OnCallFailed(c) ==
    /\ Head(btBus) = << "error", c >>
    /\ broken' = ~Live(c)
    /\ Frees(c)

(* With a context goes its watch, and the signals that wait for it.        *)
Unwatched(message) == op'[message[2]] = "freed" /\ message[1] = "signal"

BtReceive ==
    /\ Loops /\ btBus # << >>
    /\ \E c \in Contexts : OnPaired(c) \/ OnConnected(c) \/ OnCallFailed(c)
    /\ btBus' = SelectSeq(Tail(btBus), LAMBDA m : ~Unwatched(m))
    /\ UNCHANGED << paired, connected >>

(* Mutant: the timeout only ends the watch.                                *)
OnBtOpTimeoutUnfreed(c) ==
    /\ Loops /\ Live(c)
    /\ UNCHANGED << paired, connected, op, device, call, btBus, broken >>

(* on_bt_op_timeout: armed as long as the context lives.                   *)
OnBtOpTimeout(c) ==
    /\ Loops /\ Live(c)
    /\ Frees(c)
    /\ btBus' = SelectSeq(btBus, LAMBDA m : ~Unwatched(m))
    /\ UNCHANGED << paired, connected, broken >>
=============================================================================
