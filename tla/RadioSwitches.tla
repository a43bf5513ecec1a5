---------------------------- MODULE RadioSwitches ----------------------------
(***************************************************************************)
(* The radio buttons of the panel's control centre: Wi-Fi and Ethernet     *)
(* (panel/src/logic/network_actions.c), the Bluetooth adapter              *)
(* (bluetooth_manager.c) and airplane mode (airplane_mode.c).              *)
(*                                                                         *)
(* The panel keeps a copy of the state that NetworkManager and BlueZ have. *)
(* It calls them synchronously and hears of the changes later, by signals  *)
(* that wait for the main loop; Ethernet has no signal and is asked two    *)
(* seconds after the click.                                                *)
(*                                                                         *)
(* A machine may have no Bluetooth adapter when the panel starts; the      *)
(* panel looks for one again only when it is asked for something.  Left    *)
(* out: a panel that finds no system bus (the other branch of              *)
(* network_toggle_wifi, network_set_wifi and network_toggle_ethernet).     *)
(***************************************************************************)
EXTENDS Naturals, Sequences

Radios == {"wifi", "bt"}
Links  == Radios \cup {"eth"}

CONSTANT Starts  \* model bound: the states of the links when the panel starts
ASSUME StartsAssumption == Starts \subseteq [Links -> BOOLEAN]

VARIABLES
    actual,     \* actual[l]: the state that NetworkManager or BlueZ has
    cached,     \* current_wifi_state, current_eth_state, bt_powered
    shown,      \* the style of the button
    inTransit,  \* inTransit[r]: values of PropertiesChanged on their way
    coming,     \* Ethernet is being activated
    ethTimers,  \* timeouts of check_eth_state
    adapter,    \* "absent"; there, but adapter_path is NULL: "unseen"; "found"
    airplane,   \* is_airplane_mode
    saved,      \* saved_wifi_state, saved_bt_state
    astray,     \* history: what of l nothing has put right yet: "nothing",
                \* the "button", or "both", the copy too
    before,     \* history: the radios when airplane mode was switched on
    touched     \* history: others changed r since, or the copy was wrong

switchVars == << actual, cached, shown, inTransit, coming, ethTimers,
                 adapter, airplane, saved, astray, before, touched >>

(* network_init_state and bluetooth_init read what there is.  The control  *)
(* centre is the last to call bluetooth_init, whose one callback it keeps. *)
SwitchInit ==
    /\ actual \in Starts
    /\ cached = actual /\ shown = actual
    /\ inTransit = [r \in Radios |-> << >>]
    /\ coming = FALSE /\ ethTimers = 0
    /\ adapter \in {"absent", "found"}
    /\ adapter = "absent" => ~actual["bt"]
    /\ airplane = FALSE
    /\ saved = [r \in Radios |-> FALSE]
    /\ astray = [l \in Links |-> "nothing"]
    /\ before = [r \in Radios |-> actual[r]]
    /\ touched = [r \in Radios |-> FALSE]

-----------------------------------------------------------------------------
(* The radios in set become on; a signal tells of those that change.       *)
Become(set, on) ==
    /\ actual' = [l \in Links |-> IF l \in set THEN on ELSE actual[l]]
    /\ inTransit' = [r \in Radios |->
          IF r \in set /\ actual[r] # on THEN Append(inTransit[r], on)
                                         ELSE inTransit[r]]

Touch(set) == touched' = [r \in Radios |-> touched[r] \/ r \in set]
Stray(set) == astray' = [l \in Links |-> IF l \in set THEN "both" ELSE astray[l]]
StrayButton(set) ==
    astray' = [l \in Links |-> IF l \in set /\ astray[l] = "nothing"
                              THEN "button" ELSE astray[l]]

(* A rfkill key, a dropped cable, another program.                         *)
ChangedByOthers(r) ==
    /\ r = "bt" => adapter # "absent"
    /\ Become({r}, ~actual[r])
    /\ Touch({r})
    /\ UNCHANGED << cached, shown, coming, ethTimers, adapter, airplane, saved,
                    astray, before >>

(* NetworkManager or bluetoothd is started again, or the adapter replaced. *)
(* The panel keeps the adapter path and its copy: no PropertiesChanged     *)
(* tells it the new state.                                                 *)
DaemonRestarts(r, on) ==
    /\ r = "bt" => adapter # "absent"
    /\ actual' = [actual EXCEPT ![r] = on]
    /\ Touch({r}) /\ Stray({r})
    /\ UNCHANGED << cached, shown, inTransit, coming, ethTimers, adapter,
                    airplane, saved, before >>

(* An adapter is plugged in: on_interfaces_added looks for devices only.   *)
AdapterAdded(on) ==
    /\ adapter = "absent"
    /\ adapter' = "unseen"
    /\ actual' = [actual EXCEPT !["bt"] = on]
    /\ Touch({"bt"}) /\ Stray(IF on THEN {"bt"} ELSE {})
    /\ UNCHANGED << cached, shown, inTransit, coming, ethTimers, airplane,
                    saved, before >>

(* The cable, or the activation that was asked for: nothing is heard.      *)
EthChanges ==
    /\ actual' = [actual EXCEPT !["eth"] = ~@]
    /\ coming' = FALSE
    /\ Stray({"eth"})
    /\ UNCHANGED << cached, shown, inTransit, ethTimers, adapter, airplane,
                    saved, before, touched >>

-----------------------------------------------------------------------------
(* The Set of a property may fail (rfkill, polkit, no answer): the error   *)
(* is dropped.                                                             *)

(* network_toggle_wifi: the button at once, the copy with the signal.      *)
ToggleWifi(works) ==
    LET next == ~cached["wifi"] IN
    /\ shown' = [shown EXCEPT !["wifi"] = next]
    /\ Become(IF works THEN {"wifi"} ELSE {}, next)
    /\ StrayButton(IF works THEN {} ELSE {"wifi"})
    /\ Touch({"wifi"})
    /\ UNCHANGED << cached, coming, ethTimers, adapter, airplane, saved, before >>

(* find_adapter, called when no path is known, reads Powered as well; the  *)
(* call may fail like a Set.                                               *)
BtCopy == IF adapter = "unseen" THEN actual["bt"] ELSE cached["bt"]
Unreached(works) == adapter = "absent" \/ (adapter = "unseen" /\ ~works)

(* on_bt_clicked, bluetooth_toggle: button and copy at once.               *)
ToggleBluetooth(works) ==
    LET next == ~BtCopy IN
    /\ adapter # "absent"
    /\ adapter' = "found"
    /\ cached' = [cached EXCEPT !["bt"] = next]
    /\ shown' = [shown EXCEPT !["bt"] = next]
    /\ Become(IF works THEN {"bt"} ELSE {}, next)
    /\ Stray(IF works THEN {} ELSE {"bt"})
    /\ Touch({"bt"})
    /\ UNCHANGED << coming, ethTimers, airplane, saved, before >>

(* on_bt_clicked has painted the button when bluetooth_toggle finds no     *)
(* adapter and returns.                                                    *)
ToggleInVain(works) ==
    /\ Unreached(works)
    /\ shown' = [shown EXCEPT !["bt"] = ~cached["bt"]]
    /\ StrayButton({"bt"})
    /\ UNCHANGED << actual, cached, inTransit, coming, ethTimers, adapter,
                    airplane, saved, before, touched >>

(* on_bt_button_press opens the list of devices: bluetooth_scan looks for  *)
(* the adapter and paints nothing.                                         *)
OpenDevices ==
    /\ cached["bt"] /\ adapter = "unseen"
    /\ adapter' = "found"
    /\ cached' = [cached EXCEPT !["bt"] = actual["bt"]]
    /\ UNCHANGED << actual, shown, inTransit, coming, ethTimers, airplane, saved,
                    astray, before, touched >>

(* on_properties_changed for a device paints the button from the copy.     *)
DeviceChanged ==
    /\ adapter # "absent" /\ shown["bt"] # cached["bt"]
    /\ shown' = [shown EXCEPT !["bt"] = cached["bt"]]
    /\ astray' = [astray EXCEPT !["bt"] = IF @ = "button" THEN "nothing" ELSE @]
    /\ UNCHANGED << actual, cached, inTransit, coming, ethTimers, adapter,
                    airplane, saved, before, touched >>

(* network_toggle_ethernet: an activation takes its time, Disconnect does  *)
(* not; the button is put right two seconds later.                         *)
ToggleEthernet(works) ==
    LET next == ~cached["eth"] IN
    /\ shown' = [shown EXCEPT !["eth"] = next]
    /\ coming' = IF works THEN next /\ ~actual["eth"] ELSE coming
    /\ actual' = [actual EXCEPT !["eth"] = @ /\ (next \/ ~works)]
    /\ ethTimers' = ethTimers + 1
    /\ UNCHANGED << cached, inTransit, adapter, airplane, saved, astray, before,
                    touched >>

(* check_eth_state: without an answer the link counts as down.             *)
CheckEthernet(works) ==
    LET up == works /\ actual["eth"] IN
    /\ ethTimers > 0
    /\ ethTimers' = ethTimers - 1
    /\ cached' = [cached EXCEPT !["eth"] = up]
    /\ shown' = [shown EXCEPT !["eth"] = up]
    /\ astray' = [astray EXCEPT !["eth"] = IF works THEN "nothing" ELSE "both"]
    /\ UNCHANGED << actual, inTransit, coming, adapter, airplane, saved, before,
                    touched >>

(* Mutant: the button is not painted.                                      *)
PropertiesChangedUnseen(r) ==
    /\ inTransit[r] # << >>
    /\ inTransit' = [inTransit EXCEPT ![r] = Tail(@)]
    /\ cached' = [cached EXCEPT ![r] = Head(inTransit[r])]
    /\ astray' = [astray EXCEPT ![r] =
          IF inTransit[r] = << actual[r] >> THEN "nothing" ELSE @]
    /\ UNCHANGED << shown, actual, coming, ethTimers, adapter, airplane, saved,
                    before, touched >>

(* on_nm_properties_changed, on_properties_changed: copy and button.       *)
PropertiesChanged(r) ==
    /\ inTransit[r] # << >>
    /\ inTransit' = [inTransit EXCEPT ![r] = Tail(@)]
    /\ cached' = [cached EXCEPT ![r] = Head(inTransit[r])]
    /\ shown' = [shown EXCEPT ![r] = Head(inTransit[r])]
    /\ astray' = [astray EXCEPT ![r] =
          IF inTransit[r] = << actual[r] >> THEN "nothing" ELSE @]
    /\ UNCHANGED << actual, coming, ethTimers, adapter, airplane, saved, before,
                    touched >>

-----------------------------------------------------------------------------
(* airplane_mode_toggle: network_set_wifi and bluetooth_set_powered put    *)
(* copy and button at once.  The latter returns without an adapter, or if  *)
(* the copy says it is so already; works are the radios whose calls        *)
(* succeed.                                                                *)

SetRadios(asked, on, works) ==
    \E set \in {asked, asked \ {"bt"}} :
        LET moved == {r \in set : r = "bt" => BtCopy # on} IN
        /\ "bt" \in set => adapter # "absent"
        /\ "bt" \in asked \ set => Unreached("bt" \in works)
        /\ adapter' = IF "bt" \in set THEN "found" ELSE adapter
        /\ cached' = [l \in Links |-> IF l \in set THEN on ELSE cached[l]]
        /\ shown' = [l \in Links |-> IF l \in moved THEN on ELSE shown[l]]
        /\ Become(moved \cap works, on)
        /\ Stray(moved \ works)
        /\ UNCHANGED << coming, ethTimers >>

AirplaneOn(works) ==
    LET on == {r \in Radios : cached[r]} IN
    /\ ~airplane
    /\ airplane' = TRUE
    /\ saved' = [r \in Radios |-> r \in on]
    /\ SetRadios(on, FALSE, works)
    /\ before' = [r \in Radios |-> actual[r]]
    /\ touched' = [r \in Radios |->
          cached[r] # actual[r] \/ inTransit[r] # << >> \/ r \notin works]

(* Mutant: the radios come back whether or not they were on.               *)
AirplaneOffAll(works) ==
    /\ airplane
    /\ airplane' = FALSE
    /\ SetRadios(Radios, TRUE, works)
    /\ Touch(Radios \ works)
    /\ UNCHANGED << saved, before >>

AirplaneOff(works) ==
    LET back == {r \in Radios : saved[r]} IN
    /\ airplane
    /\ airplane' = FALSE
    /\ SetRadios(back, TRUE, works)
    /\ Touch(back \ works)
    /\ UNCHANGED << saved, before >>

-----------------------------------------------------------------------------
(* Properties.                                                             *)

(* Once the signals on their way are handled and the Ethernet timeouts     *)
(* have fired, copy, button and the real state are the same, whatever      *)
(* clicks, keys and signals have crossed, and until the next signal or     *)
(* check except so: a Set that failed leaves Wi-Fi's button wrong, but     *)
(* never its copy, and both of Bluetooth; airplane mode's leaves both of   *)
(* each.  A click on Bluetooth that finds no adapter leaves the button     *)
(* wrong, never the copy.  Both are wrong after a service was restarted,   *)
(* an adapter was plugged in that is on, or Ethernet changed by itself or  *)
(* could not be checked.                                                   *)
Settled(l) == IF l = "eth" THEN ethTimers = 0 ELSE inTransit[l] = << >>

SwitchesAgree ==
    \A l \in Links : Settled(l) =>
        /\ astray[l] # "both" => cached[l] = actual[l]
        /\ astray[l] = "nothing" => shown[l] = actual[l]

(* In airplane mode the radios are off, and afterwards as they were before *)
(* it, unless someone switched one meanwhile, a Set failed, or the panel   *)
(* had not yet heard of a change when the mode was switched on.            *)
AirplaneHolds ==
    \A r \in Radios :
        touched[r] \/ actual[r] = (IF airplane THEN FALSE ELSE before[r])
=============================================================================
