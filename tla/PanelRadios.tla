----------------------------- MODULE PanelRadios -----------------------------
(***************************************************************************)
(* The radios of the panel together: the switches, the Wi-Fi attempts and  *)
(* the Bluetooth operations share one main loop, one user and the prompts, *)
(* which are modal.                                                        *)
(***************************************************************************)
EXTENDS RadioSwitches, BtConnect

CONSTANTS
    MaxRequests,  \* model bound: what the user does
    MaxMishaps    \* model bound: what happens to the radios by itself

VARIABLES requests, mishaps

budget == << requests, mishaps >>
wifiPart == << stage, secured, conn, news, timer, reports, prompts >>
vars == << switchVars, wifiPart, btVars, broken, budget >>

Init ==
    /\ SwitchInit /\ WifiInit /\ BtInit
    /\ requests = 0 /\ mishaps = 0

Request == requests < MaxRequests /\ requests' = requests + 1
Mishap  == mishaps < MaxMishaps /\ mishaps' = mishaps + 1

SwitchesOnly == UNCHANGED << wifiPart, btVars, broken >>
WifiOnly     == UNCHANGED << switchVars, btVars >>
BtOnly       == UNCHANGED << switchVars, wifiPart >>

(* A call that fails is a mishap.                                          *)
Fails(all, works) == IF works = all THEN UNCHANGED mishaps ELSE Mishap

(* The control centre has the input when no prompt is open.                *)
ClickSwitch ==
    /\ Loops /\ prompts = << >> /\ Request
    /\ \/ \E works \in BOOLEAN :
             /\ \/ ToggleWifi(works) \/ ToggleEthernet(works)
                \/ ToggleBluetooth(works) \/ ToggleInVain(works)
             /\ Fails(TRUE, works)
       \/ OpenDevices /\ UNCHANGED mishaps
       \/ \E works \in SUBSET Radios :
             /\ AirplaneOn(works) \/ AirplaneOff(works)
             /\ Fails(Radios, works)
    /\ SwitchesOnly

ClickNetwork ==
    /\ ClickUnknown \/ (\E isSecured \in BOOLEAN : ClickKnown(isSecured))
    /\ Request
    /\ UNCHANGED mishaps /\ WifiOnly

(* A password that is tried again counts as a request.                     *)
Answer(accept) ==
    /\ AnswerPrompt(accept)
    /\ IF accept THEN Request ELSE UNCHANGED requests
    /\ UNCHANGED mishaps /\ WifiOnly

ClickDevice ==
    /\ prompts = << >> /\ adapter # "absent" /\ Request
    /\ \E d \in Devices : BluetoothConnect(d)
    /\ UNCHANGED mishaps /\ BtOnly

World ==
    /\ ~broken
    /\ \/ /\ Mishap /\ UNCHANGED requests /\ SwitchesOnly
          /\ \/ \E r \in Radios : ChangedByOthers(r)
             \/ \E r \in Radios : DaemonRestarts(r, ~actual[r])
             \/ ~coming /\ EthChanges
       \/ /\ \E on \in BOOLEAN : AdapterAdded(on)
          /\ UNCHANGED budget /\ SwitchesOnly
       \/ /\ coming /\ EthChanges
          /\ UNCHANGED budget /\ SwitchesOnly
       \/ /\ \E a \in Attempts, state \in {"active", "failed", "dropped"} :
                ConnectionChanges(a, state)
          /\ UNCHANGED budget /\ WifiOnly
       \/ /\ \E d \in Devices : Pairs(d) \/ Connects(d)
          /\ UNCHANGED budget /\ BtOnly
       \/ /\ \E c \in Contexts, ok \in BOOLEAN : Answers(c, ok)
          /\ UNCHANGED budget /\ BtOnly
       \/ /\ \E d \in Devices : Disconnects(d)
          /\ Mishap /\ UNCHANGED requests /\ BtOnly

SignalOf(r) ==
    Loops /\ PropertiesChanged(r) /\ UNCHANGED budget /\ SwitchesOnly
OfDevice ==
    Loops /\ DeviceChanged /\ UNCHANGED budget /\ SwitchesOnly
EthTimer ==
    /\ Loops
    /\ \E works \in BOOLEAN : CheckEthernet(works) /\ Fails(TRUE, works)
    /\ UNCHANGED requests /\ SwitchesOnly
StateOf(a) == OnActiveConnChanged(a) /\ UNCHANGED budget /\ WifiOnly
Guard(a)   == OnConnectTimeout(a) /\ UNCHANGED budget /\ WifiOnly
Returns    == PromptReturns /\ UNCHANGED budget /\ WifiOnly
BtMessage  == BtReceive /\ UNCHANGED budget /\ BtOnly
OpGuard(c) == OnBtOpTimeout(c) /\ UNCHANGED budget /\ BtOnly

Next ==
    \/ ClickSwitch \/ ClickNetwork \/ ClickDevice
    \/ \E accept \in BOOLEAN : Answer(accept)
    \/ World
    \/ \E r \in Radios : SignalOf(r)
    \/ OfDevice \/ EthTimer \/ Returns \/ BtMessage
    \/ \E a \in Attempts : StateOf(a) \/ Guard(a)
    \/ \E c \in Contexts : OpGuard(c)

Spec == Init /\ [][Next]_vars

(* The main loop, outer or inner, dispatches signals and timeouts, and the *)
(* user gives up in the end.                                               *)
Fairness ==
    /\ \A r \in Radios : WF_vars(SignalOf(r))
    /\ WF_vars(EthTimer) /\ WF_vars(Returns) /\ WF_vars(BtMessage)
    /\ \A a \in Attempts : WF_vars(StateOf(a)) /\ WF_vars(Guard(a))
    /\ \A c \in Contexts : WF_vars(OpGuard(c))
    /\ WF_vars(Answer(FALSE))

FairSpec == Spec /\ Fairness

-----------------------------------------------------------------------------
(* The user's requests being finite, every attempt and every operation     *)
(* comes to its end, whatever NetworkManager and BlueZ leave unsaid, and   *)
(* no prompt stays open; only a use of freed memory, whose outcome is      *)
(* anybody's guess, ends this.                                             *)
Busy ==
    \/ \E a \in Attempts : stage[a] \notin {"none", "over"}
    \/ \E c \in Contexts : Live(c)
    \/ prompts # << >>

OperationsEnd == Busy ~> broken \/ ~Busy
=============================================================================
