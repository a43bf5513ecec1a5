------------------------- MODULE PanelRadios_proofs -------------------------
(***************************************************************************)
(* Theorems about PanelRadios, for any number of requests, mishaps,        *)
(* attempts and devices: the switches agree with the radios, airplane mode *)
(* holds and restores, and what the panel reports of a Wi-Fi attempt is    *)
(* what has happened to it.                                                *)
(***************************************************************************)
EXTENDS PanelRadios, Integers, SequenceTheorems, TLAPS

-----------------------------------------------------------------------------
(* The inductive invariant.                                                *)

SwitchTypeOK ==
    /\ actual \in [Links -> BOOLEAN]
    /\ cached \in [Links -> BOOLEAN]
    /\ shown \in [Links -> BOOLEAN]
    /\ inTransit \in [Radios -> Seq(BOOLEAN)]
    /\ ethTimers \in Nat
    /\ adapter \in {"absent", "unseen", "found"}
    /\ airplane \in BOOLEAN
    /\ saved \in [Radios -> BOOLEAN]
    /\ astray \in [Links -> {"nothing", "button", "both"}]
    /\ before \in [Radios -> BOOLEAN]
    /\ touched \in [Radios -> BOOLEAN]

Agree(l) ==
    /\ astray[l] # "both" => cached[l] = actual[l]
    /\ astray[l] = "nothing" => shown[l] = actual[l]

(* The last signal on its way tells the real state; when there is none,    *)
(* the panel knows it.                                                     *)
Told(r) ==
    IF inTransit[r] = << >>
    THEN Agree(r)
    ELSE astray[r] # "both" => inTransit[r][Len(inTransit[r])] = actual[r]

EthTold == ethTimers = 0 => Agree("eth")

(* Without an adapter Bluetooth was never on.                              *)
Bare ==
    adapter = "absent" =>
        ~actual["bt"] /\ ~cached["bt"] /\ ~saved["bt"] /\ inTransit["bt"] = << >>

(* A radio that airplane mode alone has switched: nothing the panel knows  *)
(* or is going to hear says that it is on.                                 *)
Grounded(r) ==
    /\ ~cached[r] /\ ~actual[r] /\ saved[r] = before[r]
    /\ \A i \in 1 .. Len(inTransit[r]) : ~inTransit[r][i]

Kept(r) == IF airplane THEN Grounded(r) ELSE actual[r] = before[r]

IInv ==
    /\ SwitchTypeOK
    /\ \A r \in Radios : Told(r)
    /\ EthTold
    /\ Bare
    /\ \A r \in Radios : ~touched[r] => Kept(r)

-----------------------------------------------------------------------------
(* The steps that change a switch.                                         *)

SwitchStep ==
    \/ \E r \in Radios : ChangedByOthers(r) \/ DaemonRestarts(r, ~actual[r])
                         \/ PropertiesChanged(r)
    \/ EthChanges
    \/ \E works \in BOOLEAN :
          \/ ToggleWifi(works) \/ ToggleEthernet(works) \/ CheckEthernet(works)
          \/ ToggleBluetooth(works) \/ ToggleInVain(works)
    \/ OpenDevices \/ DeviceChanged
    \/ \E on \in BOOLEAN : AdapterAdded(on)
    \/ \E works \in SUBSET Radios : AirplaneOn(works) \/ AirplaneOff(works)
    \/ UNCHANGED switchVars

LEMMA NextSwitches == [Next]_vars => SwitchStep
    BY DEF Next, vars, SwitchStep, ClickSwitch, ClickNetwork, Answer,
       ClickDevice, World, SignalOf, OfDevice, EthTimer, Returns, BtMessage, StateOf,
       Guard, OpGuard, WifiOnly, BtOnly

LEMMA NoSignal == \A r \in Radios : SwitchInit => Len(inTransit[r]) = 0
    BY EmptySeq DEF SwitchInit

LEMMA InitHolds == StartsAssumption /\ SwitchInit => IInv
<1> SUFFICES ASSUME StartsAssumption, SwitchInit PROVE IInv
    OBVIOUS
<1>1. actual \in [Links -> BOOLEAN]
    BY DEF StartsAssumption, SwitchInit
<1>2. SwitchTypeOK
    BY <1>1, EmptySeq DEF SwitchInit, SwitchTypeOK, Links
<1>3. \A r \in Radios : Told(r) /\ Kept(r)
    BY NoSignal DEF SwitchInit, Told, Agree, Kept, Links
<1>4. EthTold
    BY DEF SwitchInit, EthTold, Agree
<1>5. Bare
    BY DEF SwitchInit, Bare, Links, Radios
<1> QED BY <1>2, <1>3, <1>4, <1>5 DEF IInv

-----------------------------------------------------------------------------
(* What a command or a change does to one radio.                           *)

LEMMA Appended ==
    ASSUME NEW s \in Seq(BOOLEAN), NEW b \in BOOLEAN
    PROVE  /\ Append(s, b) \in Seq(BOOLEAN)
           /\ Append(s, b) # << >>
           /\ Append(s, b)[Len(Append(s, b))] = b
           /\ (\A i \in 1 .. Len(s) : ~s[i]) /\ ~b =>
                 \A i \in 1 .. Len(Append(s, b)) : ~Append(s, b)[i]
<1>1. Len(s) \in Nat
    BY LenProperties
<1>2. /\ Append(s, b) \in Seq(BOOLEAN)
      /\ Len(Append(s, b)) = Len(s) + 1
      /\ \A i \in 1 .. Len(s) : Append(s, b)[i] = s[i]
      /\ Append(s, b)[Len(s) + 1] = b
    BY AppendProperties
<1>3. Append(s, b) # << >>
    BY <1>1, <1>2, EmptySeq
<1> DEFINE n == Len(s)
<1> HIDE DEF n
<1>4. \A i \in 1 .. n + 1 : i \in 1 .. n \/ i = n + 1
    BY <1>1 DEF n
<1> QED BY <1>2, <1>3, <1>4 DEF n

(* After Become the last signal tells the state, unless none was sent      *)
(* because nothing changed.                                                *)
LEMMA BecomeTells ==
    ASSUME SwitchTypeOK, NEW set \in SUBSET Radios, NEW on \in BOOLEAN,
           Become(set, on), NEW r \in Radios
    PROVE  /\ actual'[r] = (IF r \in set THEN on ELSE actual[r])
           /\ actual' \in [Links -> BOOLEAN]
           /\ inTransit' \in [Radios -> Seq(BOOLEAN)]
           /\ \/ inTransit'[r] = inTransit[r] /\ actual'[r] = actual[r]
              \/ /\ inTransit'[r] # << >> /\ r \in set /\ actual[r] # on
                 /\ inTransit'[r][Len(inTransit'[r])] = actual'[r]
           /\ (\A i \in 1 .. Len(inTransit[r]) : ~inTransit[r][i]) /\ ~on =>
                 \A i \in 1 .. Len(inTransit'[r]) : ~inTransit'[r][i]
<1>1. /\ actual' \in [Links -> BOOLEAN]
      /\ actual'[r] = (IF r \in set THEN on ELSE actual[r])
    BY DEF Become, SwitchTypeOK, Links
<1>2. \A q \in Radios :
          inTransit[q] \in Seq(BOOLEAN) /\ Append(inTransit[q], on) \in Seq(BOOLEAN)
    BY Appended DEF SwitchTypeOK
<1>3. inTransit' \in [Radios -> Seq(BOOLEAN)]
    BY <1>2 DEF Become
<1>4. CASE r \in set /\ actual[r] # on
    <2>1. inTransit'[r] = Append(inTransit[r], on)
        BY <1>4 DEF Become
    <2> QED BY <1>1, <1>2, <1>3, <1>4, <2>1, Appended
<1>5. CASE ~(r \in set /\ actual[r] # on)
    <2>1. inTransit'[r] = inTransit[r] /\ actual'[r] = actual[r]
        BY <1>1, <1>5 DEF Become
    <2> QED BY <1>1, <1>3, <2>1
<1> QED BY <1>4, <1>5
-----------------------------------------------------------------------------
(* Each step.                                                              *)

LEMMA OthersKeep ==
    ASSUME IInv, NEW r \in Radios, ChangedByOthers(r) PROVE IInv'
<1> USE DEF IInv
<1>0. actual[r] \in BOOLEAN
    BY DEF SwitchTypeOK, Links
<1>a. (~actual[r]) \in BOOLEAN
    BY <1>0
<1>1. {r} \in SUBSET Radios /\ Become({r}, ~actual[r])
    BY DEF ChangedByOthers
<1>b. /\ actual' \in [Links -> BOOLEAN]
      /\ inTransit' \in [Radios -> Seq(BOOLEAN)]
    BY <1>a, <1>1, BecomeTells
<1>c. touched' \in [Radios -> BOOLEAN]
    BY DEF ChangedByOthers, Touch, SwitchTypeOK
<1>2. SwitchTypeOK'
    BY <1>b, <1>c DEF ChangedByOthers, SwitchTypeOK
<1>3. ASSUME NEW q \in Radios PROVE Told(q)'
    <2>1. \/ inTransit'[q] = inTransit[q] /\ actual'[q] = actual[q]
          \/ inTransit'[q] # << >> /\ inTransit'[q][Len(inTransit'[q])] = actual'[q]
        BY <1>a, <1>1, BecomeTells
    <2> QED BY <2>1 DEF ChangedByOthers, Told, Agree
<1>4. EthTold'
    BY <1>1 DEF ChangedByOthers, EthTold, Agree, Become, Links, Radios, SwitchTypeOK
<1>5. ASSUME NEW q \in Radios, q # r
      PROVE  actual'[q] = actual[q] /\ inTransit'[q] = inTransit[q]
    BY <1>1, <1>5 DEF Become, SwitchTypeOK, Links
<1>6. Bare'
    <2>1. CASE r = "bt"
        BY <2>1 DEF ChangedByOthers, Bare
    <2>2. CASE r # "bt"
        BY <1>5, <2>2 DEF ChangedByOthers, Bare, Radios
    <2> QED BY <2>1, <2>2
<1>7. ASSUME NEW q \in Radios, ~touched'[q] PROVE Kept(q)'
    <2>1. q # r /\ ~touched[q]
        BY <1>7 DEF ChangedByOthers, Touch
    <2> QED BY <1>5, <2>1 DEF ChangedByOthers, Kept, Grounded
<1> QED BY <1>2, <1>3, <1>4, <1>6, <1>7

LEMMA RestartKeeps ==
    ASSUME IInv, NEW r \in Radios, DaemonRestarts(r, ~actual[r]) PROVE IInv'
<1> USE DEF IInv
<1>1. SwitchTypeOK'
    BY DEF DaemonRestarts, SwitchTypeOK, Touch, Stray
<1>2. ASSUME NEW q \in Radios PROVE Told(q)'
    BY DEF DaemonRestarts, Stray, Told, Agree, SwitchTypeOK, Links
<1>3. EthTold'
    BY DEF DaemonRestarts, Stray, EthTold, Agree, Links, Radios, SwitchTypeOK
<1>4. Bare'
    BY DEF DaemonRestarts, Bare, SwitchTypeOK, Links
<1>5. ASSUME NEW q \in Radios, ~touched'[q] PROVE Kept(q)'
    BY <1>5 DEF DaemonRestarts, Touch, Kept, Grounded, SwitchTypeOK, Links
<1> QED BY <1>1, <1>2, <1>3, <1>4, <1>5

LEMMA AddedKeeps ==
    ASSUME IInv, NEW on \in BOOLEAN, AdapterAdded(on) PROVE IInv'
<1> USE DEF IInv
<1>1. SwitchTypeOK'
    BY DEF AdapterAdded, SwitchTypeOK, Touch, Stray
<1>2. Told("wifi")'
    BY DEF AdapterAdded, Stray, Told, Agree, SwitchTypeOK, Links, Radios
<1>3. Told("bt")'
    <2>1. CASE on
        BY <2>1 DEF AdapterAdded, Stray, Told, Agree, SwitchTypeOK, Links, Radios
    <2>2. CASE ~on
        <3>1. actual' = actual /\ astray' = astray
            BY <2>2 DEF AdapterAdded, Stray, Bare, SwitchTypeOK, Links, Radios
        <3> QED BY <3>1 DEF AdapterAdded, Told, Agree, Radios
    <2> QED BY <2>1, <2>2
<1>4. EthTold'
    BY DEF AdapterAdded, Stray, EthTold, Agree, Links, Radios, SwitchTypeOK
<1>5. Bare'
    BY DEF AdapterAdded, Bare
<1>6. ASSUME NEW q \in Radios, ~touched'[q] PROVE Kept(q)'
    BY <1>6 DEF AdapterAdded, Touch, Kept, Grounded, SwitchTypeOK, Links, Radios
<1> QED BY <1>1, <1>2, <1>3, <1>4, <1>5, <1>6 DEF Radios

(* Steps of the panel that touch nothing but Bluetooth's button or copy.   *)
LEMMA PaintKeeps ==
    ASSUME IInv,
           OpenDevices \/ DeviceChanged \/ \E works \in BOOLEAN : ToggleInVain(works)
    PROVE  IInv'
<1> USE DEF IInv
<1>0. "bt" \in Links /\ "bt" \in Radios /\ "eth" # "bt" /\ "eth" \in Links
      /\ \A q \in Radios : q \in Links
    BY DEF Links, Radios
<1>1. CASE OpenDevices
    <2>1. SwitchTypeOK'
        BY <1>0, <1>1 DEF OpenDevices, SwitchTypeOK
    <2>2. \A q \in Radios : Told(q)'
        BY <1>0, <1>1 DEF OpenDevices, Told, Agree, SwitchTypeOK
    <2>3. EthTold' /\ Bare'
        BY <1>0, <1>1 DEF OpenDevices, EthTold, Agree, Bare, SwitchTypeOK
    <2>4. ASSUME NEW q \in Radios, ~touched'[q] PROVE Kept(q)'
        BY <1>0, <1>1, <2>4 DEF OpenDevices, Kept, Grounded, SwitchTypeOK
    <2> QED BY <2>1, <2>2, <2>3, <2>4
<1>2. CASE DeviceChanged
    <2>1. SwitchTypeOK'
        BY <1>0, <1>2 DEF DeviceChanged, SwitchTypeOK
    <2>2. \A q \in Radios : Told(q)'
        BY <1>0, <1>2 DEF DeviceChanged, Told, Agree, SwitchTypeOK
    <2>3. EthTold' /\ Bare'
        BY <1>0, <1>2 DEF DeviceChanged, EthTold, Agree, Bare, SwitchTypeOK
    <2>4. ASSUME NEW q \in Radios, ~touched'[q] PROVE Kept(q)'
        BY <1>0, <1>2, <2>4 DEF DeviceChanged, Kept, Grounded
    <2> QED BY <2>1, <2>2, <2>3, <2>4
<1>3. ASSUME NEW works \in BOOLEAN, ToggleInVain(works) PROVE IInv'
    <2>1. SwitchTypeOK'
        BY <1>0, <1>3 DEF ToggleInVain, StrayButton, SwitchTypeOK
    <2>2. \A q \in Radios : Told(q)'
        BY <1>0, <1>3 DEF ToggleInVain, StrayButton, Told, Agree, SwitchTypeOK
    <2>3. EthTold' /\ Bare'
        BY <1>0, <1>3 DEF ToggleInVain, StrayButton, EthTold, Agree, Bare, SwitchTypeOK
    <2>4. ASSUME NEW q \in Radios, ~touched'[q] PROVE Kept(q)'
        BY <1>0, <1>3, <2>4 DEF ToggleInVain, Kept, Grounded
    <2> QED BY <2>1, <2>2, <2>3, <2>4
<1> QED BY <1>1, <1>2, <1>3

LEMMA Beheaded ==
    ASSUME NEW s \in Seq(BOOLEAN), s # << >>
    PROVE  /\ Len(s) \in Nat \ {0} /\ Head(s) \in BOOLEAN /\ Head(s) = s[1]
           /\ Tail(s) \in Seq(BOOLEAN) /\ Len(Tail(s)) = Len(s) - 1
           /\ \A i \in 1 .. Len(s) - 1 : Tail(s)[i] = s[i + 1]
           /\ Len(s) = 1 => Tail(s) = << >>
           /\ Len(s) > 1 => Tail(s) # << >> /\ Tail(s)[Len(Tail(s))] = s[Len(s)]
<1> DEFINE n == Len(s)
<1>1. n \in Nat \ {0}
    BY EmptySeq, LenProperties
<1>2. /\ Head(s) \in BOOLEAN /\ Head(s) = s[1]
      /\ Tail(s) \in Seq(BOOLEAN) /\ Len(Tail(s)) = n - 1
      /\ \A i \in 1 .. n - 1 : Tail(s)[i] = s[i + 1]
    <2>1. Head(s) = s[1] /\ 1 \in 1 .. n
        BY <1>1
    <2>2. Head(s) \in BOOLEAN
        BY <2>1, ElementOfSeq
    <2>3. /\ Tail(s) \in Seq(BOOLEAN) /\ Len(Tail(s)) = n - 1
          /\ \A i \in 1 .. n - 1 : Tail(s)[i] = s[i + 1]
        BY HeadTailProperties
    <2> QED BY <2>1, <2>2, <2>3
<1>3. n = 1 => Tail(s) = << >>
    <2>1. Tail(s) # << >> => Len(Tail(s)) \in Nat \ {0}
        BY <1>2, EmptySeq
    <2> QED BY <1>2, <2>1
<1>4. ASSUME n > 1 PROVE Tail(s) # << >> /\ Tail(s)[Len(Tail(s))] = s[n]
    <2> HIDE DEF n
    <2>1. n - 1 \in 1 .. n - 1 /\ n - 1 + 1 = n /\ n - 1 # 0
        BY <1>1, <1>4
    <2> QED BY <1>2, <2>1, EmptySeq
<1> QED BY <1>1, <1>2, <1>3, <1>4

LEMMA SignalKeeps ==
    ASSUME IInv, NEW r \in Radios, PropertiesChanged(r) PROVE IInv'
<1> USE DEF IInv
<1> DEFINE s == inTransit[r]
           n == Len(s)
<1>1. /\ s \in Seq(BOOLEAN) /\ s # << >>
      /\ inTransit' = [inTransit EXCEPT ![r] = Tail(s)]
    BY DEF PropertiesChanged, SwitchTypeOK
<1>2. /\ n \in Nat \ {0} /\ Head(s) \in BOOLEAN /\ Head(s) = s[1]
      /\ Tail(s) \in Seq(BOOLEAN) /\ Len(Tail(s)) = n - 1
      /\ \A i \in 1 .. n - 1 : Tail(s)[i] = s[i + 1]
      /\ n = 1 => Tail(s) = << >>
      /\ n > 1 => Tail(s) # << >> /\ Tail(s)[Len(Tail(s))] = s[n]
    BY <1>1, Beheaded
<1>3. inTransit'[r] = Tail(s) /\ \A q \in Radios \ {r} : inTransit'[q] = inTransit[q]
    BY <1>1 DEF SwitchTypeOK
<1>6. /\ cached'[r] = Head(s) /\ shown'[r] = Head(s) /\ actual' = actual
      /\ \A l \in Links \ {r} : cached'[l] = cached[l] /\ shown'[l] = shown[l]
                              /\ astray'[l] = astray[l]
      /\ astray'[r] = (IF s = << actual[r] >> THEN "nothing" ELSE astray[r])
    BY DEF PropertiesChanged, SwitchTypeOK, Links
<1>7. SwitchTypeOK'
    <2>1. inTransit' \in [Radios -> Seq(BOOLEAN)]
        BY <1>1, <1>2 DEF SwitchTypeOK
    <2>2. astray' \in [Links -> {"nothing", "button", "both"}]
        BY DEF PropertiesChanged, SwitchTypeOK
    <2> QED BY <1>2, <2>1, <2>2 DEF PropertiesChanged, SwitchTypeOK
<1>8. s = << actual[r] >> => n = 1 /\ Head(s) = actual[r]
    <2>1. ASSUME s = << actual[r] >> PROVE n = 1 /\ s[1] = actual[r]
        BY <2>1
    <2> QED BY <1>2, <2>1
<1> HIDE DEF n
<1>9. n = 1 \/ n > 1
    BY <1>2
<1>10. ASSUME NEW q \in Radios PROVE Told(q)'
    <2>1. CASE q # r
        BY <1>3, <1>6, <2>1 DEF Told, Agree, Links
    <2>2. CASE q = r /\ astray'[r] = "both"
        BY <2>2 DEF Told, Agree
    <2>3. CASE q = r /\ astray'[r] # "both" /\ n > 1
        <3>1. astray[r] # "both"
            BY <1>6, <1>8, <2>3
        <3>2. s[n] = actual[r]
            BY <1>1, <3>1 DEF Told, n
        <3> QED BY <1>2, <1>3, <1>6, <2>3, <3>2 DEF Told
    <2>4. CASE q = r /\ astray'[r] # "both" /\ n = 1
        <3>1. Head(s) = actual[r]
            <4>1. CASE astray[r] = "both"
                BY <1>6, <1>8, <2>4, <4>1
            <4>2. CASE astray[r] # "both"
                BY <1>1, <1>2, <2>4, <4>2 DEF Told, n
            <4> QED BY <4>1, <4>2
        <3> QED BY <1>2, <1>3, <1>6, <2>4, <3>1 DEF Told, Agree
    <2> QED BY <1>9, <2>1, <2>2, <2>3, <2>4
<1>11. EthTold'
    BY <1>6 DEF PropertiesChanged, EthTold, Agree, Links, Radios
<1>12. Bare'
    <2>1. CASE r = "bt"
        BY <1>1, <2>1 DEF PropertiesChanged, Bare
    <2>2. CASE r # "bt"
        BY <1>3, <1>6, <2>2 DEF PropertiesChanged, Bare, Links, Radios
    <2> QED BY <2>1, <2>2
<1>13. ASSUME NEW q \in Radios, ~touched'[q] PROVE Kept(q)'
    <2>1. CASE q # r
        BY <1>3, <1>6, <1>13, <2>1
        DEF PropertiesChanged, Kept, Grounded, Links
    <2>2. CASE q = r
        <3>1. Kept(r)
            BY <1>13, <2>2 DEF PropertiesChanged
        <3>2. ASSUME airplane PROVE Grounded(r)'
            <4>1. \A i \in 1 .. n : ~s[i]
                BY <3>1, <3>2 DEF Kept, Grounded, n
            <4>2. 1 \in 1 .. n /\ \A i \in 1 .. n - 1 : i + 1 \in 1 .. n
                BY <1>2
            <4>3. ~Head(s) /\ \A i \in 1 .. n - 1 : ~Tail(s)[i]
                BY <1>2, <4>1, <4>2
            <4>4. \A i \in 1 .. Len(inTransit'[r]) : ~inTransit'[r][i]
                BY <1>2, <1>3, <4>3
            <4>5. ~cached'[r] /\ ~actual'[r] /\ saved'[r] = before'[r]
                BY <1>6, <3>1, <3>2, <4>3 DEF PropertiesChanged, Kept, Grounded
            <4> QED BY <4>4, <4>5 DEF Grounded
        <3> QED BY <2>2, <3>1, <3>2 DEF PropertiesChanged, Kept
    <2> QED BY <2>1, <2>2
<1> QED BY <1>7, <1>10, <1>11, <1>12, <1>13

(* Ethernet does not touch the radios.                                     *)
LEMMA EthernetApart ==
    ASSUME IInv, SwitchTypeOK', EthTold', airplane' = airplane,
           inTransit' = inTransit, touched' = touched, saved' = saved,
           before' = before, adapter' = adapter,
           \A r \in Radios : /\ actual'[r] = actual[r] /\ cached'[r] = cached[r]
                             /\ shown'[r] = shown[r] /\ astray'[r] = astray[r]
    PROVE  IInv'
<1>1. \A r \in Radios : Told(r)'
    BY DEF IInv, Told, Agree
<1>2. \A r \in Radios : ~touched'[r] => Kept(r)'
    BY DEF IInv, Kept, Grounded
<1>3. Bare'
    BY DEF IInv, Bare, Radios
<1> QED BY <1>1, <1>2, <1>3 DEF IInv

LEMMA EthernetKeeps ==
    ASSUME IInv,
           \/ EthChanges
           \/ \E works \in BOOLEAN : ToggleEthernet(works) \/ CheckEthernet(works)
    PROVE  IInv'
<1> USE DEF IInv, SwitchTypeOK, Links, Radios, EthTold, Agree
<1>0. "eth" \notin Radios /\ "eth" \in Links
    OBVIOUS
<1>1. CASE EthChanges
    <2>1. /\ SwitchTypeOK' /\ astray'["eth"] = "both"
          /\ \A r \in Radios : actual'[r] = actual[r] /\ astray'[r] = astray[r]
        BY <1>1 DEF EthChanges, Stray
    <2>2. EthTold'
        BY <2>1
    <2> QED BY <1>1, <2>1, <2>2, EthernetApart DEF EthChanges
<1>2. ASSUME NEW works \in BOOLEAN, CheckEthernet(works) PROVE IInv'
    <2>1. SwitchTypeOK'
        BY <1>2 DEF CheckEthernet
    <2>2. EthTold'
        BY <1>2 DEF CheckEthernet
    <2>3. \A r \in Radios : /\ actual'[r] = actual[r] /\ cached'[r] = cached[r]
                             /\ shown'[r] = shown[r] /\ astray'[r] = astray[r]
        BY <1>2 DEF CheckEthernet
    <2> QED BY <1>2, <2>1, <2>2, <2>3, EthernetApart DEF CheckEthernet
<1>3. ASSUME NEW works \in BOOLEAN, ToggleEthernet(works) PROVE IInv'
    <2>1. SwitchTypeOK' /\ ethTimers' # 0
        BY <1>3 DEF ToggleEthernet
    <2>2. \A r \in Radios : actual'[r] = actual[r] /\ shown'[r] = shown[r]
        BY <1>3 DEF ToggleEthernet
    <2>3. EthTold'
        BY <2>1
    <2> QED BY <1>3, <2>1, <2>2, <2>3, EthernetApart DEF ToggleEthernet
<1> QED BY <1>1, <1>2, <1>3

-----------------------------------------------------------------------------
(* The clicks.                                                             *)

(* The panel sets the radios of set; works are those whose Set succeeds.   *)
(* The state of such a radio is told by the signal that Become sends, or   *)
(* was told before; where the Set fails, what was painted or copied in     *)
(* vain is astray.  The copy of the others may be read again.              *)
Commanded(set, works, on) ==
    /\ set \in SUBSET Radios /\ works \in SUBSET set /\ on \in BOOLEAN
    /\ Become(works, on)
    /\ cached' \in [Links -> BOOLEAN] /\ shown' \in [Links -> BOOLEAN]
    /\ \A r \in set : shown'[r] = on
    /\ \A r \in works : cached'[r] = on \/ (cached'[r] = cached[r] /\ cached[r] # on)
    /\ \A l \in Links \ set : shown'[l] = shown[l] /\ cached'[l] \in {cached[l], actual[l]}
    /\ astray' \in [Links -> {"nothing", "button", "both"}]
    /\ \A l \in Links : astray'[l] = "nothing" => astray[l] = "nothing"
    /\ \A l \in Links : astray'[l] # "both" => astray[l] # "both"
    /\ \A l \in set \ works : /\ astray'[l] # "nothing"
                              /\ astray'[l] # "both" => cached'[l] = cached[l]
    /\ ethTimers' = ethTimers

LEMMA CommandTells ==
    ASSUME IInv, NEW set, NEW works, NEW on, Commanded(set, works, on)
    PROVE  /\ actual' \in [Links -> BOOLEAN]
           /\ inTransit' \in [Radios -> Seq(BOOLEAN)]
           /\ \A r \in Radios : Told(r)'
           /\ EthTold'
<1> USE DEF IInv
<1>1. works \in SUBSET Radios /\ \A r \in Radios : r \in Links
    BY DEF Links, Commanded
<1>a. set \in SUBSET Radios /\ works \in SUBSET set /\ on \in BOOLEAN
    BY DEF Commanded
<1>b. Become(works, on)
    BY DEF Commanded
<1>2. /\ actual' \in [Links -> BOOLEAN]
      /\ inTransit' \in [Radios -> Seq(BOOLEAN)]
    <2> "wifi" \in Radios
        BY DEF Radios
    <2> QED BY <1>1, <1>a, <1>b, BecomeTells
<1>3. ASSUME NEW r \in Radios PROVE Told(r)'
    <2>1. /\ r \in Links /\ Told(r)
          /\ astray'[r] = "nothing" => astray[r] = "nothing"
          /\ astray'[r] # "both" => astray[r] # "both"
        BY <1>1 DEF Commanded
    <2>2. CASE r \notin works
        <3>1. actual'[r] = actual[r] /\ inTransit'[r] = inTransit[r]
            BY <1>1, <1>a, <1>b, <2>2 DEF Become
        <3>2. astray'[r] # "both" => cached'[r] \in {cached[r], actual[r]}
            BY <2>1, <2>2 DEF Commanded
        <3>3. astray'[r] = "nothing" => shown'[r] = shown[r]
            BY <2>1, <2>2 DEF Commanded
        <3> QED BY <2>1, <3>1, <3>2, <3>3 DEF Told, Agree
    <2>3. CASE r \in works
        <3>1. /\ actual'[r] = on
              /\ \/ inTransit'[r] = inTransit[r] /\ actual'[r] = actual[r]
                 \/ /\ inTransit'[r] # << >>
                    /\ inTransit'[r][Len(inTransit'[r])] = actual'[r]
            BY <1>1, <1>a, <1>b, <2>3, BecomeTells
        <3>2. /\ shown'[r] = on
              /\ cached'[r] = on \/ (cached'[r] = cached[r] /\ cached[r] # on)
            BY <1>a, <2>3 DEF Commanded
        <3> QED BY <2>1, <3>1, <3>2 DEF Told, Agree
    <2> QED BY <2>2, <2>3
<1>4. EthTold'
    <2>1. "eth" \in Links \ set /\ "eth" \notin works
        BY <1>1, <1>a DEF Links, Radios
    <2>2. actual'["eth"] = actual["eth"]
        BY <1>b, <2>1 DEF Become
    <2>3. /\ shown'["eth"] = shown["eth"]
          /\ cached'["eth"] \in {cached["eth"], actual["eth"]}
          /\ ethTimers' = ethTimers
          /\ astray'["eth"] = "nothing" => astray["eth"] = "nothing"
          /\ astray'["eth"] # "both" => astray["eth"] # "both"
        BY <2>1 DEF Commanded
    <2> QED BY <2>2, <2>3 DEF EthTold, Agree
<1> QED BY <1>2, <1>3, <1>4

(* A click on one radio.                                                   *)
Clicked(r, on, works) ==
    /\ shown' = [shown EXCEPT ![r] = on]
    /\ \/ cached' = [cached EXCEPT ![r] = on]
       \/ cached' = cached /\ cached[r] # on
    /\ Become(IF works THEN {r} ELSE {}, on)
    /\ \/ Stray(IF works THEN {} ELSE {r})
       \/ StrayButton(IF works THEN {} ELSE {r}) /\ cached' = cached
    /\ Touch({r})
    /\ UNCHANGED << ethTimers, airplane, saved, before >>
    /\ \/ r = "bt" /\ adapter' = "found"
       \/ r = "wifi" /\ adapter' = adapter

LEMMA ToggleClicks ==
    ASSUME IInv, NEW works \in BOOLEAN, ToggleWifi(works) \/ ToggleBluetooth(works)
    PROVE  \E r \in Radios, on \in BOOLEAN : Clicked(r, on, works)
<1> USE DEF IInv, SwitchTypeOK
<1>0. "wifi" \in Radios /\ "bt" \in Radios
    BY DEF Radios
<1>1. CASE ToggleWifi(works)
    <2>1. PICK on \in BOOLEAN : on = ~cached["wifi"]
        OBVIOUS
    <2>2. Clicked("wifi", on, works)
        BY <1>1, <2>1 DEF ToggleWifi, Clicked
    <2> QED BY <1>0, <2>2
<1>2. CASE ToggleBluetooth(works)
    <2>1. PICK on \in BOOLEAN : on = ~BtCopy
        OBVIOUS
    <2>2. Clicked("bt", on, works)
        BY <1>2, <2>1 DEF ToggleBluetooth, Clicked
    <2> QED BY <1>0, <2>2
<1> QED BY <1>1, <1>2

LEMMA ClickKeeps ==
    ASSUME IInv, NEW works \in BOOLEAN, NEW r \in Radios, NEW on \in BOOLEAN,
           Clicked(r, on, works)
    PROVE  IInv'
<1> USE DEF IInv
<1> DEFINE reached == IF works THEN {r} ELSE {}
<1>1. r \in Links /\ {r} \in SUBSET Radios /\ reached \in SUBSET {r}
    BY DEF Links
<1>2. Become(reached, on)
    BY DEF Clicked
<1>3. cached' \in [Links -> BOOLEAN] /\ shown' \in [Links -> BOOLEAN]
    BY <1>1 DEF Clicked, SwitchTypeOK
<1>4. /\ shown'[r] = on
      /\ cached'[r] = on \/ (cached'[r] = cached[r] /\ cached[r] # on)
      /\ \A l \in Links \ {r} : shown'[l] = shown[l] /\ cached'[l] = cached[l]
    BY <1>1 DEF Clicked, SwitchTypeOK
<1>5. /\ astray' \in [Links -> {"nothing", "button", "both"}]
      /\ \A l \in Links : /\ astray'[l] = "nothing" => astray[l] = "nothing"
                          /\ astray'[l] # "both" => astray[l] # "both"
      /\ r \notin reached => /\ astray'[r] # "nothing"
                             /\ astray'[r] # "both" => cached'[r] = cached[r]
    <2>1. CASE Stray(IF works THEN {} ELSE {r})
        BY <1>1, <2>1 DEF Stray, SwitchTypeOK
    <2>2. CASE StrayButton(IF works THEN {} ELSE {r}) /\ cached' = cached
        BY <1>1, <2>2 DEF StrayButton, SwitchTypeOK
    <2> QED BY <2>1, <2>2 DEF Clicked
<1>6. touched' = [q \in Radios |-> touched[q] \/ q = r]
    BY DEF Clicked, Touch
<1>7. \A q \in Radios \ {r} : actual'[q] = actual[q] /\ inTransit'[q] = inTransit[q]
    BY <1>1, <1>2 DEF Become, Links
<1>8. /\ UNCHANGED << ethTimers, airplane, saved, before >>
      /\ \/ r = "bt" /\ adapter' = "found"
         \/ r = "wifi" /\ adapter' = adapter
    BY DEF Clicked
<1> HIDE DEF reached
<1>9. /\ actual' \in [Links -> BOOLEAN]
      /\ inTransit' \in [Radios -> Seq(BOOLEAN)]
      /\ \A q \in Radios : Told(q)'
      /\ EthTold'
    <2>1. Commanded({r}, reached, on)
        BY <1>1, <1>2, <1>3, <1>4, <1>5, <1>8 DEF Commanded
    <2> HIDE DEF IInv
    <2> QED BY <2>1, CommandTells
<1>10. SwitchTypeOK'
    BY <1>3, <1>5, <1>6, <1>8, <1>9 DEF SwitchTypeOK
<1>11. Bare'
    <2>1. CASE r = "bt"
        BY <1>8, <2>1 DEF Bare
    <2>2. CASE r # "bt"
        BY <1>4, <1>7, <1>8, <2>2 DEF Bare, Radios, Links
    <2> QED BY <2>1, <2>2
<1>12. ASSUME NEW q \in Radios, ~touched'[q] PROVE Kept(q)'
    <2>1. q # r /\ ~touched[q] /\ q \in Links
        BY <1>6, <1>12 DEF Links
    <2> QED BY <1>4, <1>7, <1>8, <2>1 DEF Kept, Grounded
<1> QED BY <1>9, <1>10, <1>11, <1>12

(* SetRadios, with the radios it reaches and those it moves.               *)
Reached(asked, set, moved, on, works) ==
    /\ set \in {asked, asked \ {"bt"}}
    /\ moved = {r \in set : r = "bt" => BtCopy # on}
    /\ "bt" \in set => adapter # "absent"
    /\ "bt" \in asked \ set => Unreached("bt" \in works)
    /\ adapter' = IF "bt" \in set THEN "found" ELSE adapter
    /\ cached' = [l \in Links |-> IF l \in set THEN on ELSE cached[l]]
    /\ shown' = [l \in Links |-> IF l \in moved THEN on ELSE shown[l]]
    /\ Become(moved \cap works, on)
    /\ Stray(moved \ works)
    /\ ethTimers' = ethTimers

LEMMA SetReaches ==
    ASSUME NEW asked, NEW on, NEW works, SetRadios(asked, on, works)
    PROVE  \E set, moved : Reached(asked, set, moved, on, works)
<1>1. PICK set \in {asked, asked \ {"bt"}} :
          LET m == {r \in set : r = "bt" => BtCopy # on} IN
          /\ "bt" \in set => adapter # "absent"
          /\ "bt" \in asked \ set => Unreached("bt" \in works)
          /\ adapter' = IF "bt" \in set THEN "found" ELSE adapter
          /\ cached' = [l \in Links |-> IF l \in set THEN on ELSE cached[l]]
          /\ shown' = [l \in Links |-> IF l \in m THEN on ELSE shown[l]]
          /\ Become(m \cap works, on)
          /\ Stray(m \ works)
          /\ UNCHANGED << coming, ethTimers >>
    BY DEF SetRadios
<1>2. Reached(asked, set, {r \in set : r = "bt" => BtCopy # on}, on, works)
    BY <1>1 DEF Reached
<1> QED BY <1>2

(* The copy that bluetooth_set_powered compares with on is Bluetooth's own *)
(* or has just been read.                                                  *)
LEMMA ReachedCommands ==
    ASSUME IInv, NEW asked \in SUBSET Radios, NEW on \in BOOLEAN,
           NEW works \in SUBSET Radios, NEW set, NEW moved,
           Reached(asked, set, moved, on, works)
    PROVE  Commanded(moved, moved \cap works, on)
<1> USE DEF IInv, SwitchTypeOK
<1>1. set \in SUBSET Radios /\ moved \in SUBSET set
    BY DEF Reached
<1>2. cached' \in [Links -> BOOLEAN] /\ shown' \in [Links -> BOOLEAN]
    BY DEF Reached
<1>3. \A r \in moved : shown'[r] = on /\ cached'[r] = on
    BY <1>1 DEF Reached, Links
<1>4. ASSUME NEW l \in Links \ moved
      PROVE  shown'[l] = shown[l] /\ cached'[l] \in {cached[l], actual[l]}
    <2>1. CASE l \in set
        <3>1. l = "bt" /\ BtCopy = on
            BY <1>4, <2>1 DEF Reached
        <3> QED BY <1>4, <2>1, <3>1 DEF Reached, BtCopy
    <2>2. CASE l \notin set
        BY <1>4, <2>2 DEF Reached
    <2> QED BY <2>1, <2>2
<1>5. astray' = [l \in Links |-> IF l \in moved \ works THEN "both" ELSE astray[l]]
    BY DEF Reached, Stray
<1>6. Become(moved \cap works, on) /\ ethTimers' = ethTimers
    BY DEF Reached
<1>7. \A l \in moved : l \in Links
    BY <1>1 DEF Links
<1> QED BY <1>1, <1>2, <1>3, <1>4, <1>5, <1>6, <1>7 DEF Commanded

LEMMA AirplaneOnKeeps ==
    ASSUME IInv, NEW works \in SUBSET Radios, AirplaneOn(works) PROVE IInv'
<1> USE DEF IInv
<1> DEFINE asked == {r \in Radios : cached[r]}
<1>1. PICK on \in BOOLEAN : on = FALSE
    OBVIOUS
<1>2. asked \in SUBSET Radios /\ \A r \in Radios : r \in asked <=> cached[r]
    OBVIOUS
<1>3. /\ airplane' = TRUE
      /\ saved' = [r \in Radios |-> r \in asked]
      /\ SetRadios(asked, on, works)
      /\ before' = [r \in Radios |-> actual[r]]
      /\ touched' = [r \in Radios |-> \/ cached[r] # actual[r]
                                      \/ inTransit[r] # << >> \/ r \notin works]
    BY <1>1 DEF AirplaneOn
<1> HIDE DEF asked
<1>4. PICK set, moved : Reached(asked, set, moved, on, works)
    BY <1>3, SetReaches
<1>5. Commanded(moved, moved \cap works, on)
    <2> HIDE DEF IInv
    <2> QED BY <1>2, <1>4, ReachedCommands
<1>6. /\ actual' \in [Links -> BOOLEAN]
      /\ inTransit' \in [Radios -> Seq(BOOLEAN)]
      /\ \A q \in Radios : Told(q)'
      /\ EthTold'
    <2> HIDE DEF IInv
    <2> QED BY <1>5, CommandTells
<1>7. SwitchTypeOK'
    <2>1. before' \in [Radios -> BOOLEAN]
        BY <1>3 DEF SwitchTypeOK, Links
    <2>2. saved' \in [Radios -> BOOLEAN] /\ touched' \in [Radios -> BOOLEAN]
        BY <1>3
    <2>3. /\ cached' \in [Links -> BOOLEAN] /\ shown' \in [Links -> BOOLEAN]
          /\ astray' \in [Links -> {"nothing", "button", "both"}]
          /\ ethTimers' = ethTimers
        BY <1>5 DEF Commanded
    <2>4. adapter' \in {"absent", "unseen", "found"}
        BY <1>4 DEF Reached, SwitchTypeOK
    <2> QED BY <1>3, <1>6, <2>1, <2>2, <2>3, <2>4 DEF SwitchTypeOK
<1>8. Bare'
    <2> SUFFICES ASSUME adapter' = "absent" PROVE Bare'
        BY DEF Bare
    <2>1. "bt" \notin set /\ adapter = "absent" /\ "bt" \notin moved
        BY <1>4 DEF Reached
    <2>2. /\ actual'["bt"] = actual["bt"] /\ inTransit'["bt"] = inTransit["bt"]
          /\ cached'["bt"] = cached["bt"]
        BY <1>4, <2>1 DEF Reached, Become, Links, Radios
    <2>3. ~saved'["bt"]
        BY <1>2, <1>3, <2>1 DEF Bare, Radios
    <2> QED BY <2>1, <2>2, <2>3 DEF Bare
<1>9. ASSUME NEW r \in Radios, ~touched'[r] PROVE Kept(r)'
    <2>1. cached[r] = actual[r] /\ inTransit[r] = << >> /\ r \in works /\ r \in Links
        BY <1>3, <1>9 DEF Links
    <2>2. Len(inTransit[r]) = 0
        BY <2>1, EmptySeq
    <2>3. cached[r] => r \in moved
        <3> SUFFICES ASSUME cached[r] PROVE r \in moved
            OBVIOUS
        <3>1. r \in asked
            BY <1>2
        <3>2. r = "bt" => adapter # "absent"
            BY DEF Bare
        <3>3. r = "bt" => BtCopy # on
            BY <1>1, <2>1 DEF BtCopy
        <3>4. r \in set
            BY <1>4, <2>1, <3>1, <3>2 DEF Reached, Unreached
        <3> QED BY <1>4, <3>3, <3>4 DEF Reached
    <2>4. r \in moved => cached[r]
        BY <1>2, <1>4 DEF Reached
    <2>5. PICK moving \in SUBSET Radios :
              moving = moved \cap works /\ Become(moving, FALSE)
        BY <1>1, <1>4 DEF Reached
    <2>6. /\ actual'[r] = (IF r \in moving THEN FALSE ELSE actual[r])
          /\ \A i \in 1 .. Len(inTransit'[r]) : ~inTransit'[r][i]
        <3>1. \A i \in 1 .. Len(inTransit[r]) : ~inTransit[r][i]
            BY <2>2
        <3> QED BY <2>5, <3>1, BecomeTells
    <2>7. ~actual'[r]
        BY <1>1, <2>1, <2>3, <2>5, <2>6
    <2>8. ~cached'[r]
        <3>1. cached'[r] = (IF r \in set THEN on ELSE cached[r])
            BY <1>4, <2>1 DEF Reached
        <3>2. cached[r] => r \in set
            BY <1>4, <2>3 DEF Reached
        <3> QED BY <1>1, <3>1, <3>2
    <2>9. saved'[r] = before'[r]
        <3>1. r \in asked <=> actual[r]
            BY <1>2, <2>1
        <3>2. actual[r] \in BOOLEAN
            BY <2>1 DEF SwitchTypeOK
        <3> QED BY <1>3, <3>1, <3>2
    <2> QED BY <1>3, <2>6, <2>7, <2>8, <2>9 DEF Kept, Grounded
<1> QED BY <1>6, <1>7, <1>8, <1>9

LEMMA AirplaneOffKeeps ==
    ASSUME IInv, NEW works \in SUBSET Radios, AirplaneOff(works) PROVE IInv'
<1> USE DEF IInv
<1> DEFINE asked == {r \in Radios : saved[r]}
<1>1. PICK on \in BOOLEAN : on = TRUE
    OBVIOUS
<1>2. asked \in SUBSET Radios /\ \A r \in Radios : r \in asked <=> saved[r]
    OBVIOUS
<1>3. /\ airplane /\ airplane' = FALSE
      /\ SetRadios(asked, on, works)
      /\ touched' = [r \in Radios |-> touched[r] \/ r \in asked \ works]
      /\ saved' = saved /\ before' = before
    BY <1>1 DEF AirplaneOff, Touch
<1> HIDE DEF asked
<1>4. PICK set, moved : Reached(asked, set, moved, on, works)
    BY <1>3, SetReaches
<1>5. Commanded(moved, moved \cap works, on)
    <2> HIDE DEF IInv
    <2> QED BY <1>2, <1>4, ReachedCommands
<1>6. /\ actual' \in [Links -> BOOLEAN]
      /\ inTransit' \in [Radios -> Seq(BOOLEAN)]
      /\ \A q \in Radios : Told(q)'
      /\ EthTold'
    <2> HIDE DEF IInv
    <2> QED BY <1>5, CommandTells
<1>7. SwitchTypeOK'
    <2>1. touched' \in [Radios -> BOOLEAN]
        BY <1>3 DEF SwitchTypeOK
    <2>2. /\ cached' \in [Links -> BOOLEAN] /\ shown' \in [Links -> BOOLEAN]
          /\ astray' \in [Links -> {"nothing", "button", "both"}]
          /\ ethTimers' = ethTimers
        BY <1>5 DEF Commanded
    <2>3. adapter' \in {"absent", "unseen", "found"}
        BY <1>4 DEF Reached, SwitchTypeOK
    <2> QED BY <1>3, <1>6, <2>1, <2>2, <2>3 DEF SwitchTypeOK
<1>8. Bare'
    <2> SUFFICES ASSUME adapter' = "absent" PROVE Bare'
        BY DEF Bare
    <2>1. "bt" \notin set /\ adapter = "absent" /\ "bt" \notin moved
        BY <1>4 DEF Reached
    <2>2. /\ actual'["bt"] = actual["bt"] /\ inTransit'["bt"] = inTransit["bt"]
          /\ cached'["bt"] = cached["bt"]
        BY <1>4, <2>1 DEF Reached, Become, Links, Radios
    <2> QED BY <1>3, <2>1, <2>2 DEF Bare
<1>9. ASSUME NEW r \in Radios, ~touched'[r] PROVE Kept(r)'
    <2>1. Grounded(r) /\ (saved[r] => r \in works) /\ r \in Links
        BY <1>2, <1>3, <1>9 DEF Kept, Links
    <2>2. saved[r] => r \in moved
        <3> SUFFICES ASSUME saved[r] PROVE r \in moved
            OBVIOUS
        <3>1. r \in asked /\ r \in works
            BY <1>2, <2>1
        <3>2. r = "bt" => adapter # "absent"
            BY DEF Bare
        <3>3. r = "bt" => BtCopy # on
            BY <1>1, <2>1 DEF BtCopy, Grounded
        <3>4. r \in set
            BY <1>4, <3>1, <3>2 DEF Reached, Unreached
        <3> QED BY <1>4, <3>3, <3>4 DEF Reached
    <2>3. r \in moved => saved[r]
        BY <1>2, <1>4 DEF Reached
    <2>4. actual'[r] = (IF r \in moved \cap works THEN on ELSE actual[r])
        BY <1>4, <2>1 DEF Reached, Become
    <2>5. actual'[r] = before'[r]
        <3>1. ~actual[r] /\ saved[r] = before[r] /\ actual[r] \in BOOLEAN
              /\ saved[r] \in BOOLEAN
            BY <2>1 DEF Grounded, SwitchTypeOK
        <3> QED BY <1>1, <1>3, <2>1, <2>2, <2>3, <2>4, <3>1
    <2> QED BY <1>3, <2>5 DEF Kept
<1> QED BY <1>6, <1>7, <1>8, <1>9

-----------------------------------------------------------------------------
(* The theorems.                                                           *)

LEMMA StepKeeps == IInv /\ [Next]_vars => IInv'
<1> SUFFICES ASSUME IInv, [Next]_vars PROVE IInv'
    OBVIOUS
<1>1. CASE UNCHANGED switchVars
    BY <1>1 DEF switchVars, IInv, SwitchTypeOK, Told, EthTold, Agree, Bare,
                Kept, Grounded
<1>2. CASE \E r \in Radios : ChangedByOthers(r) \/ DaemonRestarts(r, ~actual[r])
                            \/ PropertiesChanged(r)
    BY <1>2, OthersKeep, RestartKeeps, SignalKeeps
<1>3. CASE \/ EthChanges
           \/ \E works \in BOOLEAN : ToggleEthernet(works) \/ CheckEthernet(works)
    BY <1>3, EthernetKeeps
<1>4. CASE \E works \in BOOLEAN : ToggleWifi(works) \/ ToggleBluetooth(works)
    BY <1>4, ToggleClicks, ClickKeeps
<1>5. CASE \E works \in SUBSET Radios : AirplaneOn(works) \/ AirplaneOff(works)
    BY <1>5, AirplaneOnKeeps, AirplaneOffKeeps
<1>6. CASE OpenDevices \/ DeviceChanged \/ \E works \in BOOLEAN : ToggleInVain(works)
    BY <1>6, PaintKeeps
<1>7. CASE \E on \in BOOLEAN : AdapterAdded(on)
    BY <1>7, AddedKeeps
<1> QED BY <1>1, <1>2, <1>3, <1>4, <1>5, <1>6, <1>7, NextSwitches DEF SwitchStep

(* The inductive invariant holds in every reachable state, from whatever   *)
(* state the links have when the panel starts.                             *)
THEOREM Inductive == Spec => []IInv
<1>1. Init => IInv
    BY InitHolds, StartsAssumption DEF Init
<1> QED BY <1>1, StepKeeps, PTL DEF Spec

(* Button, copy and real state are the same once the signals are handled   *)
(* and the Ethernet timeouts have fired (network_actions.c,                *)
(* bluetooth_manager.c), for any number of clicks and mishaps, with or     *)
(* without an adapter, but for what astray says was not put right.         *)
THEOREM SwitchesRight == Spec => []SwitchesAgree
<1>1. IInv => SwitchesAgree
    BY DEF IInv, SwitchesAgree, Settled, Told, EthTold, Agree, Links, Radios
<1> QED BY <1>1, Inductive, PTL

(* Airplane mode keeps the radios off and gives them back as they were     *)
(* (airplane_mode.c), for any number of clicks and mishaps.                *)
THEOREM AirplaneRight == Spec => []AirplaneHolds
<1>1. IInv => AirplaneHolds
    BY DEF IInv, AirplaneHolds, Kept, Grounded, SwitchTypeOK, Links
<1> QED BY <1>1, Inductive, PTL

-----------------------------------------------------------------------------
(* The Wi-Fi attempts: their inductive invariant.                          *)

Prompt  == (Attempts \cup {NoAttempt}) \X BOOLEAN
Changes == {"active", "failed", "dropped"}

WifiTypeOK ==
    /\ stage \in [Attempts -> {"none", "watching", "prompting", "twice", "over"}]
    /\ secured \in [Attempts -> BOOLEAN]
    /\ conn \in [Attempts -> {"none", "activating"} \cup Changes]
    /\ news \in [Attempts -> Seq(Changes)]
    /\ timer \in [Attempts -> BOOLEAN]
    /\ reports \in [Attempts -> Seq(BOOLEAN)]
    /\ prompts \in Seq(Prompt)

(* A prompt of the callback of a is open.                                  *)
In(p, a) == \E i \in 1 .. Len(p) : p[i][1] = a

(* What is on its way was true, and only a connection that was up says so. *)
NewsRight(n, c) ==
    \A i \in 1 .. Len(n) : IF n[i] = "active" THEN c \in {"active", "dropped"}
                                              ELSE c \in {"failed", "dropped"}

(* An attempt that is watched was not reported; one whose callback asks    *)
(* for the password was reported as a failure; the guard outlives neither. *)
Whole(a) ==
    /\ stage[a] = "none" => reports[a] = << >> /\ news[a] = << >> /\ conn[a] = "none"
    /\ stage[a] = "watching" => reports[a] = << >> /\ NewsRight(news[a], conn[a])
    /\ stage[a] = "prompting" =>
          reports[a] = << FALSE >> /\ secured[a] /\ In(prompts, a)
    /\ timer[a] => stage[a] \in {"watching", "prompting"}

WifiInv == WifiTypeOK /\ \A a \in Attempts : Whole(a)

-----------------------------------------------------------------------------
(* The prompts.                                                            *)

LEMMA PromptAdded ==
    ASSUME NEW p \in Seq(Prompt), NEW x \in Prompt
    PROVE  /\ Append(p, x) \in Seq(Prompt)
           /\ \A a : In(Append(p, x), a) <=> In(p, a) \/ x[1] = a
<1> DEFINE q == Append(p, x)
<1>1. /\ q \in Seq(Prompt) /\ Len(q) = Len(p) + 1 /\ Len(p) \in Nat
      /\ \A i \in 1 .. Len(p) : q[i] = p[i]
      /\ q[Len(p) + 1] = x
    BY AppendProperties, LenProperties
<1> HIDE DEF q
<1>2. ASSUME NEW a PROVE In(q, a) <=> In(p, a) \/ x[1] = a
    <2>1. ASSUME In(q, a) PROVE In(p, a) \/ x[1] = a
        <3>1. PICK i \in 1 .. Len(q) : q[i][1] = a
            BY <2>1 DEF In
        <3>2. i \in 1 .. Len(p) \/ i = Len(p) + 1
            BY <1>1
        <3> QED BY <1>1, <3>1, <3>2 DEF In
    <2>2. ASSUME In(p, a) PROVE In(q, a)
        <3>1. PICK i \in 1 .. Len(p) : p[i][1] = a
            BY <2>2 DEF In
        <3>2. i \in 1 .. Len(q) /\ q[i][1] = a
            BY <1>1, <3>1
        <3> QED BY <3>2 DEF In
    <2>3. ASSUME x[1] = a PROVE In(q, a)
        <3>1. Len(p) + 1 \in 1 .. Len(q) /\ q[Len(p) + 1][1] = a
            BY <1>1, <2>3
        <3> QED BY <3>1 DEF In
    <2> QED BY <2>1, <2>2, <2>3
<1> QED BY <1>1, <1>2 DEF q

LEMMA PromptTaken ==
    ASSUME NEW p \in Seq(Prompt), p # << >>
    PROVE  /\ SubSeq(p, 1, Len(p) - 1) \in Seq(Prompt)
           /\ p[Len(p)] \in Prompt
           /\ \A a : In(p, a) <=> In(SubSeq(p, 1, Len(p) - 1), a) \/ p[Len(p)][1] = a
<1>1. PICK o \in Seq(Prompt), x \in Prompt : p = Append(o, x)
    BY SequenceEmptyOrAppend
<1>2. Len(p) = Len(o) + 1 /\ Len(o) \in Nat /\ p[Len(p)] = x
      /\ \A i \in 1 .. Len(o) : p[i] = o[i]
    BY <1>1, AppendProperties, LenProperties
<1>3. SubSeq(p, 1, Len(p) - 1) = o
    <2>1. Len(p) - 1 = Len(o)
        BY <1>2
    <2>2. SubSeq(p, 1, Len(o)) = SubSeq(o, 1, Len(o))
        BY <1>2
    <2> QED BY <2>1, <2>2, SubSeqFull
<1>4. \A a : In(p, a) <=> In(o, a) \/ x[1] = a
    BY <1>1, PromptAdded
<1> QED BY <1>1, <1>2, <1>3, <1>4

(* The innermost prompt is answered: its caller goes on below it.          *)
LEMMA PromptAnswered ==
    ASSUME WifiTypeOK, prompts # << >>
    PROVE  /\ Append(Outer, << Inner[1], FALSE >>) \in Seq(Prompt)
           /\ \A a : In(prompts, a)
                        => In(Append(Outer, << Inner[1], FALSE >>), a)
<1>1. /\ Outer \in Seq(Prompt) /\ Inner \in Prompt
      /\ \A a : In(prompts, a) <=> In(Outer, a) \/ Inner[1] = a
    BY PromptTaken DEF WifiTypeOK, Outer, Inner
<1>2. PICK x \in Prompt : x = << Inner[1], FALSE >>
    BY <1>1 DEF Prompt
<1>3. x[1] = Inner[1]
    BY <1>2
<1>4. /\ Append(Outer, x) \in Seq(Prompt)
      /\ \A a : In(Append(Outer, x), a) <=> In(Outer, a) \/ x[1] = a
    BY <1>1, PromptAdded
<1>5. \A a : In(prompts, a) => In(Append(Outer, x), a)
    BY <1>1, <1>3, <1>4
<1> QED BY <1>2, <1>4, <1>5

-----------------------------------------------------------------------------
(* A report: what it leaves of its own attempt and of the others.          *)

LEMMA ReportGives ==
    ASSUME WifiTypeOK, NEW a \in Attempts, NEW ok \in BOOLEAN, NEW sec \in BOOLEAN,
           NEW below \in Seq(Prompt), Report(a, ok, sec, below)
    PROVE  /\ prompts' \in Seq(Prompt)
           /\ \A b : In(below, b) => In(prompts', b)
           /\ ~ok /\ sec => In(prompts', a)
           /\ reports' = [reports EXCEPT ![a] = Append(reports[a], ok)]
           /\ \E s \in {"over", "prompting", "twice"} :
                 /\ stage' = [stage EXCEPT ![a] = s]
                 /\ s = "over" <=> ok \/ ~sec
                 /\ s = "prompting" => stage[a] # "prompting"
                 /\ s = "twice" => stage[a] = "prompting"
<1> DEFINE asks == ~ok /\ sec
<1>1. /\ reports' = [reports EXCEPT ![a] = Append(reports[a], ok)]
      /\ prompts' = IF asks THEN Append(below, << a, TRUE >>) ELSE below
      /\ stage' = [stage EXCEPT ![a] =
                      IF ~asks THEN "over"
                      ELSE IF stage[a] = "prompting" THEN "twice" ELSE "prompting"]
    BY DEF Report
<1>2. CASE ~asks
    <2>1. prompts' = below /\ stage' = [stage EXCEPT ![a] = "over"]
        BY <1>1, <1>2
    <2> QED BY <1>1, <1>2, <2>1
<1>3. CASE asks
    <2>1. PICK x \in Prompt : x = << a, TRUE >>
        BY DEF Prompt
    <2>2. prompts' = Append(below, x) /\ x[1] = a
        BY <1>1, <1>3, <2>1
    <2>3. /\ prompts' \in Seq(Prompt)
          /\ \A b : In(prompts', b) <=> In(below, b) \/ x[1] = b
        BY <2>2, PromptAdded
    <2>4. CASE stage[a] = "prompting"
        <3>1. stage' = [stage EXCEPT ![a] = "twice"]
            BY <1>1, <1>3, <2>4
        <3> QED BY <1>1, <1>3, <2>2, <2>3, <2>4, <3>1
    <2>5. CASE stage[a] # "prompting"
        <3>1. stage' = [stage EXCEPT ![a] = "prompting"]
            BY <1>1, <1>3, <2>5
        <3> QED BY <1>1, <1>3, <2>2, <2>3, <2>5, <3>1
    <2> QED BY <2>4, <2>5
<1> QED BY <1>2, <1>3

(* An attempt that a step leaves alone stays as it should be.              *)
LEMMA OthersWhole ==
    ASSUME NEW b, Whole(b), In(prompts, b) => In(prompts', b),
           stage'[b] = stage[b], reports'[b] = reports[b], secured'[b] = secured[b],
           conn'[b] = conn[b], news'[b] = news[b], timer'[b] => timer[b]
    PROVE  Whole(b)'
BY DEF Whole

(* The ways in which a report changes an attempt.                          *)
LEMMA ReportedWhole ==
    ASSUME WifiInv, NEW a \in Attempts, NEW ok \in BOOLEAN, NEW below \in Seq(Prompt),
           Report(a, ok, secured'[a], below),
           secured' \in [Attempts -> BOOLEAN],
           \A b \in Attempts : b # a => secured'[b] = secured[b],
           \A b : In(prompts, b) => In(below, b),
           conn' = conn, news' \in [Attempts -> Seq(Changes)],
           \A b \in Attempts : b # a => news'[b] = news[b],
           timer' \in [Attempts -> BOOLEAN],
           \A b \in Attempts : b # a => timer'[b] = timer[b],
           timer'[a] => ~ok /\ secured'[a] /\ stage[a] # "prompting",
           reports[a] = << >> \/ stage[a] = "prompting"
    PROVE  WifiInv'
<1>1. /\ prompts' \in Seq(Prompt)
      /\ \A b : In(below, b) => In(prompts', b)
      /\ ~ok /\ secured'[a] => In(prompts', a)
      /\ reports' = [reports EXCEPT ![a] = Append(reports[a], ok)]
    BY ReportGives DEF WifiInv
<1>2. PICK s \in {"over", "prompting", "twice"} :
         /\ stage' = [stage EXCEPT ![a] = s]
         /\ s = "over" <=> ok \/ ~secured'[a]
         /\ s = "prompting" => stage[a] # "prompting"
         /\ s = "twice" => stage[a] = "prompting"
    BY ReportGives DEF WifiInv
<1>3. /\ stage \in [Attempts -> {"none", "watching", "prompting", "twice", "over"}]
      /\ reports \in [Attempts -> Seq(BOOLEAN)] /\ reports[a] \in Seq(BOOLEAN)
      /\ conn \in [Attempts -> {"none", "activating"} \cup Changes]
    BY DEF WifiInv, WifiTypeOK
<1>4. WifiTypeOK'
    <2>1. Append(reports[a], ok) \in Seq(BOOLEAN)
        BY <1>3, AppendProperties
    <2>2. reports' \in [Attempts -> Seq(BOOLEAN)]
        BY <1>1, <1>3, <2>1
    <2>3. stage' \in [Attempts -> {"none", "watching", "prompting", "twice", "over"}]
        BY <1>2, <1>3
    <2> QED BY <1>1, <1>3, <2>2, <2>3 DEF WifiTypeOK
<1>5. ASSUME NEW b \in Attempts, b # a PROVE Whole(b)'
    <2>1. stage'[b] = stage[b] /\ reports'[b] = reports[b]
        BY <1>1, <1>2, <1>3, <1>5
    <2>2. Whole(b) /\ (In(prompts, b) => In(prompts', b))
        BY <1>1 DEF WifiInv
    <2> QED BY <1>5, <2>1, <2>2, OthersWhole
<1>6. Whole(a)'
    <2>1. stage'[a] = s /\ reports'[a] = Append(reports[a], ok)
        BY <1>1, <1>2, <1>3
    <2>2. ASSUME s = "prompting"
          PROVE  reports'[a] = << FALSE >> /\ secured'[a] /\ In(prompts', a)
        <3>1. reports[a] = << >> /\ ~ok /\ secured'[a]
            BY <1>2, <2>2
        <3>2. ok = FALSE
            BY <3>1
        <3>3. reports'[a] = Append(<< >>, FALSE)
            BY <2>1, <3>1, <3>2
        <3>4. Append(<< >>, FALSE) = << FALSE >>
            OBVIOUS
        <3> QED BY <1>1, <3>1, <3>3, <3>4
    <2>3. timer'[a] => s = "prompting"
        BY <1>2
    <2> QED BY <2>1, <2>2, <2>3 DEF Whole
<1> QED BY <1>4, <1>5, <1>6 DEF WifiInv

-----------------------------------------------------------------------------
(* The steps.                                                              *)

(* What a step of the radios can be for the attempts.                      *)
LEMMA NextWifi ==
    ASSUME [Next]_vars
    PROVE  \/ UNCHANGED wifiPart
           \/ ClickUnknown
           \/ \E isSecured \in BOOLEAN : ClickKnown(isSecured)
           \/ \E accept \in BOOLEAN : AnswerPrompt(accept)
           \/ PromptReturns
           \/ \E a \in Attempts, state \in Changes : ConnectionChanges(a, state)
           \/ \E a \in Attempts : OnActiveConnChanged(a) \/ OnConnectTimeout(a)
<1>1. CASE ClickSwitch \/ ClickDevice \/ OfDevice \/ EthTimer \/ BtMessage
           \/ (\E r \in Radios : SignalOf(r)) \/ (\E c \in Contexts : OpGuard(c))
    BY <1>1 DEF ClickSwitch, ClickDevice, OfDevice, EthTimer, BtMessage, SignalOf,
                OpGuard, SwitchesOnly, BtOnly
<1>2. CASE ClickNetwork \/ (\E accept \in BOOLEAN : Answer(accept)) \/ Returns
           \/ (\E a \in Attempts : StateOf(a) \/ Guard(a))
    BY <1>2 DEF ClickNetwork, Answer, Returns, StateOf, Guard
<1>3. CASE World
    BY <1>3 DEF World, SwitchesOnly, BtOnly, Changes
<1>4. CASE UNCHANGED vars
    BY <1>4 DEF vars
<1> QED BY <1>1, <1>2, <1>3, <1>4 DEF Next

LEMMA InitWhole == WifiInit => WifiInv
<1> SUFFICES ASSUME WifiInit PROVE WifiInv
    OBVIOUS
<1>1. << >> \in Seq(Changes) /\ << >> \in Seq(BOOLEAN) /\ << >> \in Seq(Prompt)
    BY EmptySeq
<1>2. WifiTypeOK
    BY <1>1 DEF WifiInit, WifiTypeOK
<1>3. \A a \in Attempts : Whole(a)
    BY DEF WifiInit, Whole
<1> QED BY <1>2, <1>3 DEF WifiInv

(* network_wifi_connect, called from the list or with a password.          *)
LEMMA ConnectWhole ==
    ASSUME WifiInv, NEW sec \in BOOLEAN, NEW below \in Seq(Prompt),
           \A b : In(prompts, b) => In(below, b),
           NetworkWifiConnect(sec, below)
    PROVE  /\ WifiInv'
           /\ \A a \in Attempts : reports'[a] # reports[a] => ReportIsRight(a)
<1>1. PICK a \in Attempts :
         /\ Fresh(a)
         /\ secured' = [secured EXCEPT ![a] = sec]
         /\ Refused(a, sec, below) \/ Watched(a, below)
         /\ UNCHANGED << news, broken >>
    BY DEF NetworkWifiConnect
<1>2. /\ stage[a] = "none" /\ reports[a] = << >> /\ news[a] = << >>
      /\ conn[a] = "none" /\ ~timer[a]
    BY <1>1 DEF Fresh, WifiInv, Whole
<1>3. /\ secured' \in [Attempts -> BOOLEAN] /\ secured'[a] = sec
      /\ \A b \in Attempts : b # a => secured'[b] = secured[b]
      /\ news' = news /\ news \in [Attempts -> Seq(Changes)]
      /\ timer \in [Attempts -> BOOLEAN]
      /\ reports \in [Attempts -> Seq(BOOLEAN)] /\ reports[a] \in Seq(BOOLEAN)
      /\ conn \in [Attempts -> {"none", "activating"} \cup Changes]
      /\ stage \in [Attempts -> {"none", "watching", "prompting", "twice", "over"}]
    BY <1>1 DEF WifiInv, WifiTypeOK
<1>4. CASE Refused(a, sec, below)
    <2>1. PICK ok \in BOOLEAN : ok = FALSE
        OBVIOUS
    <2>2. Report(a, ok, secured'[a], below) /\ conn' = conn /\ timer' = timer
        BY <1>3, <1>4, <2>1 DEF Refused
    <2>3. WifiInv'
        BY <1>2, <1>3, <2>1, <2>2, ReportedWhole
    <2>4. reports' = [reports EXCEPT ![a] = Append(reports[a], FALSE)]
        BY <2>1, <2>2 DEF Report
    <2>5. ReportIsRight(a)
        <3>1. reports'[a] = Append(<< >>, FALSE)
            BY <1>2, <1>3, <2>4
        <3>2. Append(<< >>, FALSE) = << FALSE >> /\ Len(<< FALSE >>) = 1
              /\ << FALSE >>[1] = FALSE
            OBVIOUS
        <3>3. reports'[a][Len(reports'[a])] = FALSE
            BY <3>1, <3>2
        <3>4. conn'[a] # "active"
            BY <1>2, <2>2
        <3> QED BY <1>2, <3>3, <3>4 DEF ReportIsRight
    <2>6. \A b \in Attempts : b # a => reports'[b] = reports[b]
        BY <1>3, <2>4
    <2> QED BY <2>3, <2>5, <2>6
<1>5. CASE Watched(a, below)
    <2>1. PICK state \in {"activating", "active", "failed"} :
             conn' = [conn EXCEPT ![a] = state]
        BY <1>5 DEF Watched
    <2>2. /\ stage' = [stage EXCEPT ![a] = "watching"]
          /\ timer' = [timer EXCEPT ![a] = TRUE]
          /\ prompts' = below /\ reports' = reports
        BY <1>5 DEF Watched
    <2>3. WifiTypeOK'
        BY <1>3, <2>1, <2>2 DEF WifiTypeOK, Changes
    <2>4. ASSUME NEW b \in Attempts, b # a PROVE Whole(b)'
        BY <1>3, <2>1, <2>2, <2>4, OthersWhole DEF WifiInv
    <2>5. Whole(a)'
        <3>1. stage'[a] = "watching" /\ reports'[a] = << >> /\ news'[a] = << >>
            BY <1>2, <1>3, <2>2
        <3>2. NewsRight(news'[a], conn'[a])
            BY <3>1, EmptySeq DEF NewsRight
        <3> QED BY <3>1, <3>2 DEF Whole
    <2> QED BY <2>2, <2>3, <2>4, <2>5 DEF WifiInv
<1> QED BY <1>1, <1>4, <1>5

Reported == \A a \in Attempts : reports'[a] # reports[a] => ReportIsRight(a)

(* The user's steps.                                                       *)
LEMMA ClicksWhole ==
    ASSUME WifiInv,
           \/ ClickUnknown
           \/ \E isSecured \in BOOLEAN : ClickKnown(isSecured)
           \/ \E accept \in BOOLEAN : AnswerPrompt(accept)
    PROVE  WifiInv' /\ Reported
<1>1. CASE ClickUnknown
    <2>1. /\ prompts = << >> /\ prompts' = << << NoAttempt, TRUE >> >>
          /\ UNCHANGED << stage, secured, conn, news, timer, reports >>
        BY <1>1 DEF ClickUnknown
    <2>2. << NoAttempt, TRUE >> \in Prompt
        BY DEF Prompt
    <2>3. WifiTypeOK'
        BY <2>1, <2>2 DEF WifiInv, WifiTypeOK
    <2>4. \A b : ~In(prompts, b)
        BY <2>1, EmptySeq DEF In
    <2>5. ASSUME NEW b \in Attempts PROVE Whole(b)'
        BY <2>1, <2>4, OthersWhole DEF WifiInv
    <2> QED BY <2>1, <2>3, <2>5 DEF WifiInv, Reported
<1>2. ASSUME NEW sec \in BOOLEAN, ClickKnown(sec) PROVE WifiInv' /\ Reported
    <2>1. prompts = << >> /\ NetworkWifiConnect(sec, << >>)
        BY <1>2 DEF ClickKnown
    <2>2. << >> \in Seq(Prompt) /\ \A b : In(prompts, b) => In(<< >>, b)
        BY <2>1, EmptySeq
    <2> QED BY <2>1, <2>2, ConnectWhole DEF Reported
<1>3. ASSUME NEW accept \in BOOLEAN, AnswerPrompt(accept)
      PROVE  WifiInv' /\ Reported
    <2> DEFINE below == Append(Outer, << Inner[1], FALSE >>)
    <2>1. below \in Seq(Prompt) /\ \A b : In(prompts, b) => In(below, b)
        BY <1>3, PromptAnswered DEF AnswerPrompt, WifiInv
    <2>2. CASE accept
        <3>1. NetworkWifiConnect(TRUE, below)
            BY <1>3, <2>2 DEF AnswerPrompt
        <3>2. PICK sec \in BOOLEAN : sec = TRUE
            OBVIOUS
        <3> HIDE DEF below
        <3>3. NetworkWifiConnect(sec, below)
            BY <3>1, <3>2
        <3> QED BY <2>1, <3>3, ConnectWhole DEF Reported
    <2>3. CASE ~accept
        <3>1. /\ prompts' = below
              /\ UNCHANGED << stage, secured, conn, news, timer, reports >>
            BY <1>3, <2>3 DEF AnswerPrompt
        <3> HIDE DEF below
        <3>2. WifiTypeOK'
            BY <2>1, <3>1 DEF WifiInv, WifiTypeOK
        <3>3. ASSUME NEW b \in Attempts PROVE Whole(b)'
            BY <2>1, <3>1, OthersWhole DEF WifiInv
        <3> QED BY <3>1, <3>2, <3>3 DEF WifiInv, Reported
    <2> QED BY <2>2, <2>3
<1> QED BY <1>1, <1>2, <1>3

LEMMA ReturnsWhole == WifiInv /\ PromptReturns => WifiInv' /\ Reported
<1> SUFFICES ASSUME WifiInv, PromptReturns PROVE WifiInv' /\ Reported
    OBVIOUS
<1> DEFINE of == {Inner[1]} \ {NoAttempt}
<1>1. /\ prompts # << >> /\ prompts' = Outer
      /\ stage' = [a \in Attempts |-> IF a \in of THEN "over" ELSE stage[a]]
      /\ timer' = [a \in Attempts |-> timer[a] /\ ~(a \in of)]
      /\ UNCHANGED << secured, conn, news, reports >>
    BY DEF PromptReturns
<1>2. /\ Outer \in Seq(Prompt)
      /\ \A a : In(prompts, a) <=> In(Outer, a) \/ Inner[1] = a
    BY <1>1, PromptTaken DEF WifiInv, WifiTypeOK, Outer, Inner
<1>3. WifiTypeOK'
    BY <1>1, <1>2 DEF WifiInv, WifiTypeOK
<1>4. ASSUME NEW b \in Attempts PROVE Whole(b)'
    <2>1. b # NoAttempt
        BY AttemptsAssumption
    <2>2. CASE b = Inner[1]
        <3>1. stage'[b] = "over" /\ ~timer'[b]
            BY <1>1, <2>1, <2>2
        <3> QED BY <3>1 DEF Whole
    <2>3. CASE b # Inner[1]
        <3>1. stage'[b] = stage[b] /\ (timer'[b] => timer[b])
            BY <1>1, <2>3
        <3>2. In(prompts, b) => In(prompts', b)
            BY <1>1, <1>2, <2>3
        <3> QED BY <1>1, <3>1, <3>2, OthersWhole DEF WifiInv
    <2> QED BY <2>2, <2>3
<1> QED BY <1>1, <1>3, <1>4 DEF WifiInv, Reported

(* NetworkManager's steps add to the news what is true.                    *)
LEMMA ChangeWhole ==
    ASSUME WifiInv, NEW a \in Attempts, NEW state \in Changes,
           ConnectionChanges(a, state)
    PROVE  WifiInv' /\ Reported
<1>1. /\ stage[a] = "watching"
      /\ \/ conn[a] = "activating" /\ state \in {"active", "failed"}
         \/ conn[a] = "active" /\ state = "dropped"
      /\ conn' = [conn EXCEPT ![a] = state]
      /\ news' = [news EXCEPT ![a] = Append(news[a], state)]
      /\ UNCHANGED << stage, secured, timer, reports, prompts >>
    BY DEF ConnectionChanges
<1>2. /\ news \in [Attempts -> Seq(Changes)] /\ news[a] \in Seq(Changes)
      /\ conn \in [Attempts -> {"none", "activating"} \cup Changes]
    BY DEF WifiInv, WifiTypeOK
<1> DEFINE n == Append(news[a], state)
<1>3. /\ n \in Seq(Changes) /\ Len(n) = Len(news[a]) + 1 /\ Len(news[a]) \in Nat
      /\ \A i \in 1 .. Len(news[a]) : n[i] = news[a][i]
      /\ n[Len(news[a]) + 1] = state
    BY <1>2, AppendProperties, LenProperties
<1>4. news'[a] = n /\ conn'[a] = state
    BY <1>1, <1>2
<1>5. WifiTypeOK'
    BY <1>1, <1>2, <1>3 DEF WifiInv, WifiTypeOK
<1> HIDE DEF n
<1>6. NewsRight(n, state)
    <2>1. NewsRight(news[a], conn[a])
        BY <1>1 DEF WifiInv, Whole
    <2> SUFFICES ASSUME NEW i \in 1 .. Len(n)
                 PROVE  IF n[i] = "active" THEN state \in {"active", "dropped"}
                                           ELSE state \in {"failed", "dropped"}
        BY DEF NewsRight
    <2>2. CASE i = Len(news[a]) + 1
        BY <1>3, <2>2 DEF Changes
    <2>3. CASE i \in 1 .. Len(news[a])
        <3>1. IF n[i] = "active" THEN conn[a] \in {"active", "dropped"}
                                 ELSE conn[a] \in {"failed", "dropped"}
            BY <1>3, <2>1, <2>3 DEF NewsRight
        <3> QED BY <1>1, <3>1
    <2> QED BY <1>3, <2>2, <2>3
<1>7. Whole(a)'
    BY <1>1, <1>4, <1>6 DEF WifiInv, Whole
<1>8. ASSUME NEW b \in Attempts, b # a PROVE Whole(b)'
    BY <1>1, <1>2, <1>8, OthersWhole DEF WifiInv
<1> QED BY <1>1, <1>5, <1>7, <1>8 DEF WifiInv, Reported

(* The last report of an attempt.                                          *)
LEMMA LastReport ==
    ASSUME WifiInv, NEW a \in Attempts, NEW ok \in BOOLEAN,
           reports' = [reports EXCEPT ![a] = Append(reports[a], ok)]
    PROVE  /\ reports'[a][Len(reports'[a])] = ok
           /\ \A b \in Attempts : b # a => reports'[b] = reports[b]
<1>1. reports \in [Attempts -> Seq(BOOLEAN)] /\ reports[a] \in Seq(BOOLEAN)
    BY DEF WifiInv, WifiTypeOK
<1>2. reports'[a] = Append(reports[a], ok)
    BY <1>1
<1>3. /\ Len(Append(reports[a], ok)) = Len(reports[a]) + 1
      /\ Append(reports[a], ok)[Len(reports[a]) + 1] = ok
    BY <1>1, AppendProperties
<1> QED BY <1>1, <1>2, <1>3

LEMMA SignalWhole ==
    ASSUME WifiInv, NEW a \in Attempts, OnActiveConnChanged(a)
    PROVE  WifiInv' /\ Reported
<1>1. PICK ok \in BOOLEAN : ok = (Head(news[a]) = "active")
    OBVIOUS
<1>2. /\ stage[a] = "watching" /\ news[a] # << >>
      /\ Report(a, ok, secured[a], prompts)
      /\ news' = [news EXCEPT ![a] = << >>]
      /\ timer' = [timer EXCEPT ![a] = ~ok /\ secured[a]]
      /\ secured' = secured /\ conn' = conn
    BY <1>1 DEF OnActiveConnChanged
<1>3. /\ news \in [Attempts -> Seq(Changes)] /\ news[a] \in Seq(Changes)
      /\ timer \in [Attempts -> BOOLEAN] /\ secured \in [Attempts -> BOOLEAN]
      /\ prompts \in Seq(Prompt)
      /\ reports[a] = << >> /\ NewsRight(news[a], conn[a])
    BY <1>2 DEF WifiInv, WifiTypeOK, Whole
<1>4. WifiInv'
    <2>1. /\ Report(a, ok, secured'[a], prompts)
          /\ secured' \in [Attempts -> BOOLEAN]
          /\ news' \in [Attempts -> Seq(Changes)]
          /\ timer' \in [Attempts -> BOOLEAN]
          /\ timer'[a] => ~ok /\ secured'[a] /\ stage[a] # "prompting"
          /\ \A b \in Attempts : b # a => /\ secured'[b] = secured[b]
                                          /\ news'[b] = news[b]
                                          /\ timer'[b] = timer[b]
        BY <1>2, <1>3, EmptySeq
    <2> QED BY <1>2, <1>3, <2>1, ReportedWhole
<1>5. reports' = [reports EXCEPT ![a] = Append(reports[a], ok)]
    BY <1>2 DEF Report
<1>6. IF ok THEN conn[a] \in {"active", "dropped"} ELSE conn'[a] # "active"
    <2>1. Len(news[a]) \in Nat /\ Len(news[a]) > 0 /\ Head(news[a]) = news[a][1]
        BY <1>2, <1>3, EmptySeq
    <2>2. 1 \in 1 .. Len(news[a])
        BY <2>1
    <2>3. IF Head(news[a]) = "active" THEN conn[a] \in {"active", "dropped"}
                                      ELSE conn[a] \in {"failed", "dropped"}
        BY <1>3, <2>1, <2>2 DEF NewsRight
    <2> QED BY <1>1, <1>2, <2>3
<1>7. ReportIsRight(a)
    BY <1>3, <1>5, <1>6, LastReport DEF ReportIsRight
<1> QED BY <1>4, <1>5, <1>7, LastReport DEF Reported

LEMMA GuardWhole ==
    ASSUME WifiInv, NEW a \in Attempts, OnConnectTimeout(a)
    PROVE  WifiInv' /\ Reported
<1>1. PICK ok \in BOOLEAN : ok = FALSE
    OBVIOUS
<1>2. /\ timer[a] /\ Report(a, ok, secured[a], prompts)
      /\ news' = [news EXCEPT ![a] = << >>]
      /\ timer' = [timer EXCEPT ![a] = FALSE]
      /\ secured' = secured /\ conn' = conn
    BY <1>1 DEF OnConnectTimeout
<1>3. /\ news \in [Attempts -> Seq(Changes)] /\ timer \in [Attempts -> BOOLEAN]
      /\ secured \in [Attempts -> BOOLEAN] /\ prompts \in Seq(Prompt)
    BY DEF WifiInv, WifiTypeOK
<1>4. \/ stage[a] = "watching" /\ reports[a] = << >>
      \/ /\ stage[a] = "prompting" /\ reports[a] = << FALSE >>
         /\ secured[a] /\ In(prompts, a)
    BY <1>2 DEF WifiInv, Whole
<1>5. WifiInv'
    <2>1. /\ Report(a, ok, secured'[a], prompts)
          /\ secured' \in [Attempts -> BOOLEAN]
          /\ news' \in [Attempts -> Seq(Changes)]
          /\ timer' \in [Attempts -> BOOLEAN] /\ ~timer'[a]
          /\ \A b \in Attempts : b # a => /\ secured'[b] = secured[b]
                                          /\ news'[b] = news[b]
                                          /\ timer'[b] = timer[b]
        BY <1>2, <1>3, EmptySeq
    <2> QED BY <1>2, <1>3, <1>4, <2>1, ReportedWhole
<1>6. reports' = [reports EXCEPT ![a] = Append(reports[a], ok)]
    BY <1>2 DEF Report
<1>7. reports'[a][Len(reports'[a])] = FALSE
    BY <1>1, <1>6, LastReport
<1>8. ReportIsRight(a)
    <2>1. CASE reports[a] = << >>
        BY <1>7, <2>1 DEF ReportIsRight
    <2>2. CASE reports[a] # << >>
        <3>1. /\ reports[a] = << FALSE >> /\ secured[a] /\ In(prompts, a)
            BY <1>4, <2>2
        <3>2. Len(<< FALSE >>) = 1 /\ << FALSE >>[1] = FALSE
            OBVIOUS
        <3>3. Len(reports[a]) = 1 /\ ~reports[a][1]
            BY <3>1, <3>2
        <3> QED BY <1>7, <3>1, <3>3 DEF ReportIsRight, In
    <2> QED BY <2>1, <2>2
<1> QED BY <1>5, <1>6, <1>8, LastReport DEF Reported

LEMMA StepWhole == WifiInv /\ [Next]_vars => WifiInv' /\ Reported
<1> SUFFICES ASSUME WifiInv, [Next]_vars PROVE WifiInv' /\ Reported
    OBVIOUS
<1>1. CASE UNCHANGED wifiPart
    <2>1. UNCHANGED << stage, secured, conn, news, timer, reports, prompts >>
        BY <1>1 DEF wifiPart
    <2>2. WifiTypeOK'
        BY <2>1 DEF WifiInv, WifiTypeOK
    <2>3. ASSUME NEW b \in Attempts PROVE Whole(b)'
        BY <2>1, OthersWhole DEF WifiInv
    <2> QED BY <2>1, <2>2, <2>3 DEF WifiInv, Reported
<1>2. CASE PromptReturns
    BY <1>2, ReturnsWhole
<1> QED BY <1>1, <1>2, NextWifi, ClicksWhole, ChangeWhole, SignalWhole, GuardWhole

(* Every attempt to connect is reported as it went, and once, except that  *)
(* the guard may fire while the user answers the prompt of a failure       *)
(* (network_actions.c), for any number of attempts, prompts inside prompts *)
(* and changes of the connection.                                          *)
THEOREM ReportsRight == Spec => AttemptsAreReported
<1>1. Init => WifiInv
    BY InitWhole DEF Init
<1>2. WifiInv /\ [Next]_vars => WifiInv'
    BY StepWhole
<1>3. WifiInv /\ [Next]_vars
        => [\A a \in Attempts : reports'[a] # reports[a] => ReportIsRight(a)]_wifiVars
    BY StepWhole DEF Reported
<1> QED BY <1>1, <1>2, <1>3, PTL DEF Spec, AttemptsAreReported
=============================================================================
