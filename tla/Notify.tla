------------------------------- MODULE Notify -------------------------------
(***************************************************************************)
(* osd-notify's notification server (osd-notify/src/notify.c) and a client *)
(* of its history, the panel or the locker (vaxp_notifications.c).         *)
(*                                                                         *)
(* The server is one GLib main loop: every method call, timeout and        *)
(* pointer event is one step.  The client is another process: it hears of  *)
(* changes through signals, which wait in its main loop, and fetches the   *)
(* history with a call that blocks it until the answer is there.  The      *)
(* server keeps nothing when it dies, and its client does not watch it.    *)
(***************************************************************************)
EXTENDS Naturals, Sequences

CONSTANTS
    MaxId,       \* model bound: notifications that get an id
    MaxHistory,  \* MAX_HISTORY (50 in the code)
    Contents,    \* what a notification says
    Budgets      \* model bounds, one of which a behaviour keeps to: how many
                 \* replacements, changes of do_not_disturb, calls of
                 \* ClearHistory and ends of the server

ASSUME BoundAssumption ==
    /\ MaxId \in Nat
    /\ Budgets \subseteq [{"replace", "dnd", "clear", "end"} -> Nat]
ASSUME HistoryAssumption == MaxHistory \in Nat \ {0}

VARIABLES
    up,          \* the server runs
    active,      \* active_notifications: the ids of the popups (what they
                 \* say and where they stand is left out)
    armed,       \* the popups whose timeout_source is set
    history,     \* history_list, newest first: records id, content
    idCounter,   \* id_counter
    doNotDisturb,\* do_not_disturb
    pointer,     \* the id of the notification under the pointer, or 0
    told,        \* NotificationClosed signals sent, per id
    toClient,    \* signals in the client's main loop
    phase,       \* the client: "connecting", "dnd", "history", "ready"
    seenHistory, \* what history_cb was told last
    seenDnd,     \* what dnd_cb was told last
    unsaid,      \* history: what the client saw of an earlier server and the
                 \* present one has not said anything about
    left         \* what remains of the budget

popupVars  == << active, armed, pointer, told >>
clientVars == << phase, seenHistory, seenDnd >>
vars == << up, popupVars, history, idCounter, doNotDisturb, toClient, unsaid,
           clientVars, left >>

Ids    == 1 .. MaxId
NoId   == 0
Spend(what) == left[what] > 0 /\ left' = [left EXCEPT ![what] = @ - 1]

IdsOf(list) == {list[k].id : k \in DOMAIN list}

Init ==
    /\ up \in BOOLEAN /\ unsaid = {}
    /\ active = {} /\ armed = {} /\ history = << >>
    /\ idCounter = 1 /\ doNotDisturb = FALSE
    /\ pointer = NoId
    /\ told = [i \in Ids |-> 0]
    /\ toClient = << >>
    /\ phase = "connecting" /\ seenHistory = << >> /\ seenDnd = FALSE
    /\ left \in Budgets

-----------------------------------------------------------------------------
(* Signals.  The client's proxy hears them from when it exists.            *)

Emit(about, signals) ==
    /\ toClient' =
          IF phase = "connecting" THEN toClient ELSE toClient \o signals
    /\ unsaid' = unsaid \ {about}
    /\ UNCHANGED up

HistoryUpdated == << "history" >>
DndChanged(b)  == IF b THEN << "dnd on" >> ELSE << "dnd off" >>

-----------------------------------------------------------------------------
(* Helpers on the history.                                                 *)

AddToHistory(item) ==
    IF Len(history) + 1 > MaxHistory
    THEN << item >> \o SubSeq(history, 1, Len(history) - 1)
    ELSE << item >> \o history

SetContent(i, content) ==
    [k \in DOMAIN history |->
        IF history[k].id = i THEN [id |-> i, content |-> content]
                             ELSE history[k]]

-----------------------------------------------------------------------------
(* Notify: create_new_notification, then HistoryUpdated once more.         *)

Twice == HistoryUpdated \o HistoryUpdated

(* Do not disturb: an item of the history is rewritten.  A popup with this *)
(* id that is still on the screen is left as it is.                        *)
NotifySilentReplace(replaces, content) ==
    /\ doNotDisturb /\ replaces \in IdsOf(history)
    /\ Spend("replace")
    /\ history' = SetContent(replaces, content)
    /\ Emit("history", Twice)
    /\ UNCHANGED << popupVars, idCounter, doNotDisturb, clientVars >>

(* Do not disturb: a new item, to the history only.                        *)
NotifySilent(replaces, content) ==
    /\ doNotDisturb /\ replaces \notin IdsOf(history)
    /\ idCounter <= MaxId
    /\ idCounter' = idCounter + 1
    /\ history' = AddToHistory([id |-> idCounter, content |-> content])
    /\ Emit("history", Twice)
    /\ UNCHANGED << popupVars, doNotDisturb, clientVars, left >>

(* Mutant: the old timeout is removed and no new one is started.           *)
NotifyReplaceDisarms(replaces, content) ==
    /\ ~doNotDisturb /\ replaces \in active
    /\ Spend("replace")
    /\ history' = SetContent(replaces, content)
    /\ armed' = armed \ {replaces}
    /\ Emit("history", Twice)
    /\ UNCHANGED << active, pointer, told, idCounter, doNotDisturb,
                    clientVars >>

(* A popup is rewritten, with its history item if that is still there; its *)
(* timeout starts anew, whatever the pointer does.                         *)
NotifyReplace(replaces, content) ==
    /\ ~doNotDisturb /\ replaces \in active
    /\ Spend("replace")
    /\ history' = SetContent(replaces, content)
    /\ armed' = armed \cup {replaces}
    /\ Emit("history", Twice)
    /\ UNCHANGED << active, pointer, told, idCounter, doNotDisturb,
                    clientVars >>

NotifyShow(replaces, content) ==
    /\ ~doNotDisturb /\ replaces \notin active
    /\ idCounter <= MaxId
    /\ idCounter' = idCounter + 1
    /\ active' = active \cup {idCounter}
    /\ armed' = armed \cup {idCounter}
    /\ history' = AddToHistory([id |-> idCounter, content |-> content])
    /\ Emit("history", Twice)
    /\ UNCHANGED << doNotDisturb, pointer, told, clientVars, left >>

(* replaces_id is 0 or any id that the server has given out; one of an     *)
(* earlier server may by now name another notification.                    *)
NotifyCall ==
    up /\ \E replaces \in 0 .. idCounter - 1, content \in Contents :
        \/ NotifySilentReplace(replaces, content)
        \/ NotifySilent(replaces, content)
        \/ NotifyReplace(replaces, content)
        \/ NotifyShow(replaces, content)

-----------------------------------------------------------------------------
(* close_notification: timeouts, clicks and calls all end here.            *)

Close(i) ==
    /\ active' = active \ {i} /\ armed' = armed \ {i}
    /\ pointer' = IF pointer = i THEN NoId ELSE pointer
    /\ told' = [told EXCEPT ![i] = @ + 1]
    /\ UNCHANGED << up, history, idCounter, doNotDisturb, toClient, unsaid,
                    clientVars, left >>

(* on_timeout.                                                             *)
Expire(i) == i \in active /\ i \in armed /\ Close(i)

(* on_ui_action: a click on the popup under the pointer, or the client's   *)
(* InvokeDefaultAction with an id of the history it shows.                 *)
Click(i)  == pointer = i /\ i \in active /\ Close(i)
Invoke(i) == i \in IdsOf(seenHistory) /\ i \in active /\ Close(i)

(* Mutant: a notification that is gone is announced closed again.          *)
CloseCallAlways(i) ==
    /\ i < idCounter
    /\ Close(i)

(* CloseNotification; nothing happens when the id is not on the screen.    *)
CloseCall(i) == i \in active /\ Close(i)

-----------------------------------------------------------------------------
(* The pointer.  GTK reports entering and leaving one popup at a time.     *)

(* on_notification_entered: notify_pause_timeout.                          *)
Enter(i) ==
    /\ pointer = NoId /\ i \in active
    /\ pointer' = i
    /\ armed' = armed \ {i}
    /\ UNCHANGED << up, active, told, history, idCounter, doNotDisturb,
                    toClient, unsaid, clientVars, left >>

(* Mutant: leaving a popup does not start its timeout again.               *)
LeaveForgets(i) ==
    /\ pointer = i /\ i # NoId
    /\ pointer' = NoId
    /\ UNCHANGED << up, active, armed, told, history, idCounter, doNotDisturb,
                    toClient, unsaid, clientVars, left >>

(* on_notification_left: notify_resume_timeout.                            *)
Leave(i) ==
    /\ pointer = i /\ i # NoId
    /\ pointer' = NoId
    /\ armed' = armed \cup {i}
    /\ UNCHANGED << up, active, told, history, idCounter, doNotDisturb,
                    toClient, unsaid, clientVars, left >>

-----------------------------------------------------------------------------
(* The other calls.                                                        *)

(* Mutant: nobody is told that the history is empty.                       *)
ClearHistorySilently ==
    /\ up /\ Spend("clear")
    /\ history' = << >>
    /\ UNCHANGED << up, popupVars, idCounter, doNotDisturb, toClient, unsaid,
                    clientVars >>

ClearHistory ==
    /\ up /\ Spend("clear")
    /\ history' = << >>
    /\ Emit("history", HistoryUpdated)
    /\ UNCHANGED << popupVars, idCounter, doNotDisturb, clientVars >>

SetDoNotDisturb(b) ==
    /\ up /\ Spend("dnd")
    /\ doNotDisturb' = b
    /\ Emit("dnd", DndChanged(b))
    /\ UNCHANGED << popupVars, history, idCounter, clientVars >>

-----------------------------------------------------------------------------
(* The end of the server: id_counter, do_not_disturb and both lists are    *)
(* gone with it, and its popups.  It emits no signal when it starts again. *)

Ends ==
    /\ up /\ Spend("end")
    /\ up' = FALSE
    /\ active' = {} /\ armed' = {} /\ history' = << >>
    /\ idCounter' = 1 /\ doNotDisturb' = FALSE
    /\ pointer' = NoId
    /\ told' = [i \in Ids |-> 0]
    /\ unsaid' = IF phase = "connecting" THEN {} ELSE {"history", "dnd"}
    /\ UNCHANGED << toClient, clientVars >>

(* on_bus_acquired.                                                        *)
Starts ==
    /\ ~up /\ up' = TRUE
    /\ UNCHANGED << popupVars, history, idCounter, doNotDisturb, toClient,
                    unsaid, clientVars, left >>

-----------------------------------------------------------------------------
(* The client: on_proxy_ready, then one signal after the other.  A fetch   *)
(* without a server fails, and what was seen stays.                        *)

ServerVars == << up, popupVars, history, idCounter, doNotDisturb, unsaid,
                 left >>

ProxyReady ==
    /\ phase = "connecting" /\ phase' = "dnd"
    /\ UNCHANGED << ServerVars, toClient, seenHistory, seenDnd >>

FetchDnd ==
    /\ phase = "dnd" /\ phase' = "history"
    /\ seenDnd' = IF up THEN doNotDisturb ELSE seenDnd
    /\ UNCHANGED << ServerVars, toClient, seenHistory >>

FetchHistory ==
    /\ phase = "history" /\ phase' = "ready"
    /\ seenHistory' = IF up THEN history ELSE seenHistory
    /\ UNCHANGED << ServerVars, toClient, seenDnd >>

(* on_signal: HistoryUpdated begins the blocking GetHistory.               *)
OnHistoryUpdated ==
    /\ phase = "ready" /\ toClient # << >> /\ Head(toClient) = "history"
    /\ toClient' = Tail(toClient)
    /\ phase' = "history"
    /\ UNCHANGED << ServerVars, seenHistory, seenDnd >>

OnDndChanged ==
    /\ phase = "ready" /\ toClient # << >> /\ Head(toClient) # "history"
    /\ toClient' = Tail(toClient)
    /\ seenDnd' = (Head(toClient) = "dnd on")
    /\ UNCHANGED << ServerVars, phase, seenHistory >>

Client == \/ ProxyReady \/ FetchDnd \/ FetchHistory
          \/ OnHistoryUpdated \/ OnDndChanged

-----------------------------------------------------------------------------

Closing == \E i \in Ids : Expire(i) \/ Click(i) \/ Invoke(i) \/ CloseCall(i)

Next ==
    \/ NotifyCall
    \/ Closing
    \/ \E i \in Ids : Enter(i) \/ Leave(i)
    \/ ClearHistory
    \/ \E b \in BOOLEAN : SetDoNotDisturb(b)
    \/ Ends
    \/ Starts
    \/ Client

Spec == Init /\ [][Next]_vars

(* The main loops run: an armed timeout fires, and the client goes on.     *)
Fairness ==
    /\ \A i \in Ids : WF_vars(Expire(i))
    /\ WF_vars(Client)

FairSpec == Spec /\ Fairness

-----------------------------------------------------------------------------
(* Properties.                                                             *)

Item == [id : Ids, content : Contents]

TypeOK ==
    /\ up \in BOOLEAN /\ unsaid \subseteq {"history", "dnd"}
    /\ armed \subseteq active /\ active \subseteq Ids
    /\ history \in Seq(Item) /\ Len(history) <= MaxHistory
    /\ idCounter \in 1 .. MaxId + 1
    /\ doNotDisturb \in BOOLEAN
    /\ pointer \in {NoId} \cup active
    /\ told \in [Ids -> Nat]
    /\ toClient \in Seq({"history", "dnd on", "dnd off"})
    /\ phase \in {"connecting", "dnd", "history", "ready"}
    /\ seenHistory \in Seq(Item) /\ seenDnd \in BOOLEAN
    /\ \A what \in DOMAIN left : left[what] \in Nat

(* No popup is stuck on the screen: its timeout runs, unless the pointer   *)
(* rests on it and leaving it will start the timeout again.                *)
TimeoutOrPointer ==
    \A i \in active : i \in armed \/ pointer = i

(* Once its signals are handled the client shows what the server has: a    *)
(* blocking fetch may overtake signals, yet the last word is the newest.   *)
(* Of a server that ended it goes on showing what the next one has not     *)
(* touched: the first signal about it sets that right.                     *)
ClientAgrees ==
    up /\ phase = "ready" /\ toClient = << >>
        => /\ seenHistory = history \/ "history" \in unsaid
           /\ seenDnd = doNotDisturb \/ "dnd" \in unsaid

(* A popup goes away in the end if the pointer does not rest on it.        *)
PopupsGo ==
    \A i \in Ids : <>[](pointer # i) => []<>(i \notin active)

(* The test guide: a popup must not disappear while the pointer is over    *)
(* it.  The code restarts the timeout when the popup is replaced.          *)
StaysUnderPointer ==
    [][\A i \in Ids : Expire(i) => pointer # i]_vars

(* The server's lifecycle of a notification, NotifyPromise.                *)
Promise == INSTANCE NotifyPromise WITH
    next  <- idCounter,
    shown <- active,
    told  <- told

Implements == Promise!Spec
=============================================================================
