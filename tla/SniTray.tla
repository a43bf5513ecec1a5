------------------------------- MODULE SniTray -------------------------------
(***************************************************************************)
(* The panel's status notifier tray (panel/src/logic/sni_backend.c and the *)
(* callbacks of ui/sni_tray.c): the panel shows the items of a watcher,    *)
(* and is the watcher itself when no other program is.                     *)
(*                                                                         *)
(* The panel is one GLib main loop; the bus delivers to it in order, also  *)
(* what the panel sends to itself.  Applications, an other watcher and the *)
(* bus go on between any two of its steps.  An application's item is named *)
(* after its connection, so one that is gone does not come back.           *)
(***************************************************************************)
EXTENDS Naturals, Sequences, SequencesExt

CONSTANT Apps  \* the applications that have an item

ASSUME AppsAssumption == IsFiniteSet(Apps)

VARIABLES
    app,          \* app[a]: "new", "up", "gone"
    calledOwner,  \* calledOwner[a]: the watcher a registered with last
    owner,        \* who owns the watcher's name: "other" or "panel" (which
                  \* waits in the bus's queue for it)
    otherItems,   \* the items that the other watcher knows
    opening,      \* a proxy of the panel waits for the other's properties
    toPanel,      \* messages on their way: << kind, item or set of items >>
    watcherItems, \* watcher_items, each with a watch of its bus name
    hostKnown,    \* the owner has the panel among its hosts
    listening,    \* watcher_proxy is set, its signals are connected
    pending,      \* pending_item_queue; the idle source is set iff not empty
    tray,         \* tray_items, and the buttons of ui_items
    removed,      \* its removal was handled, and no registration since
    late          \* shown after their removal was handled

busVars   == << app, calledOwner, owner, otherItems, opening >>
panelVars == << watcherItems, hostKnown, listening, pending, tray >>
vars      == << busVars, toPanel, panelVars, removed, late >>

Send(messages) == toPanel' = toPanel \o messages

(* The panel's main loop has the oldest message.                           *)
Gets(kind) == toPanel # << >> /\ Head(toPanel)[1] = kind
Item       == Head(toPanel)[2]
Reply(messages) == toPanel' = Tail(toPanel) \o messages

(* start_tray_backend: the names are asked for, the watcher's is watched.  *)
Init ==
    /\ app \in [Apps -> {"new", "up"}]
    /\ owner \in {"other", "panel"}
    /\ calledOwner = [a \in Apps |->
          IF owner = "other" /\ app[a] = "up" THEN "other" ELSE "none"]
    /\ otherItems = {a \in Apps : calledOwner[a] = "other"}
    /\ opening = FALSE
    /\ toPanel = << << "owner", {} >> >>
    /\ watcherItems = {} /\ hostKnown = FALSE /\ listening = FALSE
    /\ pending = << >> /\ tray = {}
    /\ removed = {} /\ late = {}

-----------------------------------------------------------------------------
(* Applications and the other watcher.                                     *)

AppStarts(a) ==
    /\ app[a] = "new"
    /\ app' = [app EXCEPT ![a] = "up"]
    /\ UNCHANGED << calledOwner, owner, otherItems, opening, toPanel,
                    panelVars, removed, late >>

(* An application registers with the watcher, and again with a new one.    *)
AppRegisters(a) ==
    /\ app[a] = "up" /\ calledOwner[a] # owner
    /\ calledOwner' = [calledOwner EXCEPT ![a] = owner]
    /\ IF owner = "other"
       THEN /\ otherItems' = otherItems \cup {a}
            /\ Send(<< << "registered", a >> >>)
       ELSE /\ Send(<< << "register", a >> >>)
            /\ UNCHANGED otherItems
    /\ UNCHANGED << app, owner, opening, panelVars, removed, late >>

AppStops(a) ==
    /\ app[a] = "up"
    /\ app' = [app EXCEPT ![a] = "gone"]
    /\ Send(IF a \in watcherItems THEN << << "vanished", a >> >> ELSE << >>)
    /\ UNCHANGED << calledOwner, owner, otherItems, opening, panelVars,
                    removed, late >>

OtherNotices(a) ==
    /\ a \in otherItems /\ app[a] = "gone"
    /\ otherItems' = otherItems \ {a}
    /\ Send(<< << "unregistered", a >> >>)
    /\ UNCHANGED << app, calledOwner, owner, opening, panelVars, removed,
                    late >>

OtherAnswers ==
    /\ opening
    /\ opening' = FALSE
    /\ Send(<< << "ready", otherItems >> >>)
    /\ UNCHANGED << app, calledOwner, owner, otherItems, panelVars, removed,
                    late >>

(* The other watcher dies: its calls fail and the panel gets the name.     *)
OtherDies ==
    /\ owner = "other"
    /\ owner' = "panel" /\ otherItems' = {} /\ hostKnown' = FALSE
    /\ opening' = FALSE
    /\ Send((IF opening THEN << << "ready", {} >> >> ELSE << >>)
            \o << << "owner", {} >> >>)
    /\ UNCHANGED << app, calledOwner, watcherItems, listening, pending, tray,
                    removed, late >>

-----------------------------------------------------------------------------
(* Helpers of the panel.                                                   *)

(* enqueue_tray_item for one or several items, which come in no particular *)
(* order (they are the keys of a hash table).                              *)
Enqueue(items) ==
    \E new \in SetToSeqs(items \ (ToSet(pending) \cup tray)) :
        pending' = pending \o new

(* Mutant: the tray is not looked after.                                   *)
TrayRemoveNothing(items) ==
    /\ UNCHANGED << tray, late >>
    /\ removed' = removed \cup items

(* tray_remove_item; the queue is not looked at.                           *)
TrayRemove(items) ==
    /\ tray' = tray \ items
    /\ late' = late \ items
    /\ removed' = removed \cup items

-----------------------------------------------------------------------------
(* The panel as watcher.                                                   *)

(* watcher_register_item: the name is watched (a name without an owner     *)
(* vanishes at once), the signal comes back to the panel's own proxy.      *)
RegisterItem ==
    /\ Gets("register")
    /\ IF Item \in watcherItems
       THEN Reply(<< >>) /\ UNCHANGED << watcherItems, pending, removed >>
       ELSE /\ watcherItems' = watcherItems \cup {Item}
            /\ Reply((IF app[Item] = "gone" THEN << << "vanished", Item >> >>
                                            ELSE << >>)
                     \o << << "registered", Item >> >>)
            /\ Enqueue({Item})
            /\ removed' = removed \ {Item}
    /\ UNCHANGED << busVars, hostKnown, listening, tray, late >>

(* watcher_item_vanished.                                                  *)
ItemVanished ==
    /\ Gets("vanished")
    /\ watcherItems' = watcherItems \ {Item}
    /\ TrayRemove({Item})
    /\ Reply(<< << "unregistered", Item >> >>)
    /\ UNCHANGED << busVars, hostKnown, listening, pending >>

(* watcher_register_host.                                                  *)
RegisterHost ==
    /\ Gets("host")
    /\ hostKnown' = TRUE
    /\ Reply(<< >>)
    /\ UNCHANGED << busVars, watcherItems, listening, pending, tray, removed,
                    late >>

(* watcher_get_property, asked by the panel's own proxy.                   *)
GetProperty ==
    /\ Gets("getall")
    /\ Reply(<< << "ready", watcherItems >> >>)
    /\ UNCHANGED << busVars, panelVars, removed, late >>

-----------------------------------------------------------------------------
(* The panel as host.                                                      *)

(* on_watcher_name_vanished and on_watcher_name_appeared: the proxy is     *)
(* dropped, the tray emptied (the queue is not), a new proxy asks whoever  *)
(* owns the name now.                                                      *)
OwnerChanged ==
    /\ Gets("owner")
    /\ listening' = FALSE
    /\ TrayRemove(Apps)
    /\ opening' = (owner = "other")
    /\ Reply(IF owner = "panel" THEN << << "getall", {} >> >> ELSE << >>)
    /\ UNCHANGED << app, calledOwner, owner, otherItems, watcherItems,
                    hostKnown, pending >>

(* Mutant: the items that were registered before are not fetched.          *)
ProxyReadyEmpty ==
    /\ Gets("ready")
    /\ listening' = TRUE
    /\ IF owner = "other"
       THEN hostKnown' = TRUE /\ Reply(<< >>)
       ELSE UNCHANGED hostKnown /\ Reply(<< << "host", {} >> >>)
    /\ removed' = removed \ Item
    /\ UNCHANGED << busVars, watcherItems, pending, tray, late >>

(* on_watcher_proxy_ready: from now on signals are heard; the host is      *)
(* registered, the items of the cached property are enqueued.              *)
ProxyReady ==
    /\ Gets("ready")
    /\ listening' = TRUE
    /\ IF owner = "other"
       THEN hostKnown' = TRUE /\ Reply(<< >>)
       ELSE UNCHANGED hostKnown /\ Reply(<< << "host", {} >> >>)
    /\ Enqueue(Item)
    /\ removed' = removed \ Item
    /\ UNCHANGED << busVars, watcherItems, tray, late >>

(* on_watcher_proxy_signal.                                                *)
ItemRegistered ==
    /\ Gets("registered")
    /\ Reply(<< >>)
    /\ IF listening
       THEN Enqueue({Item}) /\ removed' = removed \ {Item}
       ELSE UNCHANGED << pending, removed >>
    /\ UNCHANGED << busVars, watcherItems, hostKnown, listening, tray, late >>

ItemUnregistered ==
    /\ Gets("unregistered")
    /\ Reply(<< >>)
    /\ IF listening THEN TrayRemove({Item}) ELSE UNCHANGED << tray, removed, late >>
    /\ UNCHANGED << busVars, watcherItems, hostKnown, listening, pending >>

(* process_pending_items: one item an idle turn.                           *)
ProcessPending ==
    /\ pending # << >>
    /\ pending' = Tail(pending)
    /\ tray' = tray \cup {Head(pending)}
    /\ late' = late \cup ({Head(pending)} \cap removed)
    /\ UNCHANGED << busVars, toPanel, watcherItems, hostKnown, listening,
                    removed >>

Receive ==
    \/ RegisterItem \/ ItemVanished \/ RegisterHost \/ GetProperty
    \/ OwnerChanged \/ ProxyReady \/ ItemRegistered \/ ItemUnregistered

App(a) == AppStarts(a) \/ AppRegisters(a) \/ AppStops(a) \/ OtherNotices(a)

Next ==
    \/ \E a \in Apps : App(a)
    \/ OtherAnswers \/ OtherDies
    \/ Receive
    \/ ProcessPending

Spec == Init /\ [][Next]_vars

(* The panel's loop runs, its idle source too; applications register, the  *)
(* other watcher answers.                                                  *)
Fairness ==
    /\ WF_vars(Receive) /\ WF_vars(ProcessPending)
    /\ WF_vars(OtherAnswers)
    /\ \A a \in Apps : WF_vars(AppRegisters(a)) /\ WF_vars(OtherNotices(a))

FairSpec == Spec /\ Fairness

-----------------------------------------------------------------------------
(* Properties.                                                             *)

Messages ==
    ({"register", "vanished", "registered", "unregistered"} \X Apps)
        \cup ({"ready"} \X SUBSET Apps)
        \cup ({"owner", "getall", "host"} \X {{}})

TypeOK ==
    /\ app \in [Apps -> {"new", "up", "gone"}]
    /\ calledOwner \in [Apps -> {"none", "other", "panel"}]
    /\ owner \in {"other", "panel"}
    /\ otherItems \in SUBSET Apps
    /\ opening \in BOOLEAN
    /\ toPanel \in Seq(Messages)
    /\ watcherItems \in SUBSET Apps
    /\ hostKnown \in BOOLEAN /\ listening \in BOOLEAN
    /\ pending \in Seq(Apps)
    /\ tray \in SUBSET Apps
    /\ removed \in SUBSET Apps /\ late \in SUBSET Apps

Quiet ==
    /\ toPanel = << >> /\ pending = << >> /\ ~opening
    /\ \A a \in otherItems : app[a] = "up"

Registered(a) ==
    app[a] = "up" /\ calledOwner[a] = owner

(* When everything sent has been handled the tray shows the items that are *)
(* registered, and the watcher knows the panel.  An item of an application *)
(* that is gone is shown only if it was still queued when its removal was  *)
(* handled: tray_remove_item does not look into pending_item_queue.        *)
TrayAgrees ==
    Quiet =>
        /\ \A a \in Apps : Registered(a) => a \in tray
        /\ \A a \in tray : app[a] = "up" \/ a \in late
        /\ hostKnown

(* An application that stays gets its icon, whoever is the watcher and     *)
(* whenever the watcher changes.                                           *)
ItemsAreShown ==
    \A a \in Apps :
        app[a] = "up" ~> app[a] = "gone" \/ (a \in tray /\ Registered(a))
=============================================================================
