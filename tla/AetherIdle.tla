----------------------------- MODULE AetherIdle -----------------------------
(***************************************************************************)
(* aetheridle: idle timeouts, logind's idle inhibitors, the delay lock on  *)
(* sleep, SIGUSR1, SIGTERM and the reload of the configuration file        *)
(* (aetheridle/main.c).                                                    *)
(*                                                                         *)
(* The daemon is one thread with an event loop.  Its neighbours run beside *)
(* it: the compositor, which owns the idle notifications and sends their   *)
(* events over the Wayland socket; logind, which owns the inhibitors and   *)
(* the idle hint; the user.  A synchronous D-Bus call blocks the loop, so  *)
(* the calls that a handler still has to make are a queue of their own:    *)
(* the neighbours go on between two of them, the loop does not.  A call on *)
(* a live bus succeeds: what main.c does when SetIdleHint, BlockInhibited  *)
(* or the connection itself fails is left out.                             *)
(***************************************************************************)
EXTENDS Naturals, Sequences, FiniteSets

CONSTANTS
    Cmds,     \* the timeout lines that a configuration may hold
    HintCmd,  \* the idlehint line, one of Cmds
    Never,    \* the lines whose number is not positive: cmd->timeout = -1
    Budgets   \* model bounds, one of which a behaviour keeps to: how often
              \* the user leaves, an inhibitor comes or goes, the computer
              \* sleeps, the file changes, SIGUSR1 arrives

ASSUME CmdsAssumption == HintCmd \in Cmds /\ Never \subseteq Cmds
ASSUME BudgetsAssumption ==
    Budgets \subseteq [{"leave", "inhibit", "sleep", "reload", "usr1"} -> Nat]

VARIABLES
    life,          \* "running", "terminated" (SIGTERM), "failed" (exit(-1))
    loaded,        \* state.timeout_cmds
    cleared,       \* the last load of the file failed
    enabled,       \* state.timeouts_enabled
    notification,  \* cmd->idle_notification: "none", "zero" or "timeout"
    registered,    \* cmd->registered_timeout: "zero" or "timeout"
    resumePending, \* cmd->resume_pending
    calls,         \* the D-Bus calls the running handler has yet to make
    listening,     \* property_slot is set
    connected,     \* bus is set
    rqueue,        \* signals that sd-bus holds unprocessed: "property"
                   \* (PropertiesChanged), "sleep", "wake" (PrepareForSleep),
                   \* "stale" (older than the slot that listens now)
    socket,        \* signals on the D-Bus socket
    sleepSlot,     \* sleep_slot is set
    sleepLock,     \* sleep_lock_fd: "none" (-1), "held" or "closed" (a number
                   \* that is no longer open)
    delays,        \* logind: the delay locks of the daemon
    power,         \* logind: "awake", "preparing" for sleep, "asleep"
    guarded,       \* history: the daemon was at rest when logind prepared
    prepared,      \* history: prepare_for_sleep has run before-sleep since
    inhibited,     \* logind: an idle inhibitor is in force
    idleHint,      \* logind: the IdleHint of the session
    idledAt,       \* compositor: the commands whose notification is idle
    wire,          \* the Wayland socket: events << command, event >>
    away,          \* the user makes no input
    left           \* what remains of the budget

clientVars == << loaded, cleared, enabled, notification, registered,
                 resumePending >>
busVars    == << listening, connected, rqueue, socket >>
sleepVars  == << sleepSlot, sleepLock, delays, power, guarded, prepared >>
logindVars == << inhibited, idleHint >>
compVars   == << idledAt, wire >>
vars == << life, clientVars, calls, busVars, sleepVars, logindVars, compVars,
           away, left >>

Spend(what) == left[what] > 0 /\ left' = [left EXCEPT ![what] = @ - 1]
Up          == life = "running" /\ power # "asleep"
InLoop      == Up /\ calls = << >>

(* need_logind: idlehint, or any of before-sleep, lock, ... in the file.   *)
NeedLogind(cmds, other) == other \/ HintCmd \in cmds

(* main, up to the loop: the file is loaded, the bus listened to, and the  *)
(* first enable_timeouts is about to ask logind for inhibitors.            *)
Init ==
    /\ life = "running" /\ cleared = FALSE
    /\ loaded \in SUBSET Cmds
    /\ enabled = FALSE
    /\ notification = [c \in Cmds |-> "none"]
    /\ registered = [c \in Cmds |-> "zero"]
    /\ resumePending = [c \in Cmds |-> FALSE]
    /\ sleepSlot \in BOOLEAN
    /\ calls = (IF sleepSlot THEN << "inhibit" >> ELSE << >>)
               \o (IF HintCmd \in loaded THEN << "hint off" >> ELSE << >>)
               \o << "enable" >>
    /\ \E other \in {sleepSlot, TRUE} :
          /\ loaded # {} \/ other          \* should_run
          /\ listening = NeedLogind(loaded, other)
          /\ connected = NeedLogind(loaded, other)
    /\ rqueue = << >> /\ socket = << >>
    /\ sleepLock = "none" /\ delays = 0
    /\ power = "awake" /\ guarded = FALSE /\ prepared = FALSE
    /\ inhibited \in BOOLEAN /\ idleHint \in BOOLEAN
    /\ idledAt = {} /\ wire = << >> /\ away = FALSE
    /\ left \in Budgets

-----------------------------------------------------------------------------
(* Notifications.  Destroying one drops the events that are on their way   *)
(* to it.                                                                  *)

Forget(cmds) ==
    /\ idledAt' = idledAt \ cmds
    /\ wire' = SelectSeq(wire, LAMBDA e : e[1] \notin cmds)

(* register_timeout(cmd, cmd->timeout, true) for a set of commands.        *)
RegisterTimeouts(cmds) ==
    /\ notification' = [c \in Cmds |->
          IF c \notin cmds THEN notification[c]
          ELSE IF c \in Never THEN "none" ELSE "timeout"]
    /\ registered' = [c \in Cmds |->
          IF c \in cmds \ Never THEN "timeout" ELSE registered[c]]
    /\ Forget(cmds)

NoRegistration == UNCHANGED << notification, registered, compVars >>

-----------------------------------------------------------------------------
(* Synchronous calls.  While it waits for the reply sd-bus reads whatever  *)
(* comes before it; signals go to the read queue, unprocessed.             *)

SyncCall ==
    IF connected THEN rqueue' = rqueue \o socket /\ socket' = << >>
                 ELSE UNCHANGED << rqueue, socket >>

(* get_logind_idle_inhibit: no bus, no inhibitor.                          *)
SeesInhibitor == connected /\ inhibited

(* Mutant: enable_timeouts does not ask logind.                            *)
EnableTimeoutsBlindly ==
    /\ Up /\ calls # << >> /\ Head(calls) = "enable"
    /\ calls' = Tail(calls)
    /\ IF enabled
       THEN UNCHANGED << enabled, rqueue, socket >> /\ NoRegistration
       ELSE SyncCall /\ enabled' = TRUE /\ RegisterTimeouts(loaded)
    /\ UNCHANGED << life, loaded, cleared, resumePending, listening, connected,
                    sleepVars, logindVars, away, left >>

EnableTimeouts ==
    /\ Up /\ calls # << >> /\ Head(calls) = "enable"
    /\ calls' = Tail(calls)
    /\ IF enabled
       THEN UNCHANGED << enabled, rqueue, socket >> /\ NoRegistration
       ELSE /\ SyncCall
            /\ IF SeesInhibitor
               THEN UNCHANGED enabled /\ NoRegistration
               ELSE enabled' = TRUE /\ RegisterTimeouts(loaded)
    /\ UNCHANGED << life, loaded, cleared, resumePending, listening, connected,
                    sleepVars, logindVars, away, left >>

(* set_idle_hint: without a bus the call fails and nothing changes.        *)
SetIdleHint ==
    /\ Up /\ calls # << >>
    /\ Head(calls) \in {"hint on", "hint off"}
    /\ calls' = Tail(calls)
    /\ SyncCall
    /\ idleHint' = IF connected THEN Head(calls) = "hint on" ELSE idleHint
    /\ UNCHANGED << life, clientVars, listening, connected, sleepVars,
                    inhibited, compVars, away, left >>

(* acquire_inhibitor_lock: logind refuses while it prepares for sleep, and *)
(* the old number stays.  The lock of a descriptor that is overwritten is  *)
(* never released.                                                         *)
AcquireInhibitorLock ==
    /\ Up /\ calls # << >> /\ Head(calls) = "inhibit"
    /\ calls' = Tail(calls)
    /\ SyncCall
    /\ IF power = "awake"
       THEN sleepLock' = "held" /\ delays' = delays + 1
       ELSE UNCHANGED << sleepLock, delays >>
    /\ UNCHANGED << life, clientVars, listening, connected, sleepSlot,
                    power, guarded, prepared, logindVars, compVars, away,
                    left >>

Call == EnableTimeouts \/ SetIdleHint \/ AcquireInhibitorLock

-----------------------------------------------------------------------------
(* dbus_event: one message per call, and only when the socket is readable. *)

(* disable_timeouts.                                                       *)
DisableTimeouts ==
    IF enabled
    THEN /\ enabled' = FALSE
         /\ notification' = [c \in Cmds |-> "none"]
         /\ Forget(Cmds)
         /\ calls' = IF HintCmd \in loaded THEN << "hint off" >> ELSE << >>
    ELSE UNCHANGED << enabled, notification, compVars, calls >>

(* sd_bus_process takes the oldest signal.                                 *)
Arrived == rqueue \o socket
Oldest  == Head(Arrived)
Take    == IF rqueue # << >> THEN rqueue' = Tail(rqueue) /\ UNCHANGED socket
                             ELSE socket' = Tail(socket) /\ UNCHANGED rqueue
Read    == Arrived = << >>
Readable(signal) == InLoop /\ socket # << >> /\ Oldest = signal

(* Mutant: the end of the last inhibitor goes unheeded.                    *)
HandlePropertyChangedOneWay ==
    /\ Readable("property") /\ listening
    /\ rqueue' = Tail(Arrived) /\ socket' = << >>
    /\ IF inhibited
       THEN DisableTimeouts
       ELSE UNCHANGED << enabled, notification, compVars, calls >>
    /\ UNCHANGED << life, loaded, cleared, registered, resumePending,
                    listening, connected, sleepVars, logindVars, away, left >>

(* handle_property_changed asks logind again what is true now.             *)
HandlePropertyChanged ==
    /\ Readable("property") /\ listening
    /\ rqueue' = Tail(Arrived) /\ socket' = << >>
    /\ IF inhibited
       THEN DisableTimeouts
       ELSE /\ calls' = << "enable" >>
            /\ UNCHANGED << enabled, notification, compVars >>
    /\ UNCHANGED << life, loaded, cleared, registered, resumePending,
                    listening, connected, sleepVars, logindVars, away, left >>

(* close(sleep_lock_fd), which keeps its value; closing what is no longer  *)
(* open does nothing here (main.c could meet a new descriptor).            *)
ReleaseInhibitorLock ==
    /\ delays' = IF sleepLock = "held" THEN delays - 1 ELSE delays
    /\ sleepLock' = IF sleepLock = "none" THEN "none" ELSE "closed"

(* prepare_for_sleep, going down: the command runs, then the lock goes.    *)
PrepareForSleep ==
    /\ Readable("sleep") /\ sleepSlot
    /\ Take
    /\ prepared' = TRUE
    /\ ReleaseInhibitorLock
    /\ UNCHANGED << life, clientVars, calls, listening, connected, sleepSlot,
                    power, guarded, logindVars, compVars, away, left >>

(* Mutant: the lock is not taken again.                                    *)
ResumeFromSleepUnguarded ==
    /\ Readable("wake") /\ sleepSlot
    /\ Take
    /\ calls' = IF HintCmd \in loaded THEN << "hint off" >> ELSE << >>
    /\ UNCHANGED << life, clientVars, listening, connected, sleepVars,
                    logindVars, compVars, away, left >>

(* prepare_for_sleep, back again.                                          *)
ResumeFromSleep ==
    /\ Readable("wake") /\ sleepSlot
    /\ Take
    /\ calls' = << "inhibit" >>
                \o (IF HintCmd \in loaded THEN << "hint off" >> ELSE << >>)
    /\ UNCHANGED << life, clientVars, listening, connected, sleepVars,
                    logindVars, compVars, away, left >>

(* A signal that arrived before its slot was dropped: no handler, and none *)
(* either when the slot is set again.                                      *)
IgnoreMessage ==
    /\ \/ Readable("stale")
       \/ Readable("property") /\ ~listening
       \/ (Readable("sleep") \/ Readable("wake")) /\ ~sleepSlot
    /\ Take
    /\ UNCHANGED << life, clientVars, calls, listening, connected, sleepVars,
                    logindVars, compVars, away, left >>

-----------------------------------------------------------------------------
(* display_event: the events of the notifications.                         *)

NextEvent(c, event) == InLoop /\ wire # << >> /\ Head(wire) = << c, event >>

(* Mutant: the idle event does not note that a resume is owed.             *)
HandleIdledForgets(c) ==
    /\ NextEvent(c, "idled")
    /\ wire' = Tail(wire)
    /\ calls' = IF c = HintCmd THEN << "hint on" >> ELSE << >>
    /\ UNCHANGED << life, clientVars, busVars, sleepVars, logindVars, idledAt,
                    away, left >>

HandleIdled(c) ==
    /\ NextEvent(c, "idled")
    /\ wire' = Tail(wire)
    /\ resumePending' = [resumePending EXCEPT ![c] = TRUE]
    /\ calls' = IF c = HintCmd THEN << "hint on" >> ELSE << >>
    /\ UNCHANGED << life, loaded, cleared, enabled, notification, registered,
                    busVars, sleepVars, logindVars, idledAt, away, left >>

(* Mutant: the notification of SIGUSR1 is destroyed, not replaced.         *)
HandleResumedOnce(c) ==
    /\ NextEvent(c, "resumed")
    /\ resumePending' = [resumePending EXCEPT ![c] = FALSE]
    /\ IF registered[c] # "timeout"
       THEN /\ notification' = [notification EXCEPT ![c] = "none"]
            /\ Forget({c})
       ELSE wire' = Tail(wire) /\ UNCHANGED << notification, idledAt >>
    /\ calls' = IF c = HintCmd THEN << "hint off" >> ELSE << >>
    /\ UNCHANGED << life, loaded, cleared, enabled, registered, busVars,
                    sleepVars, logindVars, away, left >>

(* The test registered_timeout # timeout: SIGUSR1 registered it with zero. *)
HandleResumed(c) ==
    /\ NextEvent(c, "resumed")
    /\ resumePending' = [resumePending EXCEPT ![c] = FALSE]
    /\ IF registered[c] # "timeout"
       THEN RegisterTimeouts({c})
       ELSE wire' = Tail(wire) /\ UNCHANGED << notification, registered, idledAt >>
    /\ calls' = IF c = HintCmd THEN << "hint off" >> ELSE << >>
    /\ UNCHANGED << life, loaded, cleared, enabled, busVars, sleepVars,
                    logindVars, away, left >>

-----------------------------------------------------------------------------
(* handle_signal.                                                          *)

(* SIGUSR1: register_timeout(cmd, 0, false) for every command.             *)
Sigusr1 ==
    /\ InLoop /\ Spend("usr1")
    /\ notification' = [c \in Cmds |-> IF c \in loaded THEN "zero" ELSE notification[c]]
    /\ registered' = [c \in Cmds |-> IF c \in loaded THEN "zero" ELSE registered[c]]
    /\ Forget(loaded)
    /\ UNCHANGED << life, loaded, cleared, enabled, resumePending, calls,
                    busVars, sleepVars, logindVars, away >>

(* SIGTERM, SIGINT: handle_resumed for every pending command, then exit.   *)
Terminate ==
    /\ InLoop
    /\ life' = "terminated"
    /\ resumePending' = [c \in Cmds |-> resumePending[c] /\ c \notin loaded]
    /\ idleHint' = (/\ idleHint
                     /\ ~(/\ connected /\ HintCmd \in loaded
                          /\ resumePending[HintCmd]))
    /\ notification' = [c \in Cmds |-> "none"] /\ Forget(Cmds)
    /\ delays' = 0
    /\ UNCHANGED << loaded, cleared, enabled, registered, calls, busVars,
                    sleepSlot, sleepLock, power, guarded, prepared, inhibited,
                    away, left >>

-----------------------------------------------------------------------------
(* inotify_event_handler: the file changed, reload_config.                 *)

(* clear_config, then the lines that load_config read.                     *)
ClearAndLoad(cmds) ==
    /\ loaded' = cmds
    /\ enabled' = FALSE
    /\ notification' = [c \in Cmds |-> "none"]
    /\ registered' = [c \in Cmds |-> "zero"]
    /\ resumePending' = [c \in Cmds |-> FALSE]
    /\ Forget(Cmds)

(* The listeners follow the new configuration.  A new one is a synchronous *)
(* AddMatch call, and sd-bus gives its slot only what it reads later.  Then *)
(* come set_idle_hint(false) and, with a timeout, enable_timeouts.         *)
Outdated(signals) ==
    [i \in DOMAIN Arrived |->
        IF Arrived[i] \in signals THEN "stale" ELSE Arrived[i]]

Listeners(need, line) ==
    LET news == (IF need /\ ~listening THEN {"property"} ELSE {})
                \cup (IF line /\ ~sleepSlot THEN {"sleep", "wake"} ELSE {})
    IN  /\ listening' = need
        /\ connected' = (connected \/ need)
        /\ \E added \in {news # {}, need} :
              IF added THEN rqueue' = Outdated(news) /\ socket' = << >>
                       ELSE UNCHANGED << rqueue, socket >>

(* setup_sleep_listener, whose call is yet to come, or the slot and the    *)
(* lock are dropped.                                                       *)
SleepListener(line) ==
    /\ sleepSlot' = line
    /\ sleepLock' = IF line THEN sleepLock ELSE "none"
    /\ delays' = IF ~line /\ sleepLock = "held" THEN delays - 1 ELSE delays
    /\ guarded' = (guarded /\ line)
    /\ UNCHANGED << power, prepared >>

LockCall(line) == IF line /\ ~sleepSlot THEN << "inhibit" >> ELSE << >>

(* Mutant: the reload does not take back the idle hint.                    *)
ReloadWorksHintless ==
    /\ InLoop /\ Spend("reload")
    /\ \E cmds \in SUBSET Cmds, line \in BOOLEAN, other \in BOOLEAN :
          /\ ClearAndLoad(cmds)
          /\ Listeners(NeedLogind(cmds, line \/ other), line)
          /\ SleepListener(line)
          /\ calls' = LockCall(line)
                      \o (IF cmds # {} THEN << "enable" >> ELSE << >>)
    /\ cleared' = FALSE
    /\ UNCHANGED << life, logindVars, away >>

ReloadWorks ==
    /\ InLoop /\ Spend("reload")
    /\ \E cmds \in SUBSET Cmds, line \in BOOLEAN, other \in BOOLEAN :
          /\ ClearAndLoad(cmds)
          /\ Listeners(NeedLogind(cmds, line \/ other), line)
          /\ SleepListener(line)
          /\ calls' = LockCall(line)
                      \o (IF HintCmd \in cmds THEN << "hint off" >> ELSE << >>)
                      \o (IF cmds # {} THEN << "enable" >> ELSE << >>)
    /\ cleared' = FALSE
    /\ UNCHANGED << life, logindVars, away >>

(* The file is missing, or has an error after some of its lines: an early  *)
(* return that keeps those lines, the listeners and the bus.               *)
ReloadFails ==
    /\ InLoop /\ Spend("reload")
    /\ \E cmds \in SUBSET Cmds : ClearAndLoad(cmds)
    /\ cleared' = TRUE
    /\ UNCHANGED << life, calls, busVars, sleepVars, logindVars, away >>

(* A wrong number or a missing word: the parsers call exit(-1).            *)
ReloadExits ==
    /\ InLoop /\ Spend("reload")
    /\ life' = "failed"
    /\ \E cmds \in SUBSET Cmds : ClearAndLoad(cmds)
    /\ delays' = 0
    /\ UNCHANGED << cleared, calls, busVars, sleepSlot, sleepLock, power,
                    guarded, prepared, logindVars, away >>

Reload == ReloadWorks \/ ReloadFails \/ ReloadExits

-----------------------------------------------------------------------------
(* The neighbours: user, logind, compositor.                               *)

UserLeaves ==
    /\ ~away /\ Spend("leave") /\ away' = TRUE
    /\ UNCHANGED << life, clientVars, calls, busVars, sleepVars, logindVars,
                    compVars >>

UserReturns ==
    /\ away /\ power # "asleep" /\ away' = FALSE
    /\ UNCHANGED << life, clientVars, calls, busVars, sleepVars, logindVars,
                    compVars, left >>

(* An idle inhibitor comes or goes; the signal follows if somebody listens. *)
InhibitorChanges ==
    /\ Up /\ Spend("inhibit")
    /\ inhibited' = ~inhibited
    /\ socket' = IF listening THEN Append(socket, "property") ELSE socket
    /\ UNCHANGED << life, clientVars, calls, listening, connected, rqueue,
                    sleepVars, idleHint, compVars, away >>

Signal(signal) ==
    socket' = IF sleepSlot THEN Append(socket, signal) ELSE socket

(* logind announces the sleep and waits for delay locks.                   *)
SleepPrepared ==
    /\ Up /\ power = "awake" /\ Spend("sleep")
    /\ power' = "preparing"
    /\ Signal("sleep")
    /\ guarded' = (InLoop /\ sleepSlot /\ Read) /\ prepared' = FALSE
    /\ UNCHANGED << life, clientVars, calls, listening, connected, rqueue,
                    sleepSlot, sleepLock, delays, logindVars, compVars, away >>

(* It sleeps when no lock is left, or after InhibitDelayMaxSec: time that  *)
(* passes only when the daemon has nothing to do.                          *)
Waits == InLoop /\ socket = << >> /\ wire = << >>
Sleeps ==
    /\ power = "preparing" /\ life = "running"
    /\ delays = 0 \/ Waits
    /\ power' = "asleep"
    /\ UNCHANGED << life, clientVars, calls, busVars, sleepSlot, sleepLock,
                    delays, guarded, prepared, logindVars, compVars, away,
                    left >>

Wakes ==
    /\ power = "asleep"
    /\ power' = "awake"
    /\ Signal("wake")
    /\ UNCHANGED << life, clientVars, calls, listening, connected, rqueue,
                    sleepSlot, sleepLock, delays, guarded, prepared,
                    logindVars, compVars, away, left >>

(* A notification becomes idle: at once when its timeout is zero.          *)
SendIdled(c) ==
    /\ Up /\ notification[c] # "none" /\ c \notin idledAt
    /\ away \/ notification[c] = "zero"
    /\ Len(wire) < 2 * Cardinality(Cmds)
    /\ idledAt' = idledAt \cup {c}
    /\ wire' = Append(wire, << c, "idled" >>)
    /\ UNCHANGED << life, clientVars, calls, busVars, sleepVars, logindVars,
                    away, left >>

SendResumed(c) ==
    /\ Up /\ c \in idledAt /\ ~away
    /\ idledAt' = idledAt \ {c}
    /\ wire' = Append(wire, << c, "resumed" >>)
    /\ UNCHANGED << life, clientVars, calls, busVars, sleepVars, logindVars,
                    away, left >>

-----------------------------------------------------------------------------

DisplayEvent == \E c \in Cmds : HandleIdled(c) \/ HandleResumed(c)
DbusEvent    == HandlePropertyChanged \/ PrepareForSleep \/ ResumeFromSleep
                \/ IgnoreMessage
SleepCycle   == SleepPrepared \/ Sleeps \/ Wakes
Neighbours   == \E c \in Cmds : SendIdled(c) \/ SendResumed(c)

Next ==
    \/ Call
    \/ DisplayEvent
    \/ DbusEvent
    \/ Sigusr1
    \/ Terminate
    \/ Reload
    \/ UserLeaves
    \/ UserReturns
    \/ InhibitorChanges
    \/ SleepCycle
    \/ Neighbours

Spec == Init /\ [][Next]_vars

(* A call returns, and the compositor sends its events.  The event loop    *)
(* serves every readable descriptor in each round, so a descriptor that is *)
(* readable again and again is served, whatever handlers run in between.   *)
Fairness ==
    /\ WF_vars(Call)
    /\ SF_vars(DisplayEvent)
    /\ SF_vars(DbusEvent)
    /\ \A c \in Cmds : WF_vars(SendIdled(c)) /\ WF_vars(SendResumed(c))

FairSpec == Spec /\ Fairness

-----------------------------------------------------------------------------
(* Properties.                                                             *)

Timers == {"none", "zero", "timeout"}

TypeOK ==
    /\ life \in {"running", "terminated", "failed"}
    /\ loaded \subseteq Cmds /\ cleared \in BOOLEAN /\ enabled \in BOOLEAN
    /\ notification \in [Cmds -> Timers]
    /\ registered \in [Cmds -> {"zero", "timeout"}]
    /\ resumePending \in [Cmds -> BOOLEAN]
    /\ calls \in Seq({"hint on", "hint off", "enable", "inhibit"})
    /\ listening \in BOOLEAN /\ connected \in BOOLEAN
    /\ {rqueue, socket} \subseteq Seq({"property", "sleep", "wake", "stale"})
    /\ {sleepSlot, guarded, prepared} \subseteq BOOLEAN
    /\ sleepLock \in {"none", "held", "closed"} /\ delays \in Nat
    /\ power \in {"awake", "preparing", "asleep"}
    /\ inhibited \in BOOLEAN /\ idleHint \in BOOLEAN
    /\ idledAt \subseteq {c \in Cmds : notification[c] # "none"}
    /\ wire \in Seq(Cmds \X {"idled", "resumed"})
    /\ away \in BOOLEAN
    /\ \A what \in DOMAIN left : left[what] \in Nat

(* Once every message of logind is processed, the timeouts are on exactly  *)
(* when no inhibitor is in force: the two reads of the property and the    *)
(* calls between them lose no change.                                      *)
Settled == InLoop /\ listening /\ Read
EnabledAgrees ==
    Settled /\ ~cleared /\ loaded # {} => enabled = ~inhibited

(* Enabled timeouts are watched: each has a live notification, through     *)
(* SIGUSR1, resumes, inhibitors and reloads.                               *)
NoTimerLost ==
    InLoop /\ enabled =>
        \A c \in loaded \ Never : notification[c] # "none"

(* The session counts as idle in logind only while a resume of idlehint is *)
(* owed, so that the hint will be taken back (by a call that succeeds).    *)
HintIsOwed ==
    InLoop /\ ~cleared /\ HintCmd \in loaded /\ idleHint
        => resumePending[HintCmd]

(* A command whose timeout is enabled runs when the user stays away: no    *)
(* idle event is lost.                                                     *)
AwayIsNoticed ==
    \A c \in Cmds \ Never :
        <>[](Up /\ enabled /\ c \in loaded /\ away)
            => <>[]resumePending[c]

(* With neither idlehint nor a sleep line, the timeouts follow the         *)
(* inhibitors in the end, even when messages wait unprocessed inside       *)
(* sd-bus: no later blocking call can strand the last of them there.       *)
InhibitorsObeyed ==
    <>[](/\ Up /\ listening /\ ~cleared
         /\ loaded # {} /\ HintCmd \notin loaded /\ ~sleepSlot)
        => <>[](enabled = ~inhibited)

(* A daemon at rest that listens for sleep holds the delay lock, also after *)
(* earlier sleeps and reloads, so the computer does not sleep before its   *)
(* before-sleep command: unless a blocking call read the signal, and sd-bus *)
(* keeps it until the delay is over.                                       *)
SleepIsGuarded ==
    power = "asleep" /\ guarded /\ life = "running"
        => prepared \/ \E i \in DOMAIN rqueue : rqueue[i] = "sleep"

(* The manual: the "resume command will be run when there is activity      *)
(* again".  The code forgets it when an inhibitor comes in between.        *)
ResumeFollowsActivity ==
    \A c \in Cmds \ {HintCmd} :
        []Up =>
            (resumePending[c] /\ ~away ~> ~resumePending[c] \/ away)
=============================================================================
