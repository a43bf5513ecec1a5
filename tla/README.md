# AetherShell: a TLA+ verification project

AetherShell is a desktop shell for Linux. It is not one program but a dozen that run side by
side and talk over Wayland, D-Bus, pipes and PulseAudio. This directory holds TLA+ models of the
parts in which processes, threads, timers, callbacks and messages interleave, the TLC
configurations that check them on small instances, and proofs, checked by TLAPS, that some of the
properties hold for every instance. Paths below are relative to `src/`.

How to run (in this directory):

    tlc -workers 2 -config lock_auth.cfg MCLockAuth      # any run: its cfg and its MC module
    tlapm LockAuth_proofs.tla                            # any *_proofs module

## 1. Inventory

### 1.1 The programs and what they keep

| Part | State | Operations | Talks to |
|---|---|---|---|
| **aetherlock: authentication** (`aetherlock/src/password.c, comm.c, pam.c, shadow.c, loop.c, main.c`) | password buffer, indicator (input and auth state), three timers, failed attempts, two pipes, a forked child that checks passwords | keys, submission, reply, hang-up, SIGUSR1, SIGTERM, timers; the child's read, check, delay, reply | its child (pipes), compositor, user |
| **aetherlock: surfaces** (`main.c, seat.c, render.c, pool-buffer.c`) | outputs, lock surfaces, their frame callbacks and two buffers each, key repeat | output added/removed, configure, frame, key repeat, redraw | compositor |
| **aetherlock: widgets** (`mpris_control.c, weather.c, ...`) | texts that are drawn | polls of D-Bus, `/proc`, the network | logind, MPRIS, the notification server |
| **aetheridle** (`aetheridle/main.c`) | timeouts with their idle notifications, `timeouts_enabled`, owed resumes, logind's inhibitor and idle hint, the delay lock | idled, resumed, PropertiesChanged, PrepareForSleep, Lock/Unlock, SIGUSR1, SIGTERM, reload of the file | compositor, logind, commands it spawns |
| **osd-notify: notification server** (`osd-notify/src/notify.c, notify_ui.c`) | popups on the screen, history, do-not-disturb, ids | Notify, CloseNotification, GetHistory, ClearHistory, timeouts, pointer | D-Bus clients, the pointer |
| **osd-notify: on-screen display** (`osd_logic*.c, osd_protocols.c, toplevel.c, ...`) | a value on the screen and a hide timer | polls, key events | PulseAudio, sysfs, compositor |
| **panel: notifications** (`panel/src/logic/vaxp_notifications.c`) | a copy of the history and of do-not-disturb | proxy, signals, blocking fetches | notification server |
| **panel: network** (`network_actions.c, airplane_mode.c, ui/control_center_ui.c`) | copies of the switches, the radios that airplane mode saved, one context per activation: signal subscription, 30 s timer; the password prompts | scan, connect, switches, airplane mode | NetworkManager, the user |
| **panel: Bluetooth** (`bluetooth_manager.c`) | one context per operation: call, property subscription, timer | connect, disconnect, pair, scan, power | BlueZ, rfkill |
| **panel: tray** (`sni_backend.c, sni_tray.c`) | watcher and host, items, queue of items whose proxies are being created | register, unregister, name owner changes, proxy ready | D-Bus, applications |
| **panel: volume** (`pulse_volume.c`) | sinks, sources, default names | subscription, queries | PulseAudio |
| **panel: compositor, windows, other logic; plug-ins and widgets** | reconnect timer; caches of one service each | reads on request | compositor, logind, UPower |
| **auth: polkit agent** (`auth/src/auth.c, auth_ui.c`) | the request, the dialog with its nested main loop, the PAM conversation | begin, cancel, answer, prompt, completion | polkitd, PAM helper |
| **aether-recorder: capture, encoder, audio** (`aether-recorder/src/main.cpp, buffer-pool.hpp, frame-writer.cpp, pulse.cpp, pipewire.cpp`) | a pool of buffers that grows, two indices, `exit_main_loop`, the muxer's two locks, three threads | frame ready/failed, submission, encoding, audio packets, signals | compositor, FFmpeg, PulseAudio, PipeWire |
| **aether-recorder: GUI, settings, tray icon** | widgets, one child process | start, stop | the recorder |
| **AetherDock, basilisk, desktop, launcher, designer, extra plug-ins, wallpaper setter** | widgets over lists of windows, files and applications | one user request at a time; the launcher loads icons asynchronously, basilisk sends one query at a time | compositor, file system |
| **packages, scripts** | none | | |

### 1.2 What is hard about them, and what makes them correct

- *Locker.* User, locker, child and compositor interleave freely; two attempts can be in the pipe
  because the timer of one refusal re-enables Return while the next password is checked; the child
  may die between a read and a verdict. Correct: only a right password (or a signal of the user, or
  the end of the locker) ends the lock, in the order of the attempts; every attempt is answered; no
  password and no message stays on the screen.
- *Idle daemon.* Events of the compositor, signals of logind and blocking D-Bus calls interleave;
  sd-bus reads signals during a call and keeps them, and only one message is handled per readable
  event. Correct: the timeouts are on exactly when nothing inhibits them, the idle hint is taken
  back, no timeout is lost, what is owed to the user on return is run.
- *Notification server.* Timeouts, clicks, calls and the pointer end and pause the same popup; a
  client that fetches by a blocking call overtakes signals. Correct: a popup ends once and is
  reported once, none is stuck, the client's view converges.
- *Recorder.* Three threads, a ring that grows under both indices, two locks around a third party's
  muxer, a flag that everybody polls. Correct: the compositor never writes into a buffer the encoder
  reads; frames are encoded once and in order; no thread starves; the recording stops on request.
- *Lock surfaces.* Outputs come and go, are scaled and resized, while frames are pending, both buffers
  are busy or memory is short. Correct: every commit fits the configured size, no update is
  forgotten, every output ends up covered by the present state, a key repeats only while it is held.
- *Polkit agent.* Each dialog runs a main loop inside the handler of its request, so requests nest;
  polkitd cancels at any time; PAM asks more than once. Correct: each request is answered once, nothing
  is granted without the consent of its own dialog, the agent's copies of passwords do not outlive their use.
- *Tray.* The panel talks to another watcher or to itself, and the watcher may change while items are
  queued and proxies are made. Correct: the tray comes to show what is registered.
- *Radios.* Buttons are painted before the services agree; attempts and operations have several ends
  (answer, signal, timeout) and a prompt that nests. Correct: button, copy and radio meet again,
  airplane mode gives back what it took, each attempt is reported rightly and ends.

`PROJECT.json` lists each hazard at its line with the properties that cover it. Some lines that were
read and judged lesser are only named here: the reconnect timer of
`panel/src/logic/compositor_backend.c:376`, the callback of `basilisk/src/core/ai_ctrl.c:42`,
the end of a connection in `pulse_volume.c:294`, the scan of `network_actions.c:286`, the second
timer of `aetheridle/main.c:1101`, the id counter of `notify.c:370`, `aetherlock/src/main.c:233`,
`airplane_mode.c:29`, and the connection to the compositor that is lost while recording
(`aether-recorder/src/main.cpp:1545`), after which stale buffers are submitted.

## 2. Modules

| Module | Kind | Models |
|---|---|---|
| `LockPromise` | abstract | what a screen locker promises, without processes or timers |
| `LockAuth` | component | password entry, loop and checking child of aetherlock |
| `LockAuth_proofs` | proofs | theorems about `LockAuth` |
| `AetherIdle` | component | aetheridle with compositor, logind, its sleeps, and user |
| `AetherIdle_proofs` | proofs | theorems about `AetherIdle` |
| `NotifyPromise` | abstract | the life of a notification: announced, shown, told closed once; servers that follow each other |
| `Notify` | component | the notification server and one client of its history |
| `Notify_proofs` | proofs | theorems about `Notify`, the refinement of `NotifyPromise` |
| `FrameQueue` | abstract | the recorder's pool as a queue of frames |
| `Recorder` | component | capture loop, encoder thread, pool, audio thread, muxer locks |
| `Recorder_proofs` | proofs | theorems about `Recorder` |
| `LockSurface` | component | outputs, lock surfaces, frames and buffers of aetherlock |
| `LockSeat` | composition | `LockSurface` with the keyboard, its focus and key repeat |
| `LockSeat_proofs` | proofs | theorems about `LockSeat` and `LockSurface` |
| `PolkitPromise` | abstract | one outcome per request, granted only with consent and not withdrawn |
| `PolkitAgent` | component | requests, nested dialogs and PAM conversations of the agent |
| `PolkitAgent_proofs` | proofs | theorems about `PolkitAgent` |
| `SniTray` | component | the panel's tray as host and as watcher |
| `SniTray_proofs` | proofs | theorems about `SniTray` |
| `RadioSwitches` | component | the switches of Wi-Fi, Ethernet, Bluetooth, and airplane mode |
| `WifiConnect` | component | connecting to a Wi-Fi network, with the password prompt |
| `BtConnect` | component | connecting to a Bluetooth device |
| `PanelRadios` | composition | the last three in one main loop with one user |
| `PanelRadios_proofs` | proofs | theorems about the switches of `PanelRadios` |
| `MCLockAuth`, `MCAetherIdle`, `MCNotify`, `MCRecorder`, `MCLockSeat`, `MCPolkitAgent`, `MCSniTray`, `MCPanelRadios` | instances | the values TLC uses |

Definitions whose comment begins with "Mutant" are variants with a plausible bug. No specification
uses them; each has been put in place of the definition it varies to see that the property named in
`PROJECT.json` then fails.

### 2.1 LockAuth

State: `password`, `inputState`, `authState`, the three timers as Booleans ("armed"),
`failedAttempts`; the two pipes as sequences (`requests` of passwords, `replies` of verdicts), the
child's program counter (`reading`, `checking`, `sleeping`, `exited`) and the password it holds; the
event loop as `stage` (the callback that poll runs next) and `revents`. Keys are one action per
branch of `aetherlock_handle_key`; a submission that finds the child gone either kills the locker
(SIGPIPE) or restores the state (`SubmitFails`). `loop_poll` runs the callbacks of one iteration in
their order (display, reply, termination, then timers), so a reply and a signal that arrive together
are handled as in the code. Both backends are in: PAM's child exits after a success, shadow's sleeps
after a refusal and goes on.

Abstracted: characters are a small set, passwords sequences of them with the buffer's real bound;
timers expire at any later pass; drawing is left out.

### 2.2 AetherIdle

State of the daemon (`loaded`, `enabled`, `notification`, `registered`, `resumePending`), of its bus
(`rqueue`: read and kept by sd-bus; `socket`: not read yet), of logind (`inhibited`, `idleHint`), of
the compositor (`idledAt`, `wire`) and of the user (`away`). A synchronous D-Bus call blocks the loop
but not the neighbours, so a handler is cut at its calls: `calls` holds those it still has to make,
and the loop takes no other event before it is empty. `SyncCall` moves the messages on the socket
into the queue, and `DbusEvent` handles one message per readable event: this is where a signal can
wait behind a reply. Reload is modelled with its failures (`ReloadFails`, `ReloadExits`). A reload may drop
a listener and a later one make it anew while a signal is still queued; sd-bus gives a slot only what it reads
after the slot was added, so such a signal is `stale` (`Outdated`) and nobody handles it.

The sleep of the computer: `sleepSlot` and `sleepLock` are the daemon's listener and delay lock (`closed`:
the descriptor is gone and `sleep_lock_fd` keeps its number), `power` and `delays` are logind's. logind
waits for the delay locks (`SleepPrepared`, `Sleeps`), for at most its InhibitDelayMaxSec, which passes only
when the daemon has nothing to do, and refuses a lock while it prepares. `guarded` and `prepared` are
history variables of `SleepIsGuarded`: a daemon at rest has its lock, so the computer sleeps after
before-sleep.

Two exceptions that the properties name, because the code has them, come from one cause. A blocking call
(the idle hint, an inhibitor, the lock on wake) reads signals into sd-bus's queue, and
`dbus_event` looks there only when the socket is readable again (`main.c:446`). PrepareForSleep may
wait there until the delay is over, and before-sleep then runs after the sleep, where the manual
(`aetheridle.1.scd:47`) knows no such case; and with an idlehint or sleep line a change of the inhibitor may
wait there as long as logind has nothing else to say, which is why `InhibitorsObeyed` speaks of
configurations without them. Left out: a D-Bus call that fails on a live bus (`SetIdleHint`, `main.c:280`;
`BlockInhibited`, `main.c:297`; the connection at the start, `main.c:504`), so `HintIsOwed` and
`InhibitorsObeyed` assume that the calls succeed.

### 2.3 Notify

`active`, the popups on the screen, with `armed`, those among them whose timeout runs, `history` with its bound, `idCounter`,
`doNotDisturb`, `pointer`, and `told`, which counts the NotificationClosed signals per id. The server may
end and be started again by systemd (`Ends`, `Starts`); all of this is gone then, ids begin at 1, and the
client, which does not watch it, keeps what it saw: `unsaid` names what the new server has not yet told, and
`ClientAgrees` says that its first signal on a matter sets the view right. One action
per path of `create_new_notification` (shown, replaced, silent, silently replaced), per way of
closing, per pointer event, per method that changes state. The client is a process of its own: its
proxy appears, it fetches twice by blocking calls, and then takes signals one at a time; a
HistoryUpdated signal starts a fetch that reads the server's state of that moment, ahead of signals
still in the queue.

### 2.4 Recorder

`main`'s program counter (`top`, `free`, `dispatching`, `copying`, `joining`, `ended`), the writer's (`wait`,
`adding`, before and behind the muxer's two locks, `next`, `closing`, `stuck`, `done`) and the audio
thread's. `bufs` is the array of the pool as a function on `0 .. bufsSize - 1`; a buffer is a record
of its two flags and the time of the frame in it. `NextCapture` is the code's `next_capture`, with
the insertion that moves buffers and the encoder's index. The operations of the pool hold its mutex
and are one step each. `Filled` counts the buffers between the two indices, `Waiting` reads the frames out
of them, from the encoder's index on; it is the refinement mapping to `FrameQueue`.

Abstracted: a frame gives at most one packet to the muxer; codecs, filters and their set-up succeed
or fail; time is the number of the frame. `wl_display_dispatch` (`dispatching`) does not return for a
signal, since libwayland polls again: it needs a frame, a failure, another event of the compositor
(`OtherEvent`), or the end of the connection, none of which need come. With copy_with_damage, the default
(`main.cpp:315`, `362`), a static screen sends nothing.

### 2.5 LockSurface and LockSeat

`surf` is `state.surfaces`: per output the stage of its announcement, whether the lock surface was
made, its scale and size, `dirty`, the pending frame callback, the size of the last background, the two
indicator buffers (`made`: the scale of each, `busy`: which are lent), and what the compositor has of it (`attached`, `atScale`).
`Render` is `render()` with its early returns, `NextBuffer` is `get_next_buffer`, `room` says for how
many buffers there is memory. `phase` is the place in `main`: an output is covered by `CreateSurfaces`
before the wait for `locked`, by `OutputDone` only while `run_display` is set. `LockSeat` adds the
keyboard: presses redraw, the repeat timer re-arms, focus and keyboard may go away while it is armed.

Exceptions that the properties name, because the code has them: an output announced while `main` waits
for `locked` (`early`) is never covered (`main.c:342`); a key that goes up while the locker has no focus
or keyboard (`missed`) repeats on (`seat.c:281`). A new scale is drawn with the next damage only; an
update that found both buffers busy is made up for by the next tick of the statistics timer.
Left out: pointer, drawing, and more than one output in the run (outputs share only `damage_state`
and the focus).

### 2.6 PolkitAgent

One record per request, as functions: the stage, the password buffer, what PAM heard, whether polkitd
cancelled, the answer. `stack` holds the dialogs, each a main loop inside the one below; only the top
one has input and can return. `Returns` is the return of the nested loop, after which the handler goes on
in the same step: refused, no session, or a session. `OnRequest` answers PAM's first prompt with the
password and wipes it, so a second prompt gets an empty answer. The password here is the buffer of the
request: the copy inside the entry widget, which the dialog overwrites when its loop returns
(`clear_entry_text`, `auth_ui.c:38`, `587`), is not modelled. `OnCompleted` is
`on_completed` and the task: a cancelled one reports that. A signal quits the outermost loop only, so the
agent ends when the dialogs are decided. The refinement mapping `Outcome` reads the promise's outcome
off answer and stage; the requests still open when the agent goes count as denied, as polkitd does.

### 2.7 SniTray

`toPanel` is the bus to the panel in order, also for what the panel sends to itself as watcher: register,
vanished, host, getall, owner, ready, registered, unregistered. `pending` is the idle queue, `tray` the
items with their buttons. The watcher's name is another's or the panel's. History: `removed` and
`late` mark an item that was still queued when its removal was handled and is shown as a ghost
(`sni_backend.c:265` does not look into the queue); a registration that is heard ends the mark. Left out: properties and menus of the items.

### 2.8 RadioSwitches, WifiConnect, BtConnect, PanelRadios

`RadioSwitches` has for each link what the service has (`actual`), the panel's copy (`cached`), the style
of the button (`shown`) and the signals on their way. Wi-Fi paints the button and leaves the copy to the
signal; Bluetooth sets both; Ethernet asks two seconds later. `adapter` says whether there is a Bluetooth
adapter and whether the panel knows its path: one plugged in later is found when `bluetooth_toggle`,
`bluetooth_set_powered` or `bluetooth_scan` looks for it, which reads its state too (`BtCopy`); a click
that finds none has painted the button all the same (`ToggleInVain`). `AirplaneOn` and `AirplaneOff` are
the two halves of `airplane_mode_toggle`, each with the returns of `bluetooth_set_powered` (`SetRadios`). `WifiConnect` has an attempt (ConnectCtx with ConnectAttempt) with its
subscription, its 30 s guard and its reports; `prompts` is the stack of `gtk_dialog_run` loops, each
inside the callback that opened it. `BtConnect` has a context (BtOpCtx) that signal, timeout and answer
end. `PanelRadios` puts them into one main loop: no event is handled between the return of an inner
prompt and the end of the handler around it (`Loops`), and the user has one input.

Exceptions that the properties name: `astray`, which of button and copy nothing has put right yet, until
the next signal or check (the button after a click on Bluetooth without an adapter,
`control_center_ui.c:144`, or on Wi-Fi with a Set that failed; both after a Set of Bluetooth or of airplane
mode that failed, a restarted service, an adapter plugged in, an Ethernet state that changed unasked or
could not be read),
`touched` (others switched the radio, or the copy was out of date when airplane mode saved it, as when
Wi-Fi is toggled and airplane mode clicked before the signal), the guard that reports an attempt again
because its callback's prompt still runs (`network_actions.c:703`), a connection that was up before the
subscription and is reported as failed after 30 s (`network_actions.c:723`), and `broken`: when two
prompts of one attempt were open the outer one uses the freed context, and an error answer that comes
after the signal or the timeout uses the freed BtOpCtx (`bluetooth_manager.c:886`, `943`). After a use
of freed memory the model stops.
Left out: a panel without a system bus (`network_actions.c:289`, `308`), the scans, which fill a list from a
fresh answer, `bluetooth_pair` alone (nothing calls it),
the pairing agent.

## 3. Runs

| Run | Question | Bounds | Result |
|---|---|---|---|
| `lock_auth` | Does the locker keep `LockPromise`; is every attempt answered; does nothing linger? | one character, buffer of 4 (two characters and the reserve of `append_ch`), 2 attempts, both backends | holds |
| `lock_idle_busy` | Is the indicator idle only when nothing happens? | the same, PAM | **violated** |
| `idle_timeouts` | Do timeouts follow inhibitors; is the hint taken back; is absence noticed; does the computer wait for before-sleep? | one timeout line and the idlehint line; 4 events in one of four mixes of absences, changes of the inhibitor, sleeps, reload, SIGUSR1 | holds |
| `idle_resume` | Is every resume command run on return? | the same lines; 1 absence, 2 changes of the inhibitor | **violated** |
| `notify` | Is each popup ended once, none stuck; does the client agree? | 2 notifications, history of 1; 1 replacement, 2 switches and 1 clear, or an end of the server with 1 replacement or 1 switch | holds |
| `notify_hover` | Does a popup stay while the pointer is on it? | the same | **violated** |
| `recorder` | Are frames encoded once and in order, buffers owned, the muxer shared, the threads stopped? | pool of at most 3 (grows once), 3 frames, one tolerated failure, no sound and both backends | holds |
| `recorder_stop` | Does Ctrl+C end the program? | the same, no sound | **violated** |
| `lock_surface` | Do commits fit, is no update forgotten, does every output show the present state, does a key stop repeating? | 1 output, 2 scales, 2 sizes, 1 failed allocation, 1 key | holds |
| `polkit_agent` | Does the agent keep `PolkitPromise`; do secrets stay private; is everything answered? | 3 requests, 2 passwords, 2 prompts | holds |
| `panel_tray` | Does the tray come to show what is registered, whoever is the watcher? | 2 applications, one watcher that may die | holds |
| `panel_radios` | Do switches agree with the radios, does airplane mode give back, are attempts reported rightly, do operations end? | 2 requests of the user, 1 mishap, 1 Bluetooth device | holds |

Why the bounds are enough. *lock_auth*: the interesting overlap needs a refusal, its timer, and a
second attempt while the first timer runs: two attempts; passwords of length 0, 1 and 2 contain a
wrong one, the right one, a longer one, and fill the buffer. *idle_timeouts*: an inhibitor that comes
and goes needs two changes; the two lines behave differently (one has a blocking call in its handlers)
and every pair of handlers can meet; the mixes (`MCBudgets`) hold two sleeps with each other event but
SIGUSR1, which multiplies the states and never touches the lock. *notify*: an item leaves the history with the second
notification; replacement, expiry, pointer and the client's fetch can all overlap. *recorder*: the
pool grows from two to three in front of a waiting frame and with the encoder's index on either
side; three frames make the pool full. Larger pools shift more buffers by the same rule; what is
proved below does not depend on the size.

*lock_surface*: two
scales and two sizes make equal and different buffer sizes (1×2, 2×1), and two buffers with a commit
pending make both busy. *polkit_agent*: three requests nest two deep and leave one between. *panel_tray*: two
items can be queued on either side of a change of the watcher; items do not touch each other. *panel_radios*:
two requests give a switch inside airplane mode, a retry of a password, a pairing with its connection, and
each of them beside another; each request makes at most one attempt or two contexts, so neither runs out.

Deadlock is not checked (`CHECK_DEADLOCK FALSE`) because each program ends: the locker unlocks or
dies, the daemons' bounded inputs run out, the recorder exits. That nothing stops too early is what
the liveness properties say.

### 3.1 Fairness

- *LockAuth*: weak fairness of the loop and of the child (`poll` returns at least every 50 ms because
  of the timer of `glib_pump`; a check ends); strong fairness of each timer, because the loop reaches
  its timer pass again and again and an armed timer is served there. Keys, signals and crashes are
  not fair.
- *AetherIdle*: a call returns; the compositor sends its events; the loop serves each readable
  descriptor in each round, hence strong fairness of the two event sources. User, inhibitor, reload and
  signals are not fair.
- *Notify*: armed timeouts fire and the client's main loop runs. Callers, pointer, the end of the server and
  its start are not fair.
- *Recorder*: the three threads run; sound keeps coming; a thread that waits for a mutex which is free
  again and again gets it (strong fairness of the locks and of joining the audio thread). Frames and
  errors are not fair, and nothing is assumed of the compositor: `wl_display_dispatch` may wait for ever.

- *LockSurface, LockSeat*: the compositor answers (properties of a new output, the first configure, frame
  callbacks, release of buffers it has replaced) and the statistics timer expires every 1.5 s. Keys,
  outputs, `locked` and failures are not fair.
- *PolkitAgent*: a loop runs and dispatches what came; PAM's conversation ends; the user decides the dialog
  that has the input. polkitd's calls, cancellation and signals are not fair.
- *SniTray*: the panel's loop and idle source run; another watcher answers and notices; applications
  register. Their start and end, and the watcher's, are not fair.
- *PanelRadios*: the main loop, outer or inner, dispatches signals and timeouts, and the user closes a prompt
  in the end. NetworkManager, BlueZ and mishaps are not fair: the guards end what they leave unsaid.

### 3.2 What the violations show

- `lock_idle_busy`: `set_auth_idle` (`aetherlock/src/password.c:59`) fires for an earlier refusal and
  sets the idle state while a later password is still being verified.
- `idle_resume`: `disable_timeouts` (`aetheridle/main.c:675`) destroys the notification whose resumed
  event would run the resume command; the manual (`aetheridle.1.scd:44`) promises the command.
- `notify_hover`: replacing a notification (`osd-notify/src/notify.c:425`) starts its timeout although
  the pointer is on the popup; the test guide (`tests_readme.md:31`) says it must not disappear.
- `recorder_stop`: with a full pool the capture loop waits (`aether-recorder/src/main.cpp:1538`) for a
  buffer that only the encoder thread frees, and that thread ends when it sees `exit_main_loop`; the
  README of the recorder says that Ctrl+C stops it. `CtrlCStops` grants that no dispatch of events lasts,
  so that the full pool alone violates it. The other wait that does not look at the flag is that dispatch
  (`main.cpp:1545`): on a static screen, Ctrl+C or a stop from the tray waits there until the screen
  changes; the model has the wait, no property bounds it. `StopsWithRoom` shows the rest: with the flag
  set and main in neither wait, the program ends or the encoder has locked itself (`main.cpp:703`).

## 4. Proofs

**LockAuth_proofs** (for every alphabet, secret, buffer length of at least 2, set of backends and bound on
attempts): `TypeCorrect`, `Lingers`, `Answered`, `QueueBounded`, `SuccessLast`, `KeepsPromise`. The invariants are not
inductive alone. The argument: types rest on `ReplyIsThere` (poll reports data only while a reply is in
the pipe); `ValidatingIsAnswered` and `QueueBoundedByFailures` are proved together, from counting attempts
in both pipes and in the child's hands, since Return is blocked exactly while the state is "validating";
`SuccessIsLast` needs that PAM's child has exited once it wrote a success. The lemmas on sequences say
what a key press and a backspace do to the buffer. `KeepsPromise` is the refinement of `LockPromise`.
Its queue of attempts is spread over two pipes and the child's hands; the lemmas on a `Row`, two queues with
one attempt between them, say what each move is in the promise: reading and answering keep the row, a
backend that refuses a right password changes one place (`Overrule`), one that dies takes one out (`Lose`).

**Recorder_proofs** (for every pool of at least 2 buffers, number of failures, sound backends, number of
frames): `TypeCorrect`, `BufferOwned`, `Exclusive`, `NoneOvertakes`, `NoneLost`, `KeepsQueue`. The inductive invariant adds to the
types that a buffer's two flags are opposite (`Flags`), that the buffer being copied into is free
(`Copying`) and that the writer's buffer is available (`Holding`); ownership follows because one buffer
cannot be both. `NextCaptureKeeps` is the heart: when the pool grows, the encoder's index moves exactly as
its buffer does. For the muxer it adds that at most one thread is between the two locks (`Queued`) and
that without a backend there is no audio thread (`Silent`), so that the thread between the locks is the
next to write. For the frames, `Ring` says that the available buffers are those from the encoder's index up
to the capture's: `next_capture` fills the next place of the ring, also where it inserts a buffer or moves
the encoder's index around the end, and `next_encode` empties the first. So each step puts a frame at the
end of `Waiting`, takes the first, or leaves it (`Puts`, `Takes`, `Leaves`), which is the refinement of
`FrameQueue`. `NoFrameLost` needs `Order`: what was encoded and what waits follow each other up to the
frame submitted last, nothing is encoded before the first frame is accepted, and the shot in the capture's
buffer has the time of the clock.

**PolkitAgent_proofs** (for every set of requests and passwords and bound on prompts): `TypeCorrect`,
`Stacked`, `PrivateSecrets`, `KeepsPromise`. `DialogsAreStacked` is inductive with the types: only the top
returns, and a request is pushed once because it leaves the stage "called". `PrivateSecrets` needs
`Private`: a password is there only from the accept to the first prompt, what PAM heard starts with what
was typed, and an empty `heard` belongs to a conversation that has not asked. `KeepsPromise` is the
refinement of `PolkitPromise`, step by step: every action maps to one of the promise's or to a stutter,
with `IInv` to know that a session has the user's consent.

**PanelRadios_proofs** (for every set of attempts, contexts, devices and starting states, and all bounds):
`SwitchesRight`, `AirplaneRight`, `ReportsRight`. First `NextSwitches`: a step of the composition is a step of
`RadioSwitches` or leaves its variables alone. `SwitchesAgree` speaks of links that are settled, so the
invariant has to say what is true before: the last signal on its way carries the present state, and
without one copy and button have it, each unless it is astray (`Told`); for Ethernet, a check is due or
they are right (`EthTold`). Without an adapter Bluetooth is off everywhere (`Bare`), so that airplane mode
has nothing of it to give back.
For airplane mode it says that a radio not touched by others is off, or what it was before, and that
`saved` agrees with `before`. `AttemptsAreReported` compares a report with the connection at that moment;
its invariant (`Whole`) says that an attempt which is watched was not reported, that what is on its way
about its connection was true when it was said and says "active" only of a connection that was up, and that
a callback which asks for the password belongs to a secured network, has reported one failure and has its
prompt open. The lemmas on prompts say which callbacks are left when one is opened, closed or answered.

**AetherIdle_proofs** (for every set of timeout lines, configurations and budgets):
`TimeoutsFollowInhibitors`, `EveryTimerWatched`, `HintIsTakenBack`, `SleepWaitsForDaemon`. The properties
speak of a daemon at rest, so the invariant says what a busy one still owes. `Following`: while it listens
to logind, `enabled` is the opposite of `inhibited`, or a signal of the change is unread, or the call that
enables is still to come. `Watched` needs no rest: enabled timeouts are registered in the middle of a
handler too. `Owed`: where the hint is on, or the call that sets it is coming, a resume is owed or the
call that takes it back is coming, and no handler makes both calls. `Locked`: awake, a daemon with a sleep
listener has a lock of logind, or a call or a wake-up signal that will bring it; each sleep in the queues
has its wake behind it; while the computer prepares for a sleep that found the daemon at rest, the lock is
kept and the signal unread. The proof of `Locked` first failed with two reloads, which the run's budgets
do not have: the model let the listener of the second reload handle a signal that was read before it,
which sd-bus does not (`stale`).

**Notify_proofs** (for every number of notifications, bound of the history, budgets): `TypeCorrect`,
`NoPopupStuck`, `ClientCatchesUp`, `KeepsPromise`. `TimeoutOrPointer` is inductive with the types.
`ClientAgrees` is about a client that has handled everything; the invariant says of any other that the
view of the history is right, or a fetch or a HistoryUpdated is to come (`HistoryComes`), that the last
DndChanged on its way carries the server's value, and that without one the view has it (`DndComes`), each
unless the view is of an earlier server (`unsaid`). `Fresh` says what a server that is down and a client
that connects do not have yet. `KeepsPromise` is the refinement of `NotifyPromise`, case by case over the
actions: with the types, every way of closing is one `Close` of an id that is on the screen, a replacement
is a stutter, and the end of the server is the promise's `Restart`.

**LockSeat_proofs** (for every set of outputs, scales, sizes and keys, and any failures of allocation):
`TypeCorrect`, `CommitsAreSized`, `RepeatsAreHeld`, `NoneForgotten`. `CommitsFit` compares the configured
size with what is attached; the invariant `Fits` relates both to `last_buffer_width`, the code's only
memory of it: what it says was committed is what the compositor has. `UpdatesStay` is an
action property: a surface whose present state is shown, or marked with a callback to draw it, stays so in
every step but the three that it names (no buffer, no memory, a scale before the main loop). Each action is
a composition of `render` and assignments to the surface; the lemmas say of `render` alone that what is
marked before it is shown or still marked after it, and of each handler that it marks what it changes.

**SniTray_proofs** (for every finite set of applications): `TypeCorrect`, `TrayCatchesUp`. `TrayAgrees`
holds when nothing is on its way, so the invariant is about the order of messages on the bus: the watcher
has the panel as host, or a message that will make it one is there (`HostComes`); an item of a living
application is in the tray, in the panel's queue, or in a message that will bring it: a registration, a
list of items, or a change of owner after which it is registered anew (`OtherComes`, `PanelComes`); and an
item that is in the tray or the queue has a watcher that will tell of its end, or the end is on the bus,
behind everything that would bring the item back (`EndComes`, `EndsAfter`). `Owned` and `Told` say who has
the items and that what is said of an application is true. The lemmas on queues (`PlusOne`, `Gotten`) say
what an append and a receipt do to "x is queued" and "x is queued behind y"; the steps use nothing else of
sequences. The proof showed the history variable `removed` to be too generous (items registered with the
other watcher counted as ghosts), so that `TrayAgrees` said less than it claimed; a registration that the
panel hears now ends the mark.

Assumptions: only the named ASSUMEs on constants, which TLC evaluates in every run. Every invariant and
every action property of the passing runs is proved, and so are the four refinements: `LockPromise`,
`FrameQueue`, `PolkitPromise`, `NotifyPromise`, each with its initial states and its steps.

Only model-checked: the liveness properties, which the prover does not do (fairness is ENABLED); among them
everything about `BtConnect`. `TypeOK` of `AetherIdle` is proved but for
`wire`, `idledAt` and `registered`, which only liveness depends on (`Typed` in the proofs): the events that a destroyed
notification takes with it are left out of `wire` by SelectSeq, which the prover does not expand and of
which the library states no fact.

## 5. Not modelled, and the plan

Not modelled: drawing, layout, option and file parsing, the set-up of libraries, and programs whose
handlers each rebuild a view from a fresh read (dock, desktop, most of the panel's indicators, the
recorder's GUI): nothing in them interleaves with anything.

Also left out: the Lock and Unlock signals of aetheridle (they run a command), the on-screen display (a
value and a hide timer), the scans of networks and devices, the asynchronous icon loader of the launcher
(`icon_loader.c:166`), `pulse_volume.c` (a cache that is read again whenever the sound server says something
changed), and the pointer on the lock screen.

Next modules, in order: `PulseVolume` (queries whose answers overlap and the end of the connection,
`pulse_volume.c:294`), the hide timer of the on-screen display, the icon loader.

Next theorems: a context of `BtConnect` has at most one watch and one call, so that only a late error can
meet a freed one; the bound on the prompts (one per attempt); the safety part of what liveness rests on, that
a surface of `LockSurface` which is not covered has a configure, a callback or a release to come.
