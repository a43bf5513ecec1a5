------------------------------ MODULE LockAuth ------------------------------
(***************************************************************************)
(* aetherlock: password entry, the password-checking child process and the *)
(* poll loop of the locker (password.c, comm.c, pam.c, shadow.c and the    *)
(* loop of main.c).                                                        *)
(*                                                                         *)
(* The locker is one process with a poll loop.  Every iteration runs the   *)
(* callbacks of loop_poll in their order: display, reply pipe, SIGUSR1     *)
(* pipe, timers.  The child is a second process; two pipes connect them.   *)
(* Passwords are sequences of characters, a reply is a Boolean.            *)
(***************************************************************************)
EXTENDS Naturals, Sequences

CONSTANTS
    Letters,      \* the characters that can be typed
    Secret,       \* the password that the backend accepts
    BufferLen,    \* state.password.buffer_len (1024 in the code)
    Backends,     \* "pam", "shadow": which of the two was compiled in
    MaxAttempts   \* model bound: refused and unanswered attempts together

ASSUME LettersAssumption == Secret \in Seq(Letters) /\ Secret # << >>
ASSUME BufferAssumption == BufferLen \in Nat /\ BufferLen > 1
ASSUME BackendAssumption == Backends \subseteq {"pam", "shadow"}
ASSUME BoundAssumption == MaxAttempts \in Nat

VARIABLES
    ignoreEmpty,     \* args.ignore_empty (--ignore-empty-password)
    backend,         \* the backend of this build
    session,         \* what the compositor shows: "locked", "unlocked", or
                     \* "dead": locked by a client that is gone
    run,             \* state.run_display
    stage,           \* the callback of loop_poll that runs next
    revents,         \* what poll() reported for the reply pipe
    displayOk,       \* the Wayland connection works
    sigusr,          \* SIGUSR1 was delivered (a byte is in sigusr_fds)
    authState,       \* state.auth_state
    inputState,      \* state.input_state
    password,        \* state.password
    authTimer,       \* auth_idle_timer is armed
    inputTimer,      \* input_idle_timer is armed
    clearTimer,      \* clear_password_timer is armed
    failedAttempts,  \* state.failed_attempts
    requests,        \* the request pipe, comm[0]
    replies,         \* the reply pipe, comm[1]
    child,           \* the child: "reading", "checking", "sleeping", "exited"
    checked          \* pw_buf: the password the child checks

uiVars    == << authState, inputState, password, authTimer, inputTimer,
                clearTimer, failedAttempts >>
loopVars  == << session, run, stage, revents, displayOk, sigusr >>
childVars == << child, checked >>
pipeVars  == << requests, replies >>
vars      == << ignoreEmpty, backend, loopVars, uiVars, pipeVars, childVars >>

fixed     == << ignoreEmpty, backend >>

AuthStates  == {"idle", "validating", "invalid"}
InputStates == {"idle", "clear", "letter", "backspace", "neutral"}
Passwords   == Seq(Letters)

Init ==
    /\ ignoreEmpty \in BOOLEAN /\ backend \in Backends
    /\ session = "locked" /\ run = TRUE /\ stage = "timers"
    /\ revents = {} /\ displayOk = TRUE /\ sigusr = FALSE
    /\ authState = "idle" /\ inputState = "idle" /\ password = << >>
    /\ authTimer = FALSE /\ inputTimer = FALSE /\ clearTimer = FALSE
    /\ failedAttempts = 0
    /\ requests = << >> /\ replies = << >>
    /\ child = "reading" /\ checked = << >>

-----------------------------------------------------------------------------
(* Attempts that were written to the child and whose reply was not read.   *)

Checking    == IF child = "checking" THEN 1 ELSE 0
Outstanding == Len(requests) + Checking + Len(replies)

-----------------------------------------------------------------------------
(* Keys: the display callback dispatches any number of key events, and the *)
(* repeat timer of a key that is held down hands in more of them.          *)

TakesKeys == session = "locked" /\ stage \in {"display", "timers"}

(* Each branch of aetherlock_handle_key that edits the buffer leaves an    *)
(* input state to display and restarts the timer that hides it again.      *)
ShowInput(s) == inputState' = s /\ inputTimer' = TRUE

(* Mutant: the test for room is off by one.                                *)
KeyLetterOffByOne(c) ==
    /\ TakesKeys
    /\ password' = IF Len(password) >= BufferLen
                   THEN password
                   ELSE Append(password, c)
    /\ ShowInput("letter")
    /\ clearTimer' = TRUE
    /\ UNCHANGED << fixed, loopVars, authState, authTimer, failedAttempts,
                    pipeVars, childVars >>

KeyLetter(c) ==
    /\ TakesKeys
    /\ password' = IF Len(password) + 1 + 1 >= BufferLen
                   THEN password              \* append_ch: no room, dropped
                   ELSE Append(password, c)
    /\ ShowInput("letter")
    /\ clearTimer' = TRUE
    /\ UNCHANGED << fixed, loopVars, authState, authTimer, failedAttempts,
                    pipeVars, childVars >>

(* Mutant: every backspace cancels the wipe timer.                         *)
KeyBackspaceCancels ==
    /\ TakesKeys
    /\ LET rest == IF password = << >> THEN << >>
                   ELSE SubSeq(password, 1, Len(password) - 1)
       IN  /\ password' = rest
           /\ ShowInput(IF rest # << >> THEN "backspace" ELSE "clear")
    /\ clearTimer' = FALSE
    /\ UNCHANGED << fixed, loopVars, authState, authTimer, failedAttempts,
                    pipeVars, childVars >>

KeyBackspace ==
    /\ TakesKeys
    /\ LET rest == IF password = << >> THEN << >>
                   ELSE SubSeq(password, 1, Len(password) - 1)
       IN  /\ password' = rest
           /\ ShowInput(IF rest # << >> THEN "backspace" ELSE "clear")
           /\ clearTimer' = (rest # << >>)
    /\ UNCHANGED << fixed, loopVars, authState, authTimer, failedAttempts,
                    pipeVars, childVars >>

(* Escape, ctrl-u, ctrl-c and ctrl-backspace.                              *)
KeyClear ==
    /\ TakesKeys
    /\ password' = << >>
    /\ ShowInput("clear")
    /\ clearTimer' = FALSE
    /\ UNCHANGED << fixed, loopVars, authState, authTimer, failedAttempts,
                    pipeVars, childVars >>

KeyModifier ==
    /\ TakesKeys
    /\ ShowInput("neutral")
    /\ clearTimer' = TRUE
    /\ UNCHANGED << fixed, loopVars, authState, password, authTimer,
                    failedAttempts, pipeVars, childVars >>

(* Mutant: Return is not blocked while a password is being verified.       *)
MaySubmitAlways == ~(ignoreEmpty /\ password = << >>)

(* submit_password returns at once for these two reasons.                  *)
MaySubmit ==
    /\ ~(ignoreEmpty /\ password = << >>)
    /\ authState # "validating"

(* Return, KP_Enter, ctrl-m, ctrl-d, ctrl-j: the password goes into the    *)
(* pipe and the buffer is wiped.                                           *)
SubmitWritten ==
    /\ TakesKeys /\ MaySubmit
    /\ failedAttempts + Outstanding < MaxAttempts
    /\ child # "exited"
    /\ requests' = Append(requests, password)
    /\ authState' = "validating"
    /\ inputState' = "idle" /\ inputTimer' = FALSE
    /\ password' = << >> /\ clearTimer' = FALSE
    /\ UNCHANGED << fixed, loopVars, authTimer, failedAttempts, replies,
                    childVars >>

(* The child is gone: write() fails with EPIPE, and the password is wiped  *)
(* all the same.                                                           *)
SubmitFails ==
    /\ TakesKeys /\ MaySubmit
    /\ child = "exited"
    /\ authState' = "invalid" /\ authTimer' = TRUE
    /\ inputState' = "idle" /\ inputTimer' = FALSE
    /\ password' = << >> /\ clearTimer' = FALSE
    /\ UNCHANGED << fixed, loopVars, failedAttempts, pipeVars, childVars >>

(* The same write when nothing in the process has set SIGPIPE to be        *)
(* ignored (GLib does when it opens a socket): the signal kills it.        *)
SubmitKills ==
    /\ TakesKeys /\ MaySubmit
    /\ child = "exited"
    /\ session' = "dead"
    /\ UNCHANGED << fixed, run, stage, revents, displayOk, sigusr, uiVars,
                    pipeVars, childVars >>

Key ==
    \/ \E c \in Letters : KeyLetter(c)
    \/ KeyBackspace
    \/ KeyClear
    \/ KeyModifier
    \/ SubmitWritten
    \/ SubmitFails
    \/ SubmitKills

-----------------------------------------------------------------------------
(* The callbacks of one loop iteration.                                    *)

(* poll() samples the reply pipe; the callbacks see that sample.           *)
Poll ==
    /\ session = "locked" /\ stage = "timers" /\ run
    /\ stage' = "display"
    /\ revents' = (IF replies # << >> THEN {"in"} ELSE {})
                  \cup (IF child = "exited" THEN {"hup"} ELSE {})
    /\ UNCHANGED << fixed, session, run, displayOk, sigusr, uiVars, pipeVars,
                    childVars >>

InDisplay == session = "locked" /\ stage = "display"

(* wl_display_dispatch returned; the key events above came before it.      *)
DisplayDone ==
    /\ InDisplay
    /\ stage' = "comm"
    /\ UNCHANGED << fixed, session, run, revents, displayOk, sigusr, uiVars,
                    pipeVars, childVars >>

(* wl_display_dispatch fails: the connection is gone.                      *)
DisplayError ==
    /\ InDisplay
    /\ displayOk' = FALSE /\ run' = FALSE
    /\ stage' = "comm"
    /\ UNCHANGED << fixed, session, revents, sigusr, uiVars, pipeVars,
                    childVars >>

(* wl_display_flush fails before poll(): the loop ends at once, and the    *)
(* unlock request that follows does not reach the compositor.              *)
FlushError ==
    /\ session = "locked" /\ stage = "timers" /\ run
    /\ displayOk' = FALSE
    /\ session' = "dead"
    /\ UNCHANGED << fixed, run, stage, revents, sigusr, uiVars, pipeVars,
                    childVars >>

InComm == session = "locked" /\ stage = "comm"

(* Mutant: any reply ends the lock.                                        *)
CommGrantAny ==
    /\ InComm /\ "in" \in revents
    /\ replies' = Tail(replies)
    /\ run' = FALSE
    /\ stage' = "term"
    /\ UNCHANGED << fixed, session, revents, displayOk, sigusr, uiVars,
                    requests, childVars >>

CommGrant ==
    /\ InComm /\ "in" \in revents /\ Head(replies)
    /\ replies' = Tail(replies)
    /\ run' = FALSE
    /\ stage' = "term"
    /\ UNCHANGED << fixed, session, revents, displayOk, sigusr, uiVars,
                    requests, childVars >>

(* Mutant: a refusal is counted but not shown.                             *)
CommRefuseSilent ==
    /\ InComm /\ "in" \in revents /\ ~Head(replies)
    /\ replies' = Tail(replies)
    /\ failedAttempts' = failedAttempts + 1
    /\ stage' = "term"
    /\ UNCHANGED << fixed, session, run, revents, displayOk, sigusr, authState,
                    authTimer, inputState, password, inputTimer, clearTimer,
                    requests, childVars >>

CommRefuse ==
    /\ InComm /\ "in" \in revents /\ ~Head(replies)
    /\ replies' = Tail(replies)
    /\ authState' = "invalid" /\ authTimer' = TRUE
    /\ failedAttempts' = failedAttempts + 1
    /\ stage' = "term"
    /\ UNCHANGED << fixed, session, run, revents, displayOk, sigusr,
                    inputState, password, inputTimer, clearTimer, requests,
                    childVars >>

(* Hang-up without data: "Password checking subprocess crashed; exiting."  *)
CommHangup ==
    /\ InComm /\ revents = {"hup"}
    /\ session' = "dead"
    /\ UNCHANGED << fixed, run, stage, revents, displayOk, sigusr, uiVars,
                    pipeVars, childVars >>

CommNothing ==
    /\ InComm /\ revents = {}
    /\ stage' = "term"
    /\ UNCHANGED << fixed, session, run, revents, displayOk, sigusr, uiVars,
                    pipeVars, childVars >>

Term ==
    /\ session = "locked" /\ stage = "term"
    /\ run' = IF sigusr THEN FALSE ELSE run
    /\ stage' = "timers"
    /\ UNCHANGED << fixed, session, revents, displayOk, sigusr, uiVars,
                    pipeVars, childVars >>

InTimers == session = "locked" /\ stage = "timers"

SetAuthIdle ==
    /\ InTimers /\ authTimer
    /\ authTimer' = FALSE
    /\ authState' = "idle"
    /\ UNCHANGED << fixed, loopVars, inputState, password, inputTimer,
                    clearTimer, failedAttempts, pipeVars, childVars >>

SetInputIdle ==
    /\ InTimers /\ inputTimer
    /\ inputTimer' = FALSE
    /\ inputState' = "idle"
    /\ UNCHANGED << fixed, loopVars, authState, password, authTimer,
                    clearTimer, failedAttempts, pipeVars, childVars >>

(* Mutant: the wipe shows "cleared" and starts no timer to hide it.        *)
ClearPasswordStays ==
    /\ InTimers /\ clearTimer
    /\ clearTimer' = FALSE
    /\ inputState' = "clear"
    /\ password' = << >>
    /\ UNCHANGED << fixed, loopVars, authState, authTimer, inputTimer,
                    failedAttempts, pipeVars, childVars >>

ClearPassword ==
    /\ InTimers /\ clearTimer
    /\ clearTimer' = FALSE
    /\ ShowInput("clear")
    /\ password' = << >>
    /\ UNCHANGED << fixed, loopVars, authState, authTimer, failedAttempts,
                    pipeVars, childVars >>

(* The loop ends: unlock_and_destroy, then a roundtrip.  Over a broken     *)
(* connection the request does not arrive and the session stays locked.    *)
LeaveLoop ==
    /\ InTimers /\ ~run
    /\ session' = IF displayOk THEN "unlocked" ELSE "dead"
    /\ UNCHANGED << fixed, run, stage, revents, displayOk, sigusr, uiVars,
                    pipeVars, childVars >>

Timers == SetAuthIdle \/ SetInputIdle \/ ClearPassword

Iteration ==
    \/ Poll
    \/ DisplayDone
    \/ CommGrant \/ CommRefuse \/ CommHangup \/ CommNothing
    \/ Term
    \/ LeaveLoop

-----------------------------------------------------------------------------
(* The child: run_pw_backend_child.                                        *)

ChildRead ==
    /\ session = "locked" /\ child = "reading" /\ requests # << >>
    /\ checked' = Head(requests)
    /\ requests' = Tail(requests)
    /\ child' = "checking"
    /\ UNCHANGED << fixed, loopVars, uiVars, replies >>

(* Mutant: the PAM child takes the next request whatever the verdict.      *)
AfterReplyGoesOn(success) ==
    CASE backend = "shadow" -> "sleeping"
      [] OTHER -> "reading"

(* What the child does after a reply: the PAM child stops after a success, *)
(* the shadow child sleeps two seconds after every check.                  *)
AfterReply(success) ==
    CASE backend = "shadow" -> "sleeping"
      [] backend = "pam" /\ success -> "exited"
      [] OTHER -> "reading"

ChildReply(success) ==
    /\ session = "locked" /\ child = "checking"
    /\ replies' = Append(replies, success)
    /\ child' = AfterReply(success)
    /\ checked' = << >>
    /\ UNCHANGED << fixed, loopVars, uiVars, requests >>

ChildAccepts == checked = Secret /\ ChildReply(TRUE)

(* PAM may refuse a right password too (a locked account, a module error). *)
ChildRefuses ==
    /\ (checked # Secret \/ backend = "pam")
    /\ ChildReply(FALSE)

(* Mutant: the child reads again only when nothing is queued.              *)
ChildWakesIdle ==
    /\ session = "locked" /\ child = "sleeping" /\ requests = << >>
    /\ child' = "reading"
    /\ UNCHANGED << fixed, loopVars, uiVars, pipeVars, checked >>

ChildWakes ==
    /\ session = "locked" /\ child = "sleeping"
    /\ child' = "reading"
    /\ UNCHANGED << fixed, loopVars, uiVars, pipeVars, checked >>

(* pam_start fails, a PAM module aborts, crypt() fails, or the child is     *)
(* killed.                                                                 *)
ChildCrashes ==
    /\ session = "locked" /\ child # "exited"
    /\ child' = "exited"
    /\ checked' = << >>
    /\ UNCHANGED << fixed, loopVars, uiVars, pipeVars >>

(* The locker is gone: the child reads end of file, or its write fails.    *)
ChildEOF ==
    /\ session # "locked" /\ child # "exited"
    /\ child' = "exited"
    /\ checked' = << >>
    /\ UNCHANGED << fixed, loopVars, uiVars, pipeVars >>

ChildStep == ChildRead \/ ChildAccepts \/ ChildRefuses \/ ChildWakes \/ ChildEOF

(* Somebody sends SIGUSR1 to the locker.                                   *)
Signal ==
    /\ session = "locked" /\ ~sigusr
    /\ sigusr' = TRUE
    /\ UNCHANGED << fixed, session, run, stage, revents, displayOk, uiVars,
                    pipeVars, childVars >>

-----------------------------------------------------------------------------

Next ==
    \/ Key
    \/ Iteration
    \/ DisplayError
    \/ FlushError
    \/ Timers
    \/ ChildStep
    \/ ChildCrashes
    \/ Signal

Spec == Init /\ [][Next]_vars

(* The loop keeps iterating (poll() returns at the latest when the 50 ms   *)
(* timer of glib_pump expires) and a check ends.  An armed timer expires:  *)
(* the loop reaches its timer pass again and again, hence strong fairness. *)
(* A key restarts the input timers; the one property that needs their      *)
(* fairness speaks of the behaviours in which the user stops typing.       *)
Fairness ==
    /\ WF_vars(Iteration)
    /\ WF_vars(ChildStep)
    /\ SF_vars(SetAuthIdle)
    /\ SF_vars(SetInputIdle)
    /\ SF_vars(ClearPassword)

FairSpec == Spec /\ Fairness

-----------------------------------------------------------------------------
(* Properties.                                                             *)

LoopTypeOK ==
    /\ ignoreEmpty \in BOOLEAN /\ backend \in Backends
    /\ session \in {"locked", "unlocked", "dead"}
    /\ run \in BOOLEAN /\ displayOk \in BOOLEAN /\ sigusr \in BOOLEAN
    /\ stage \in {"display", "comm", "term", "timers"}
    /\ revents \subseteq {"in", "hup"}

(* A password that the buffer can hold with its final NUL.                 *)
Fits(p) == p \in Passwords /\ Len(p) < BufferLen

UiTypeOK ==
    /\ authState \in AuthStates /\ inputState \in InputStates
    /\ Fits(password)
    /\ authTimer \in BOOLEAN /\ inputTimer \in BOOLEAN
    /\ clearTimer \in BOOLEAN
    /\ failedAttempts \in Nat

PipeTypeOK ==
    /\ requests \in Seq(Passwords) /\ replies \in Seq(BOOLEAN)
    /\ child \in {"reading", "checking", "sleeping", "exited"}
    /\ checked \in Passwords

TypeOK == LoopTypeOK /\ UiTypeOK /\ PipeTypeOK

(* Nothing lingers on a locked screen: a typed password always has its     *)
(* ten-second wipe timer armed, and every message of the indicator has the *)
(* timer that hides it ("other states decay to this after time").          *)
NothingLingers ==
    /\ password # << >> => clearTimer
    /\ inputState # "idle" => inputTimer
    /\ authState = "invalid" => authTimer

(* While the indicator says that a password is being verified (and Return  *)
(* is ignored) an answer is on its way, or the child's end is about to be  *)
(* noticed: the user is never locked out of trying again.                  *)
ValidatingIsAnswered ==
    session = "locked" /\ run /\ authState = "validating"
        => Outstanding > 0 \/ child = "exited"

(* Attempts can pile up in the pipe, because the timer of an earlier       *)
(* refusal ends the state that blocks Return; but never more than one for  *)
(* each refused attempt: the user cannot flood the backend.                *)
QueueBoundedByFailures == Outstanding <= failedAttempts + 1

(* PAM: a success is the last verdict ("Unsuccessful requests may be       *)
(* queued after a successful one; do not process them").                   *)
SuccessIsLast ==
    backend = "pam" =>
        \A i \in 1 .. Len(replies) :
            replies[i] => i = Len(replies) /\ child = "exited"

(* The indicator is idle only when "nothing happening": no attempt is      *)
(* being checked.  The code does not keep this promise.                    *)
IdleMeansNothingPending ==
    session = "locked" /\ run /\ authState = "idle" => Outstanding = 0

(* No attempt is forgotten: while one is unanswered, the next verdict      *)
(* comes or the locker ends.                                               *)
EveryAttemptIsAnswered ==
    \A n \in 0 .. MaxAttempts :
        Outstanding > 0 /\ failedAttempts = n
            ~> failedAttempts > n \/ session # "locked"

(* When the user stops typing, the buffer is wiped and the indicator       *)
(* becomes idle and stays so: no timer is lost on the way.                 *)
KeysStop == <>[][~Key]_vars
AtRest   == password = << >> /\ inputState = "idle" /\ authState = "idle"
ComesToRest == KeysStop => <>[](session # "locked" \/ AtRest)

(* The promise of the lock, LockPromise, read in this state: the attempts  *)
(* that are not answered yet, oldest first, each right or wrong.           *)
Right(p) == p = Secret
Pending ==
    replies
    \o (IF child = "checking" THEN << Right(checked) >> ELSE << >>)
    \o [i \in 1 .. Len(requests) |-> Right(requests[i])]

Promise == INSTANCE LockPromise WITH
    pending   <- Pending,
    refused   <- failedAttempts,
    released  <- ~run,
    connected <- displayOk,
    signalled <- sigusr

Implements == Promise!Spec
=============================================================================
