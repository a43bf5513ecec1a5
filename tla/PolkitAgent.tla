----------------------------- MODULE PolkitAgent -----------------------------
(***************************************************************************)
(* The polkit authentication agent (auth/src/auth.c, auth_ui.c).           *)
(*                                                                         *)
(* One GLib main loop.  Every dialog runs a main loop of its own inside    *)
(* the handler of its request, so that a request which arrives meanwhile   *)
(* is handled inside the dialog of the one before: the dialogs are a       *)
(* stack, and only the innermost one gets input (it is modal) and can      *)
(* return.  The conversations with PAM are the business of a helper that   *)
(* libpolkit-agent starts; its signals arrive in whichever loop is         *)
(* running.                                                                *)
(***************************************************************************)
EXTENDS Naturals, Sequences

CONSTANTS
    Requests,    \* the BeginAuthentication calls of polkitd
    Passwords,   \* what the user may type and the dialog accepts
    Right,       \* the password of the user
    Empty,       \* the empty string
    MaxPrompts   \* model bound: prompts of PAM in one conversation

ASSUME TextAssumption == Right \in Passwords /\ Empty \notin Passwords
ASSUME PromptAssumption == MaxPrompts \in Nat

VARIABLES
    alive,      \* main has not returned
    signalled,  \* SIGINT or SIGTERM came: the outermost loop was quit
    stage,      \* stage[r]: "none", "called", "dialog", "accepted",
                \* "refused", "session", "answered"
    stack,      \* the dialogs whose loops run, the innermost last
    password,   \* password[r]: the buffer of the request
    heard,      \* heard[r]: what PAM was answered
    cancelled,  \* cancelled[r]: polkitd cancelled the GCancellable
    answer,     \* answer[r]: the reply to polkitd: "none", "granted", "denied"
    typed       \* typed[r]: what the user typed for r and accepted

vars == << alive, signalled, stage, stack, password, heard, cancelled, answer,
           typed >>

Top(r) == stack # << >> /\ stack[Len(stack)] = r
Pop    == SubSeq(stack, 1, Len(stack) - 1)

Init ==
    /\ alive = TRUE /\ signalled = FALSE
    /\ stage = [r \in Requests |-> "none"]
    /\ stack = << >>
    /\ password = [r \in Requests |-> Empty]
    /\ heard = [r \in Requests |-> << >>]
    /\ cancelled = [r \in Requests |-> FALSE]
    /\ answer = [r \in Requests |-> "none"]
    /\ typed = [r \in Requests |-> Empty]

-----------------------------------------------------------------------------
(* polkitd.                                                                *)

BeginAuthentication(r) ==
    /\ alive /\ stage[r] = "none"
    /\ stage' = [stage EXCEPT ![r] = "called"]
    /\ UNCHANGED << alive, signalled, stack, password, heard, cancelled,
                    answer, typed >>

(* CancelAuthentication cancels the GCancellable; nobody listens to it.    *)
CancelAuthentication(r) ==
    /\ alive /\ stage[r] \notin {"none", "answered"}
    /\ cancelled' = [cancelled EXCEPT ![r] = TRUE]
    /\ UNCHANGED << alive, signalled, stage, stack, password, heard, answer,
                    typed >>

-----------------------------------------------------------------------------
(* vaxp_agent_initiate_authentication_real, up to the nested loop.         *)

Deny(r) ==
    /\ stage' = [stage EXCEPT ![r] = "answered"]
    /\ answer' = [answer EXCEPT ![r] = "denied"]

(* No identities, no memory, no window.                                    *)
InitiateFails(r) ==
    /\ alive /\ stage[r] = "called"
    /\ Deny(r)
    /\ UNCHANGED << alive, signalled, stack, password, heard, cancelled,
                    typed >>

OpenDialog(r) ==
    /\ alive /\ stage[r] = "called"
    /\ stage' = [stage EXCEPT ![r] = "dialog"]
    /\ stack' = Append(stack, r)
    /\ UNCHANGED << alive, signalled, password, heard, cancelled, answer,
                    typed >>

(* accept_dialog: empty and overlong text is ignored; otherwise the text   *)
(* is copied and the loop of the dialog quit.                              *)
AcceptDialog(r, text) ==
    /\ alive /\ Top(r) /\ stage[r] = "dialog"
    /\ stage' = [stage EXCEPT ![r] = "accepted"]
    /\ password' = [password EXCEPT ![r] = text]
    /\ typed' = [typed EXCEPT ![r] = text]
    /\ UNCHANGED << alive, signalled, stack, heard, cancelled, answer >>

(* cancel_dialog, Escape, the window is closed.                            *)
CancelDialog(r) ==
    /\ alive /\ Top(r) /\ stage[r] = "dialog"
    /\ stage' = [stage EXCEPT ![r] = "refused"]
    /\ UNCHANGED << alive, signalled, stack, password, heard, cancelled,
                    answer, typed >>

(* Mutant: the dialog is left on screen.                                   *)
ReturnsOpen(r, result) ==
    alive /\ Top(r) /\ stage[r] = result /\ stack' = stack

(* The loop of the innermost dialog returns (a loop further out that was   *)
(* quit has to wait for it), and the rest of the handler runs.             *)
Returns(r, result) ==
    alive /\ Top(r) /\ stage[r] = result /\ stack' = Pop

(* Mutant: a refusal is not reported to polkitd.                           *)
ReturnRefusedSilent(r) ==
    /\ Returns(r, "refused")
    /\ password' = [password EXCEPT ![r] = Empty]
    /\ UNCHANGED << alive, signalled, stage, heard, cancelled, answer, typed >>

ReturnRefused(r) ==
    /\ Returns(r, "refused")
    /\ Deny(r)
    /\ password' = [password EXCEPT ![r] = Empty]
    /\ UNCHANGED << alive, signalled, heard, cancelled, typed >>

ReturnAccepted(r) ==
    /\ Returns(r, "accepted")
    /\ stage' = [stage EXCEPT ![r] = "session"]
    /\ UNCHANGED << alive, signalled, password, heard, cancelled, answer,
                    typed >>

(* Mutant: the password of a request without a session is not wiped.       *)
NoSessionKeeps(r) ==
    /\ Returns(r, "accepted")
    /\ Deny(r)
    /\ UNCHANGED << alive, signalled, password, heard, cancelled, typed >>

(* polkit_agent_session_new fails.                                         *)
NoSession(r) ==
    /\ Returns(r, "accepted")
    /\ Deny(r)
    /\ password' = [password EXCEPT ![r] = Empty]
    /\ UNCHANGED << alive, signalled, heard, cancelled, typed >>

-----------------------------------------------------------------------------
(* The session.                                                            *)

(* on_request: the password is the answer to the first prompt; then it is  *)
(* wiped, and a second prompt gets an empty answer.                        *)
OnRequest(r) ==
    /\ alive /\ stage[r] = "session" /\ Len(heard[r]) < MaxPrompts
    /\ heard' = [heard EXCEPT ![r] = Append(@, password[r])]
    /\ password' = [password EXCEPT ![r] = Empty]
    /\ UNCHANGED << alive, signalled, stage, stack, cancelled, answer, typed >>

(* PAM grants after the right password, or without asking (another factor).*)
PamGrants(r) == heard[r] # << >> => heard[r][1] = Right

(* Mutant: the task does not know the GCancellable.                        *)
OnCompletedDeaf(r, gained) ==
    /\ alive /\ stage[r] = "session"
    /\ gained \in {g \in BOOLEAN : g => PamGrants(r)}
    /\ stage' = [stage EXCEPT ![r] = "answered"]
    /\ answer' = [answer EXCEPT ![r] = IF gained THEN "granted" ELSE "denied"]
    /\ password' = [password EXCEPT ![r] = Empty]
    /\ UNCHANGED << alive, signalled, stack, heard, cancelled, typed >>

(* on_completed and ..._finish_real: a task whose GCancellable is          *)
(* cancelled reports that, whatever PAM said.  The session takes the       *)
(* password with it.                                                       *)
OnCompleted(r, gained) ==
    /\ alive /\ stage[r] = "session"
    /\ gained \in {g \in BOOLEAN : g => PamGrants(r)}
    /\ stage' = [stage EXCEPT ![r] = "answered"]
    /\ answer' = [answer EXCEPT ![r] =
                     IF gained /\ ~cancelled[r] THEN "granted" ELSE "denied"]
    /\ password' = [password EXCEPT ![r] = Empty]
    /\ UNCHANGED << alive, signalled, stack, heard, cancelled, typed >>

-----------------------------------------------------------------------------
(* main.                                                                   *)

(* on_unix_signal quits the outermost loop, and no dialog's.               *)
Signal ==
    /\ alive /\ ~signalled
    /\ signalled' = TRUE
    /\ UNCHANGED << alive, stage, stack, password, heard, cancelled, answer,
                    typed >>

(* The outermost loop returns when no handler is running: main             *)
(* unregisters and ends, and with it every request it has not answered.    *)
Leave ==
    /\ alive /\ signalled /\ stack = << >>
    /\ alive' = FALSE
    /\ UNCHANGED << signalled, stage, stack, password, heard, cancelled,
                    answer, typed >>

User(r)   == (\E text \in Passwords : AcceptDialog(r, text)) \/ CancelDialog(r)
Return(r) == ReturnRefused(r) \/ ReturnAccepted(r) \/ NoSession(r)
Helper(r) == OnRequest(r) \/ \E gained \in BOOLEAN : OnCompleted(r, gained)
Begin(r)  == InitiateFails(r) \/ OpenDialog(r)

Next ==
    \/ \E r \in Requests :
          \/ BeginAuthentication(r) \/ CancelAuthentication(r)
          \/ Begin(r) \/ User(r) \/ Return(r) \/ Helper(r)
    \/ Signal
    \/ Leave

Spec == Init /\ [][Next]_vars

(* The loop dispatches what has arrived; PAM's conversation ends; the user *)
(* decides the dialog that has the input.                                  *)
Fairness ==
    /\ \A r \in Requests :
          WF_vars(Begin(r)) /\ WF_vars(User(r))
          /\ WF_vars(Return(r)) /\ WF_vars(Helper(r))
    /\ WF_vars(Leave)

FairSpec == Spec /\ Fairness

-----------------------------------------------------------------------------
(* Properties.                                                             *)

Texts  == Passwords \cup {Empty}
Stages == {"none", "called", "dialog", "accepted", "refused", "session",
           "answered"}

TypeOK ==
    /\ alive \in BOOLEAN /\ signalled \in BOOLEAN
    /\ stage \in [Requests -> Stages]
    /\ stack \in Seq(Requests)
    /\ password \in [Requests -> Texts]
    /\ heard \in [Requests -> Seq(Texts)]
    /\ cancelled \in [Requests -> BOOLEAN]
    /\ answer \in [Requests -> {"none", "granted", "denied"}]
    /\ typed \in [Requests -> Texts]

(* The dialogs on screen are those whose handlers are running.             *)
OnScreen(r) == stage[r] \in {"dialog", "accepted", "refused"}
DialogsAreStacked ==
    /\ \A r \in Requests : OnScreen(r) <=> \E i \in 1 .. Len(stack) : stack[i] = r
    /\ \A i, j \in 1 .. Len(stack) : stack[i] = stack[j] => i = j

(* However requests, dialogs and conversations interleave, a password is   *)
(* in the request's buffer only from the moment the user accepts the       *)
(* dialog to PAM's first prompt or the end of the request, and PAM hears   *)
(* the password of the request's own dialog once, and only empty answers   *)
(* after it.  (The entry's own copy, which the dialog overwrites when its  *)
(* loop returns, is not modelled.)                                         *)
SecretsStayPrivate ==
    \A r \in Requests :
        /\ password[r] # Empty =>
              /\ stage[r] \in {"accepted", "session"} /\ heard[r] = << >>
              /\ password[r] = typed[r]
        /\ \A i \in 1 .. Len(heard[r]) :
              heard[r][i] = IF i = 1 THEN typed[r] ELSE Empty

(* The agent keeps PolkitPromise.  A request that is not answered when the *)
(* agent goes is one polkitd denies.                                       *)
Outcome(r) ==
    CASE answer[r] # "none" -> answer[r]
      [] answer[r] = "none" /\ stage[r] = "none" -> "none"
      [] OTHER -> IF alive THEN "asked" ELSE "denied"

Promise == INSTANCE PolkitPromise WITH
    outcome   <- [r \in Requests |-> Outcome(r)],
    consent   <- [r \in Requests |-> typed[r] # Empty],
    withdrawn <- cancelled

Implements == Promise!Spec

(* Every request is answered in the end, also the one whose dialog waits   *)
(* under another one, and after a signal the agent ends; both as soon as   *)
(* the open dialogs are decided.                                           *)
RequestsEnd ==
    /\ \A r \in Requests :
          stage[r] = "called" ~> stage[r] = "answered" \/ ~alive
    /\ signalled ~> ~alive
=============================================================================
