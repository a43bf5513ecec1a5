----------------------------- MODULE WifiConnect -----------------------------
(***************************************************************************)
(* Connecting to a Wi-Fi network: network_wifi_connect with its ConnectCtx *)
(* (panel/src/logic/network_actions.c) and the password prompt             *)
(* (panel/src/ui/control_center_ui.c).                                     *)
(*                                                                         *)
(* The prompt is a gtk_dialog_run: a main loop inside the handler that     *)
(* opened it, which may be the callback of an attempt that failed.  The    *)
(* prompts are a stack; signals and timeouts go on inside them.            *)
(***************************************************************************)
EXTENDS Naturals, Sequences

CONSTANT Attempts  \* the ConnectCtx and ConnectAttempt structures

NoAttempt == 0
ASSUME AttemptsAssumption == Attempts \subseteq Nat \ {NoAttempt}

VARIABLES
    stage,    \* stage[a]: "none", "watching" (subscribed), "prompting" (its
              \* callback runs a prompt), "twice" (two of them), "over" (freed)
    secured,  \* secured[a]: ConnectAttempt.secured
    conn,     \* conn[a]: what NetworkManager has: "none", "activating",
              \* "active", "failed" or, after it was active, "dropped"
    news,     \* news[a]: states of PropertiesChanged on their way
    timer,    \* timer[a]: the guard of 30 s is armed
    reports,  \* reports[a]: the arguments of the calls of cb
    prompts,  \* << attempt whose callback runs it, waits for the user >>
    broken    \* memory that was freed has been used

wifiVars == << stage, secured, conn, news, timer, reports, prompts, broken >>

WifiInit ==
    /\ stage = [a \in Attempts |-> "none"]
    /\ secured = [a \in Attempts |-> FALSE]
    /\ conn = [a \in Attempts |-> "none"]
    /\ news = [a \in Attempts |-> << >>]
    /\ timer = [a \in Attempts |-> FALSE]
    /\ reports = [a \in Attempts |-> << >>]
    /\ prompts = << >>
    /\ broken = FALSE

Inner == prompts[Len(prompts)]
Outer == SubSeq(prompts, 1, Len(prompts) - 1)

(* A main loop runs: that of main or of the innermost prompt.              *)
Loops == ~broken /\ \A i \in {Len(prompts)} \ {0} : prompts[i][2]

Fresh(a) == stage[a] = "none" /\ \A b \in Attempts : b < a => stage[b] # "none"

-----------------------------------------------------------------------------
(* cb is called: wifi_connect_callback_with_prompt asks again for the      *)
(* password of a secured network, and frees the attempt otherwise.  below  *)
(* are the prompts that run already.                                       *)
Report(a, ok, isSecured, below) ==
    LET asks == ~ok /\ isSecured IN
    /\ reports' = [reports EXCEPT ![a] = Append(@, ok)]
    /\ prompts' = IF asks THEN Append(below, << a, TRUE >>) ELSE below
    /\ stage' = [stage EXCEPT ![a] =
                    IF ~asks THEN "over"
                    ELSE IF @ = "prompting" THEN "twice" ELSE "prompting"]

(* network_wifi_connect: refused at once; or activated, and only then      *)
(* watched, so that a change before the subscription is not heard.         *)
Refused(a, isSecured, below) ==
    /\ Report(a, FALSE, isSecured, below)
    /\ UNCHANGED << conn, timer >>

Watched(a, below) ==
    /\ \E state \in {"activating", "active", "failed"} :
          conn' = [conn EXCEPT ![a] = state]
    /\ stage' = [stage EXCEPT ![a] = "watching"]
    /\ timer' = [timer EXCEPT ![a] = TRUE]
    /\ prompts' = below
    /\ UNCHANGED reports

NetworkWifiConnect(isSecured, below) ==
    \E a \in Attempts :
        /\ Fresh(a)
        /\ secured' = [secured EXCEPT ![a] = isSecured]
        /\ Refused(a, isSecured, below) \/ Watched(a, below)
        /\ UNCHANGED << news, broken >>

-----------------------------------------------------------------------------
(* The user.  A prompt is modal, the innermost has the input.              *)

(* on_wifi_network_connect_item: an open or saved network.                 *)
ClickKnown(isSecured) ==
    /\ Loops /\ prompts = << >>
    /\ NetworkWifiConnect(isSecured, << >>)

(* on_wifi_network_connect_item: a secured network without a profile.      *)
ClickUnknown ==
    /\ Loops /\ prompts = << >>
    /\ prompts' = << << NoAttempt, TRUE >> >>
    /\ UNCHANGED << stage, secured, conn, news, timer, reports, broken >>

(* ask_for_wifi_password_and_connect goes on with the answer.              *)
AnswerPrompt(accept) ==
    /\ Loops /\ prompts # << >>
    /\ LET below == Append(Outer, << Inner[1], FALSE >>) IN
       IF accept
       THEN NetworkWifiConnect(TRUE, below)
       ELSE /\ prompts' = below
            /\ UNCHANGED << stage, secured, conn, news, timer, reports, broken >>

(* The prompt is destroyed and its caller goes on: the callback frees the  *)
(* attempt, and whoever called it the context with its guard.  When two    *)
(* prompts of one attempt were open, the outer one still uses both.        *)
PromptReturns ==
    /\ ~broken /\ prompts # << >> /\ ~Inner[2]
    /\ prompts' = Outer
    /\ LET of == {Inner[1]} \ {NoAttempt} IN
       /\ broken' = (\E a \in of : stage[a] = "twice")
       /\ stage' = [a \in Attempts |-> IF a \in of THEN "over" ELSE stage[a]]
       /\ timer' = [a \in Attempts |-> timer[a] /\ a \notin of]
    /\ UNCHANGED << secured, conn, news, reports >>

-----------------------------------------------------------------------------
(* NetworkManager.                                                         *)

ConnectionChanges(a, state) ==
    /\ stage[a] = "watching"
    /\ << conn[a], state >> \in {<< "activating", "active" >>,
                                 << "activating", "failed" >>,
                                 << "active", "dropped" >>}
    /\ conn' = [conn EXCEPT ![a] = state]
    /\ news' = [news EXCEPT ![a] = Append(@, state)]
    /\ UNCHANGED << stage, secured, timer, reports, prompts, broken >>

(* Mutant: any change of the state is a success.                           *)
OnActiveConnChangedAny(a) ==
    /\ Loops /\ stage[a] = "watching" /\ news[a] # << >>
    /\ Report(a, TRUE, secured[a], prompts)
    /\ news' = [news EXCEPT ![a] = << >>]
    /\ timer' = [timer EXCEPT ![a] = FALSE]
    /\ UNCHANGED << secured, conn, broken >>

(* on_active_conn_props_changed: the subscription ends; the guard goes     *)
(* with the context, after the callback.                                   *)
OnActiveConnChanged(a) ==
    LET ok == Head(news[a]) = "active" IN
    /\ Loops /\ stage[a] = "watching" /\ news[a] # << >>
    /\ Report(a, ok, secured[a], prompts)
    /\ news' = [news EXCEPT ![a] = << >>]
    /\ timer' = [timer EXCEPT ![a] = ~ok /\ secured[a]]
    /\ UNCHANGED << secured, conn, broken >>

(* on_connect_timeout: also while the callback of the same attempt still   *)
(* runs its prompt.                                                        *)
OnConnectTimeout(a) ==
    /\ Loops /\ timer[a]
    /\ Report(a, FALSE, secured[a], prompts)
    /\ news' = [news EXCEPT ![a] = << >>]
    /\ timer' = [timer EXCEPT ![a] = FALSE]
    /\ UNCHANGED << secured, conn, broken >>

-----------------------------------------------------------------------------
(* Properties.                                                             *)

(* An attempt is reported once, and rightly: success only for a connection *)
(* that was up, failure for one that is up only when the 30 s are over.    *)
(* The one way to a second report is that the guard fires while the user   *)
(* still answers the prompt of the first.                                  *)
ReportIsRight(a) ==
    LET ok == reports'[a][Len(reports'[a])] IN
    \/ /\ reports[a] = << >>
       /\ ok => conn[a] \in {"active", "dropped"}
       /\ ~ok => conn'[a] # "active" \/ OnConnectTimeout(a)
    \/ /\ Len(reports[a]) = 1 /\ ~reports[a][1] /\ ~ok
       /\ OnConnectTimeout(a) /\ secured[a]
       /\ \E i \in 1 .. Len(prompts) : prompts[i][1] = a

AttemptsAreReported ==
    [][\A a \in Attempts : reports'[a] # reports[a] => ReportIsRight(a)]_wifiVars
=============================================================================
