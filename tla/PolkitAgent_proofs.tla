------------------------- MODULE PolkitAgent_proofs -------------------------
(***************************************************************************)
(* Theorems about PolkitAgent for any number of requests, passwords and    *)
(* prompts: types, the stack of dialogs, the whereabouts of passwords, and *)
(* the refinement of PolkitPromise.                                        *)
(***************************************************************************)
EXTENDS PolkitAgent, SequenceTheorems, TLAPS

-----------------------------------------------------------------------------
(* The inductive invariant.                                                *)

Heard(r) ==
    \A i \in 1 .. Len(heard[r]) : heard[r][i] = IF i = 1 THEN typed[r] ELSE Empty

(* Where the password of r is at each stage, and when r is answered.       *)
Private(r) ==
    /\ stage[r] \in {"none", "called", "dialog", "refused", "answered"} =>
          password[r] = Empty
    /\ stage[r] \in {"none", "called", "dialog", "refused"} =>
          heard[r] = << >> /\ typed[r] = Empty
    /\ stage[r] = "accepted" =>
          heard[r] = << >> /\ password[r] = typed[r] /\ typed[r] \in Passwords
    /\ stage[r] = "session" =>
          /\ typed[r] \in Passwords
          /\ password[r] = IF heard[r] = << >> THEN typed[r] ELSE Empty
    /\ answer[r] # "none" <=> stage[r] = "answered"
    /\ Heard(r)

IInv ==
    /\ TypeOK
    /\ DialogsAreStacked
    /\ \A r \in Requests : Private(r)

-----------------------------------------------------------------------------
(* Types.                                                                  *)

LEMMA PopTyped ==
    ASSUME NEW S, NEW s \in Seq(S), s # << >>
    PROVE  /\ SubSeq(s, 1, Len(s) - 1) \in Seq(S)
           /\ Len(SubSeq(s, 1, Len(s) - 1)) = Len(s) - 1
           /\ \A i \in 1 .. Len(s) - 1 : SubSeq(s, 1, Len(s) - 1)[i] = s[i]
           /\ Len(s) \in Nat \ {0}
<1>1. Len(s) \in Nat \ {0}
    BY EmptySeq, LenProperties
<1> DEFINE n == Len(s) - 1
<1>2. n \in Nat /\ \A i \in 1 .. n : s[i] \in S
    BY <1>1, ElementOfSeq
<1> HIDE DEF n
<1>3. /\ SubSeq(s, 1, n) \in Seq(S)
      /\ Len(SubSeq(s, 1, n)) = IF 1 <= n THEN n - 1 + 1 ELSE 0
      /\ \A i \in 1 .. n - 1 + 1 : SubSeq(s, 1, n)[i] = s[1 + i - 1]
    BY <1>2, SubSeqProperties
<1>4. /\ SubSeq(s, 1, n) \in Seq(S)
      /\ Len(SubSeq(s, 1, n)) = n
      /\ \A i \in 1 .. n : SubSeq(s, 1, n)[i] = s[i]
    BY <1>2, <1>3
<1> QED BY <1>1, <1>4 DEF n

LEMMA InitTyped == Init => TypeOK
    BY TextAssumption, EmptySeq DEF Init, TypeOK, Stages, Texts

LEMMA StepTyped == TypeOK /\ [Next]_vars => TypeOK'
<1> SUFFICES ASSUME TypeOK, [Next]_vars PROVE TypeOK'
    OBVIOUS
<1> USE DEF TypeOK, Stages, Texts
<1>1. ASSUME NEW r \in Requests, BeginAuthentication(r) PROVE TypeOK'
    BY <1>1 DEF BeginAuthentication
<1>2. ASSUME NEW r \in Requests, CancelAuthentication(r) PROVE TypeOK'
    BY <1>2 DEF CancelAuthentication
<1>3. ASSUME NEW r \in Requests, InitiateFails(r) PROVE TypeOK'
    BY <1>3 DEF InitiateFails, Deny
<1>4. ASSUME NEW r \in Requests, OpenDialog(r) PROVE TypeOK'
    BY <1>4 DEF OpenDialog
<1>5. ASSUME NEW r \in Requests, NEW text \in Passwords, AcceptDialog(r, text)
      PROVE TypeOK'
    BY <1>5 DEF AcceptDialog
<1>6. ASSUME NEW r \in Requests, CancelDialog(r) PROVE TypeOK'
    BY <1>6 DEF CancelDialog
<1>7. ASSUME NEW r \in Requests, Return(r) PROVE TypeOK'
    <2>1. stack # << >> /\ stack' = SubSeq(stack, 1, Len(stack) - 1)
        BY <1>7
        DEF Return, ReturnRefused, ReturnAccepted, NoSession, Returns, Top, Pop
    <2>2. stack \in Seq(Requests)
        OBVIOUS
    <2>3. stack' \in Seq(Requests)
        BY <2>1, <2>2, PopTyped
    <2> QED
        BY <1>7, <2>3
        DEF Return, ReturnRefused, ReturnAccepted, NoSession, Deny
<1>8. ASSUME NEW r \in Requests, OnRequest(r) PROVE TypeOK'
    BY <1>8 DEF OnRequest
<1>9. ASSUME NEW r \in Requests, NEW g \in BOOLEAN, OnCompleted(r, g)
      PROVE TypeOK'
    BY <1>9 DEF OnCompleted
<1>10. CASE Signal
    BY <1>10 DEF Signal
<1>11. CASE Leave
    BY <1>11 DEF Leave
<1>12. CASE UNCHANGED vars
    BY <1>12 DEF vars
<1> QED
    BY <1>1, <1>2, <1>3, <1>4, <1>5, <1>6, <1>7, <1>8, <1>9, <1>10, <1>11, <1>12
    DEF Next, Begin, User, Helper

-----------------------------------------------------------------------------
(* The stack of dialogs.                                                   *)

LEMMA InitStacked == Init => DialogsAreStacked
<1> SUFFICES ASSUME Init PROVE DialogsAreStacked
    OBVIOUS
<1>1. Len(stack) = 0
    BY EmptySeq DEF Init
<1> QED BY <1>1 DEF Init, DialogsAreStacked, OnScreen

(* A step that neither touches the stack nor moves a request on or off the *)
(* screen.                                                                 *)
LEMMA SameStack ==
    ASSUME DialogsAreStacked, stack' = stack,
           \A r \in Requests : OnScreen(r)' <=> OnScreen(r)
    PROVE  DialogsAreStacked'
    BY DEF DialogsAreStacked

LEMMA PushStacks ==
    ASSUME TypeOK, DialogsAreStacked, NEW r \in Requests, OpenDialog(r)
    PROVE  DialogsAreStacked'
<1> DEFINE n == Len(stack)
<1>1. n \in Nat
    BY LenProperties DEF TypeOK
<1>2. stack' = Append(stack, r) /\ stack \in Seq(Requests)
    BY DEF OpenDialog, TypeOK
<1>3. /\ Len(stack') = n + 1
      /\ \A i \in 1 .. n : stack'[i] = stack[i]
      /\ stack'[n + 1] = r
    BY <1>2, AppendProperties
<1>4. /\ ~OnScreen(r) /\ OnScreen(r)'
      /\ \A s \in Requests \ {r} : OnScreen(s)' <=> OnScreen(s)
    BY DEF OpenDialog, OnScreen, TypeOK
<1>5. \A i \in 1 .. n : stack[i] # r
    BY <1>4 DEF DialogsAreStacked
<1> HIDE DEF n
<1>6. \A i \in 1 .. n + 1 : i \in 1 .. n \/ i = n + 1
    BY <1>1
<1>7. \A i \in 1 .. n : i \in 1 .. n + 1
    BY <1>1
<1>8. n + 1 \in 1 .. n + 1
    BY <1>1
<1>9. \A s \in Requests : OnScreen(s)' <=> \E i \in 1 .. n + 1 : stack'[i] = s
    BY <1>3, <1>4, <1>5, <1>6, <1>7, <1>8 DEF DialogsAreStacked, n
<1>10. \A i, j \in 1 .. n + 1 : stack'[i] = stack'[j] => i = j
    BY <1>3, <1>5, <1>6 DEF DialogsAreStacked, n
<1> QED BY <1>3, <1>9, <1>10 DEF DialogsAreStacked

LEMMA PopStacks ==
    ASSUME TypeOK, DialogsAreStacked, NEW r \in Requests, Return(r)
    PROVE  DialogsAreStacked'
<1> DEFINE n == Len(stack)
<1>1. stack # << >> /\ stack[n] = r /\ stack' = SubSeq(stack, 1, n - 1)
    BY DEF Return, ReturnRefused, ReturnAccepted, NoSession, Returns, Top, Pop
<1>2. stack \in Seq(Requests)
    BY DEF TypeOK
<1>3. /\ Len(stack') = n - 1
      /\ \A i \in 1 .. n - 1 : stack'[i] = stack[i]
      /\ n \in Nat \ {0}
    BY <1>1, <1>2, PopTyped
<1>4. /\ ~OnScreen(r)'
      /\ \A s \in Requests \ {r} : OnScreen(s)' <=> OnScreen(s)
    BY DEF Return, ReturnRefused, ReturnAccepted, NoSession, Returns, Deny,
       OnScreen, TypeOK
<1> HIDE DEF n
<1>5. /\ \A i \in 1 .. n - 1 : i \in 1 .. n /\ i # n
      /\ \A i \in 1 .. n : i \in 1 .. n - 1 \/ i = n
      /\ n \in 1 .. n
    BY <1>3
<1>6. \A i \in 1 .. n - 1 : stack[i] # r
    BY <1>1, <1>5 DEF DialogsAreStacked, n
<1>7. \A s \in Requests : OnScreen(s)' <=> \E i \in 1 .. n - 1 : stack'[i] = s
    <2>1. ASSUME NEW s \in Requests \ {r}
          PROVE  OnScreen(s)' <=> \E i \in 1 .. n - 1 : stack'[i] = s
        <3>1. OnScreen(s) <=> \E i \in 1 .. n : stack[i] = s
            BY DEF DialogsAreStacked, n
        <3> QED BY <1>1, <1>3, <1>4, <1>5, <3>1
    <2>2. ~(\E i \in 1 .. n - 1 : stack'[i] = r)
        BY <1>3, <1>6
    <2> QED BY <1>4, <2>1, <2>2
<1>8. \A i, j \in 1 .. n - 1 : stack'[i] = stack'[j] => i = j
    BY <1>3, <1>5 DEF DialogsAreStacked, n
<1> QED BY <1>3, <1>7, <1>8 DEF DialogsAreStacked

LEMMA StepStacked == TypeOK /\ DialogsAreStacked /\ [Next]_vars => DialogsAreStacked'
<1> SUFFICES ASSUME TypeOK, DialogsAreStacked, [Next]_vars PROVE DialogsAreStacked'
    OBVIOUS
<1>1. ASSUME NEW r \in Requests, OpenDialog(r) PROVE DialogsAreStacked'
    BY <1>1, PushStacks
<1>2. ASSUME NEW r \in Requests, Return(r) PROVE DialogsAreStacked'
    BY <1>2, PopStacks
<1>3. ASSUME NEW r \in Requests,
             \/ BeginAuthentication(r) \/ CancelAuthentication(r)
             \/ InitiateFails(r) \/ User(r) \/ Helper(r)
      PROVE  DialogsAreStacked'
    <2>1. stack' = stack /\ \A s \in Requests : OnScreen(s)' <=> OnScreen(s)
        BY <1>3
        DEF BeginAuthentication, CancelAuthentication, InitiateFails, Deny, User,
            AcceptDialog, CancelDialog, Helper, OnRequest, OnCompleted, OnScreen,
            TypeOK
    <2> QED BY <2>1, SameStack
<1>4. CASE Signal \/ Leave \/ UNCHANGED vars
    BY <1>4, SameStack DEF Signal, Leave, vars, OnScreen
<1> QED BY <1>1, <1>2, <1>3, <1>4 DEF Next, Begin

-----------------------------------------------------------------------------
(* The passwords.                                                          *)

(* A step leaves a request alone if it leaves these five alone.            *)
LEMMA SamePrivate ==
    ASSUME NEW r \in Requests, Private(r),
           stage'[r] = stage[r], password'[r] = password[r],
           heard'[r] = heard[r], typed'[r] = typed[r], answer'[r] = answer[r]
    PROVE  Private(r)'
    BY DEF Private, Heard

LEMMA InitPrivate == Init => \A r \in Requests : Private(r)
<1> SUFFICES ASSUME Init, NEW r \in Requests PROVE Private(r)
    OBVIOUS
<1>1. heard[r] = << >> /\ Len(heard[r]) = 0
    BY EmptySeq DEF Init
<1>2. Heard(r)
    BY <1>1 DEF Heard
<1> QED BY <1>1, <1>2 DEF Init, Private

(* What the steps of a request do to that request.                         *)
LEMMA OwnPrivate ==
    ASSUME TypeOK, NEW r \in Requests, Private(r),
           \/ BeginAuthentication(r) \/ CancelAuthentication(r)
           \/ InitiateFails(r) \/ OpenDialog(r) \/ CancelDialog(r)
           \/ (\E text \in Passwords : AcceptDialog(r, text))
           \/ Return(r) \/ (\E g \in BOOLEAN : OnCompleted(r, g))
    PROVE  Private(r)'
<1>1. heard'[r] = heard[r] /\ (typed'[r] = typed[r] \/ heard[r] = << >>)
    BY DEF BeginAuthentication, CancelAuthentication, InitiateFails, OpenDialog,
       CancelDialog, AcceptDialog, Return, ReturnRefused, ReturnAccepted,
       NoSession, OnCompleted, Private
<1>2. Heard(r)'
    <2>1. CASE typed'[r] = typed[r]
        BY <1>1, <2>1 DEF Private, Heard
    <2>2. CASE heard[r] = << >>
        <3>1. Len(heard'[r]) = 0
            BY <1>1, <2>2, EmptySeq
        <3> QED BY <3>1 DEF Heard
    <2> QED BY <1>1, <2>1, <2>2
<1>3. CASE BeginAuthentication(r)
    BY <1>2, <1>3 DEF BeginAuthentication, TypeOK, Private
<1>8. CASE CancelAuthentication(r)
    BY <1>8, SamePrivate DEF CancelAuthentication
<1>4. CASE InitiateFails(r) \/ OpenDialog(r) \/ CancelDialog(r)
    BY <1>2, <1>4
    DEF InitiateFails, Deny, OpenDialog, CancelDialog, TypeOK, Private
<1>5. ASSUME NEW text \in Passwords, AcceptDialog(r, text) PROVE Private(r)'
    BY <1>2, <1>5 DEF AcceptDialog, TypeOK, Private
<1>6. CASE Return(r)
    BY <1>2, <1>6
    DEF Return, ReturnRefused, ReturnAccepted, NoSession, Returns, Deny, TypeOK,
        Private
<1>7. ASSUME NEW g \in BOOLEAN, OnCompleted(r, g) PROVE Private(r)'
    BY <1>2, <1>7 DEF OnCompleted, TypeOK, Private
<1> QED BY <1>3, <1>4, <1>5, <1>6, <1>7, <1>8

(* The password is heard once, as the first answer.                        *)
LEMMA RequestPrivate ==
    ASSUME TypeOK, NEW r \in Requests, Private(r), OnRequest(r)
    PROVE  Private(r)'
<1> DEFINE n == Len(heard[r])
<1>1. /\ stage[r] = "session" /\ stage'[r] = "session"
      /\ heard'[r] = Append(heard[r], password[r]) /\ password'[r] = Empty
      /\ typed'[r] = typed[r] /\ answer'[r] = answer[r]
    BY DEF OnRequest, TypeOK
<1>2. heard[r] \in Seq(Texts) /\ n \in Nat
    BY LenProperties DEF TypeOK
<1>3. /\ Len(heard'[r]) = n + 1
      /\ \A i \in 1 .. n : heard'[r][i] = heard[r][i]
      /\ heard'[r][n + 1] = password[r]
    BY <1>1, <1>2, AppendProperties DEF TypeOK
<1>4. heard[r] = << >> <=> n = 0
    BY <1>2, EmptySeq
<1>5. heard'[r] # << >>
    BY <1>2, <1>3, EmptySeq
<1>6. heard'[r][n + 1] = IF n + 1 = 1 THEN typed[r] ELSE Empty
    BY <1>1, <1>2, <1>3, <1>4 DEF Private
<1>7. \A i \in 1 .. n : heard'[r][i] = IF i = 1 THEN typed[r] ELSE Empty
    BY <1>3 DEF Private, Heard
<1> HIDE DEF n
<1>8. \A i \in 1 .. n + 1 : i \in 1 .. n \/ i = n + 1
    BY <1>2
<1>9. Heard(r)'
    BY <1>1, <1>3, <1>6, <1>7, <1>8 DEF Heard
<1> QED BY <1>1, <1>5, <1>9 DEF Private

LEMMA StepPrivate ==
    ASSUME TypeOK, \A r \in Requests : Private(r), [Next]_vars
    PROVE  \A r \in Requests : Private(r)'
<1> SUFFICES ASSUME NEW s \in Requests PROVE Private(s)'
    OBVIOUS
<1>1. ASSUME NEW r \in Requests,
             \/ BeginAuthentication(r) \/ CancelAuthentication(r)
             \/ Begin(r) \/ User(r) \/ Return(r) \/ Helper(r)
      PROVE  Private(s)'
    <2>1. CASE s = r
        BY <1>1, <2>1, OwnPrivate, RequestPrivate DEF Begin, User, Helper
    <2>2. CASE s # r
        <3>1. /\ stage'[s] = stage[s] /\ password'[s] = password[s]
              /\ heard'[s] = heard[s] /\ typed'[s] = typed[s]
              /\ answer'[s] = answer[s]
            BY <1>1, <2>2
            DEF BeginAuthentication, CancelAuthentication, Begin, InitiateFails,
                OpenDialog, User, AcceptDialog, CancelDialog, Return,
                ReturnRefused, ReturnAccepted, NoSession, Deny, Helper,
                OnRequest, OnCompleted, TypeOK
        <3> QED BY <3>1, SamePrivate
    <2> QED BY <2>1, <2>2
<1>2. CASE Signal \/ Leave \/ UNCHANGED vars
    BY <1>2, SamePrivate DEF Signal, Leave, vars
<1> QED BY <1>1, <1>2 DEF Next

-----------------------------------------------------------------------------

LEMMA Inductive == Spec => []IInv
<1>1. Init => IInv
    BY InitTyped, InitStacked, InitPrivate DEF IInv
<1>2. IInv /\ [Next]_vars => IInv'
    <2> SUFFICES ASSUME IInv, [Next]_vars PROVE IInv'
        OBVIOUS
    <2>1. TypeOK' /\ DialogsAreStacked'
        BY StepTyped, StepStacked DEF IInv
    <2>2. \A r \in Requests : Private(r)'
        BY StepPrivate DEF IInv
    <2> QED BY <2>1, <2>2 DEF IInv
<1> QED BY <1>1, <1>2, PTL DEF Spec

(* Every variable keeps its type.                                          *)
THEOREM TypeCorrect == Spec => []TypeOK
<1>1. IInv => TypeOK
    BY DEF IInv
<1> QED BY <1>1, Inductive, PTL

(* The dialogs on screen are those of the handlers that run, each once,    *)
(* however many authentications are nested in one another.                 *)
THEOREM Stacked == Spec => []DialogsAreStacked
<1>1. IInv => DialogsAreStacked
    BY DEF IInv
<1> QED BY <1>1, Inductive, PTL

(* The password of a request is in memory only between its dialog and      *)
(* PAM's first prompt, and nobody hears it but that prompt.                *)
THEOREM PrivateSecrets == Spec => []SecretsStayPrivate
<1>1. IInv => SecretsStayPrivate
    BY DEF IInv, Private, Heard, SecretsStayPrivate, TypeOK, Stages
<1> QED BY <1>1, Inductive, PTL

-----------------------------------------------------------------------------
(* The promise to polkitd.                                                 *)

(* A step after which Outcome, consent and withdrawal are as before.       *)
LEMMA Stutters ==
    ASSUME \A r \in Requests : Outcome(r)' = Outcome(r), TypeOK,
           typed' = typed, cancelled' = cancelled
    PROVE  UNCHANGED Promise!vars
    BY DEF Promise!vars

LEMMA StepKeepsPromise ==
    ASSUME IInv, [Next]_vars PROVE [Promise!Next]_(Promise!vars)
<1> USE DEF IInv
<1>1. ASSUME NEW r \in Requests, BeginAuthentication(r)
      PROVE  Promise!Ask(r)
    BY <1>1 DEF BeginAuthentication, Promise!Ask, Outcome, TypeOK, Private
<1>2. ASSUME NEW r \in Requests, CancelAuthentication(r)
      PROVE  Promise!Withdraw(r)
    BY <1>2 DEF CancelAuthentication, Promise!Withdraw, Outcome, TypeOK, Private
<1>3. ASSUME NEW r \in Requests, NEW text \in Passwords, AcceptDialog(r, text)
      PROVE  Promise!Consent(r)
    BY <1>3, TextAssumption
    DEF AcceptDialog, Promise!Consent, Outcome, TypeOK, Private
<1>4. ASSUME NEW r \in Requests, InitiateFails(r) \/ ReturnRefused(r) \/ NoSession(r)
      PROVE  Promise!Deny({r})
    BY <1>4
    DEF InitiateFails, ReturnRefused, NoSession, Returns, Deny, Promise!Deny,
        Outcome, TypeOK, Private
<1>5. ASSUME NEW r \in Requests, NEW g \in BOOLEAN, OnCompleted(r, g)
      PROVE  Promise!Grant(r) \/ Promise!Deny({r})
    <2>1. CASE g /\ ~cancelled[r]
        BY <1>5, <2>1, TextAssumption
        DEF OnCompleted, Promise!Grant, Outcome, TypeOK, Private
    <2>2. CASE ~(g /\ ~cancelled[r])
        BY <1>5, <2>2
        DEF OnCompleted, Promise!Deny, Outcome, TypeOK, Private
    <2> QED BY <2>1, <2>2
<1>6. CASE Leave
    <2>1. Promise!Deny({r \in Requests : Outcome(r) = "asked"})
        BY <1>6 DEF Leave, Promise!Deny, Outcome, TypeOK, Private
    <2> QED BY <2>1 DEF Promise!Next
<1>7. ASSUME NEW r \in Requests,
             OpenDialog(r) \/ CancelDialog(r) \/ ReturnAccepted(r) \/ OnRequest(r)
      PROVE  UNCHANGED Promise!vars
    <2>1. \A s \in Requests : Outcome(s)' = Outcome(s)
        BY <1>7
        DEF OpenDialog, CancelDialog, ReturnAccepted, Returns, OnRequest,
            Outcome, TypeOK
    <2> QED
        BY <1>7, <2>1, Stutters
        DEF OpenDialog, CancelDialog, ReturnAccepted, OnRequest
<1>8. CASE Signal \/ UNCHANGED vars
    <2>1. \A s \in Requests : Outcome(s)' = Outcome(s)
        BY <1>8 DEF Signal, vars, Outcome
    <2> QED BY <1>8, <2>1, Stutters DEF Signal, vars
<1> QED
    BY <1>1, <1>2, <1>3, <1>4, <1>5, <1>6, <1>7, <1>8
    DEF Next, Begin, User, Return, Helper, Promise!Next

(* The agent keeps its promise: one outcome for each request, and granted  *)
(* only what the user accepted and polkitd has not withdrawn.              *)
THEOREM KeepsPromise == Spec => Implements
<1>1. Init => Promise!Init
    BY DEF Init, Promise!Init, Outcome
<1>2. IInv /\ [Next]_vars => [Promise!Next]_(Promise!vars)
    BY StepKeepsPromise
<1> QED BY <1>1, <1>2, Inductive, PTL DEF Spec, Implements, Promise!Spec
=============================================================================
