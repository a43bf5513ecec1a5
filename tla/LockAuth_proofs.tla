--------------------------- MODULE LockAuth_proofs ---------------------------
(***************************************************************************)
(* Proofs about LockAuth, for every alphabet, secret, buffer size and      *)
(* bound: type correctness, and the safety invariants of the run           *)
(* lock_auth, through the inductive invariant IInv; and that the locker    *)
(* implements LockPromise.                                                 *)
(***************************************************************************)
EXTENDS LockAuth, Integers, SequenceTheorems, TLAPS

(* What backspace leaves: a password, one character shorter.               *)
LEMMA Shorter ==
    ASSUME NEW p \in Seq(Letters), p # << >>
    PROVE  /\ SubSeq(p, 1, Len(p) - 1) \in Seq(Letters)
           /\ Len(SubSeq(p, 1, Len(p) - 1)) = Len(p) - 1
<1>1. PICK n \in Nat : n = Len(p) /\ n > 0
    BY EmptySeq
<1>2. \A i \in 1 .. n - 1 : p[i] \in Letters
    BY <1>1, ElementOfSeq
<1> DEFINE q == SubSeq(p, 1, n - 1)
<1>3. q \in Seq(Letters) /\ Len(q) = IF 1 <= n - 1 THEN n - 1 - 1 + 1 ELSE 0
    BY <1>2, SubSeqProperties
<1>4. Len(q) = n - 1
    <2> HIDE DEF q
    <2> QED BY <1>1, <1>3
<1> QED BY <1>1, <1>3, <1>4

(* The three ways in which the buffer changes keep it in bounds.           *)
LEMMA EmptyFits == Fits(<< >>)
<1>1. << >> \in Seq(Letters) /\ Len(<< >>) = 0
    BY EmptySeq
<1>2. Len(<< >>) < BufferLen
    BY <1>1, BufferAssumption
<1> QED BY <1>1, <1>2 DEF Fits, Passwords

LEMMA ShorterFits ==
    ASSUME NEW p, Fits(p), p # << >>
    PROVE  Fits(SubSeq(p, 1, Len(p) - 1))
<1>1. PICK n \in Nat : n = Len(p)
    BY LenProperties DEF Fits, Passwords
<1> DEFINE q == SubSeq(p, 1, Len(p) - 1)
<1>2. q \in Seq(Letters) /\ Len(q) = n - 1
    BY <1>1, Shorter DEF Fits, Passwords
<1>3. n < BufferLen
    BY <1>1 DEF Fits
<1> HIDE DEF q
<1>4. Len(q) < BufferLen
    BY <1>2, <1>3, BufferAssumption
<1> QED BY <1>2, <1>4 DEF Fits, Passwords, q

LEMMA LongerFits ==
    ASSUME NEW p, Fits(p), NEW c \in Letters, ~(Len(p) + 1 + 1 >= BufferLen)
    PROVE  Fits(Append(p, c))
BY BufferAssumption DEF Fits, Passwords

(* poll() reports data only while a reply is in the pipe, until comm_in    *)
(* has read it: the callback never reads from an empty pipe.               *)
ReplyIsThere ==
    stage \in {"display", "comm"} /\ "in" \in revents => replies # << >>

(* Type correctness, with the fact the reads of the pipe rest on.          *)
Typed == TypeOK /\ ReplyIsThere

LEMMA InitTyped == Init => Typed
<1> SUFFICES ASSUME Init PROVE Typed
    OBVIOUS
<1>1. LoopTypeOK
    BY DEF Init, LoopTypeOK
<1>2. UiTypeOK
    BY EmptyFits DEF Init, UiTypeOK, AuthStates, InputStates
<1>3. PipeTypeOK
    BY EmptySeq DEF Init, PipeTypeOK, Passwords
<1>4. ReplyIsThere
    BY DEF Init, ReplyIsThere
<1> QED BY <1>1, <1>2, <1>3, <1>4 DEF Typed, TypeOK

LEMMA StepTyped == Typed /\ [Next]_vars => Typed'
<1> SUFFICES ASSUME Typed, [Next]_vars PROVE Typed'
    OBVIOUS
<1> USE DEF Typed, TypeOK
<1>1. ASSUME NEW c \in Letters, KeyLetter(c) PROVE Typed'
    <2>1. LoopTypeOK'
        BY <1>1 DEF KeyLetter, loopVars, fixed, LoopTypeOK
    <2>2. UiTypeOK'
        BY <1>1, LongerFits DEF KeyLetter, ShowInput, UiTypeOK, InputStates
    <2>3. PipeTypeOK'
        BY <1>1 DEF KeyLetter, pipeVars, childVars, PipeTypeOK
    <2>4. ReplyIsThere'
        BY <1>1 DEF KeyLetter, loopVars, pipeVars, ReplyIsThere
    <2> QED BY <2>1, <2>2, <2>3, <2>4
<1>2. CASE KeyBackspace
    <2>1. LoopTypeOK'
        BY <1>2 DEF KeyBackspace, loopVars, fixed, LoopTypeOK
    <2>2. UiTypeOK'
        <3>1. Fits(password')
            BY <1>2, EmptyFits, ShorterFits DEF KeyBackspace, UiTypeOK
        <3>2. clearTimer' \in BOOLEAN
            BY <1>2, Zenon DEF KeyBackspace
        <3>3. inputState' \in InputStates /\ inputTimer' \in BOOLEAN
            BY <1>2 DEF KeyBackspace, ShowInput, InputStates
        <3> QED BY <1>2, <3>1, <3>2, <3>3 DEF KeyBackspace, UiTypeOK
    <2>3. PipeTypeOK'
        BY <1>2 DEF KeyBackspace, pipeVars, childVars, PipeTypeOK
    <2>4. ReplyIsThere'
        BY <1>2 DEF KeyBackspace, loopVars, pipeVars, ReplyIsThere
    <2> QED BY <2>1, <2>2, <2>3, <2>4
<1>3. CASE KeyClear
    <2>1. LoopTypeOK'
        BY <1>3 DEF KeyClear, loopVars, fixed, LoopTypeOK
    <2>2. UiTypeOK'
        BY <1>3, EmptyFits
        DEF KeyClear, ShowInput, UiTypeOK, InputStates
    <2>3. PipeTypeOK'
        BY <1>3 DEF KeyClear, pipeVars, childVars, PipeTypeOK
    <2>4. ReplyIsThere'
        BY <1>3 DEF KeyClear, loopVars, pipeVars, ReplyIsThere
    <2> QED BY <2>1, <2>2, <2>3, <2>4
<1>4. CASE KeyModifier
    <2>1. LoopTypeOK'
        BY <1>4 DEF KeyModifier, loopVars, fixed, LoopTypeOK
    <2>2. UiTypeOK'
        BY <1>4 DEF KeyModifier, ShowInput, UiTypeOK, InputStates
    <2>3. PipeTypeOK'
        BY <1>4 DEF KeyModifier, pipeVars, childVars, PipeTypeOK
    <2>4. ReplyIsThere'
        BY <1>4 DEF KeyModifier, loopVars, pipeVars, ReplyIsThere
    <2> QED BY <2>1, <2>2, <2>3, <2>4
<1>5. CASE SubmitWritten
    <2>1. LoopTypeOK'
        BY <1>5 DEF SubmitWritten, loopVars, fixed, LoopTypeOK
    <2>2. UiTypeOK'
        BY <1>5, EmptyFits
        DEF SubmitWritten, UiTypeOK, AuthStates, InputStates
    <2>3. PipeTypeOK'
        BY <1>5 DEF SubmitWritten, childVars, PipeTypeOK, UiTypeOK, Fits
    <2>4. ReplyIsThere'
        BY <1>5 DEF SubmitWritten, loopVars, ReplyIsThere
    <2> QED BY <2>1, <2>2, <2>3, <2>4
<1>6. CASE SubmitFails
    <2>1. LoopTypeOK'
        BY <1>6 DEF SubmitFails, loopVars, fixed, LoopTypeOK
    <2>2. UiTypeOK'
        BY <1>6, EmptyFits
        DEF SubmitFails, UiTypeOK, AuthStates, InputStates
    <2>3. PipeTypeOK'
        BY <1>6 DEF SubmitFails, pipeVars, childVars, PipeTypeOK
    <2>4. ReplyIsThere'
        BY <1>6 DEF SubmitFails, loopVars, pipeVars, ReplyIsThere
    <2> QED BY <2>1, <2>2, <2>3, <2>4
<1>7. CASE SubmitKills
    <2>1. LoopTypeOK'
        BY <1>7 DEF SubmitKills, loopVars, fixed, LoopTypeOK
    <2>2. UiTypeOK'
        BY <1>7 DEF SubmitKills, uiVars, UiTypeOK
    <2>3. PipeTypeOK'
        BY <1>7 DEF SubmitKills, pipeVars, childVars, PipeTypeOK
    <2>4. ReplyIsThere'
        BY <1>7 DEF SubmitKills, loopVars, pipeVars, ReplyIsThere
    <2> QED BY <2>1, <2>2, <2>3, <2>4
<1>8. CASE Poll
    <2>1. LoopTypeOK'
        BY <1>8 DEF Poll, loopVars, fixed, LoopTypeOK
    <2>2. UiTypeOK'
        BY <1>8 DEF Poll, uiVars, UiTypeOK
    <2>3. PipeTypeOK'
        BY <1>8 DEF Poll, pipeVars, childVars, PipeTypeOK
    <2>4. ReplyIsThere'
        BY <1>8 DEF Poll, loopVars, pipeVars, ReplyIsThere
    <2> QED BY <2>1, <2>2, <2>3, <2>4
<1>9. CASE DisplayDone
    <2>1. LoopTypeOK'
        BY <1>9 DEF DisplayDone, loopVars, fixed, LoopTypeOK
    <2>2. UiTypeOK'
        BY <1>9 DEF DisplayDone, uiVars, UiTypeOK
    <2>3. PipeTypeOK'
        BY <1>9 DEF DisplayDone, pipeVars, childVars, PipeTypeOK
    <2>4. ReplyIsThere'
        BY <1>9 DEF DisplayDone, InDisplay, pipeVars, ReplyIsThere
    <2> QED BY <2>1, <2>2, <2>3, <2>4
<1>10. CASE CommGrant
    <2>1. LoopTypeOK'
        BY <1>10 DEF CommGrant, fixed, LoopTypeOK
    <2>2. UiTypeOK'
        BY <1>10 DEF CommGrant, uiVars, UiTypeOK
    <2>3. PipeTypeOK'
        BY <1>10, HeadTailProperties DEF CommGrant, InComm, childVars, PipeTypeOK, ReplyIsThere
    <2>4. ReplyIsThere'
        BY <1>10 DEF CommGrant, loopVars, pipeVars, ReplyIsThere
    <2> QED BY <2>1, <2>2, <2>3, <2>4
<1>11. CASE CommRefuse
    <2>1. LoopTypeOK'
        BY <1>11 DEF CommRefuse, loopVars, fixed, LoopTypeOK
    <2>2. UiTypeOK'
        <3>1. failedAttempts \in Nat
            BY DEF UiTypeOK
        <3>2. /\ authState' = "invalid" /\ authTimer' = TRUE
              /\ failedAttempts' = failedAttempts + 1
              /\ UNCHANGED << inputState, password, inputTimer, clearTimer >>
            BY <1>11 DEF CommRefuse
        <3> QED BY <3>1, <3>2 DEF UiTypeOK, AuthStates
    <2>3. PipeTypeOK'
        BY <1>11, HeadTailProperties
        DEF CommRefuse, InComm, childVars, PipeTypeOK, ReplyIsThere
    <2>4. ReplyIsThere'
        BY <1>11 DEF CommRefuse, loopVars, pipeVars, ReplyIsThere
    <2> QED BY <2>1, <2>2, <2>3, <2>4
<1>12. CASE CommHangup
    <2>1. LoopTypeOK'
        BY <1>12 DEF CommHangup, loopVars, fixed, LoopTypeOK
    <2>2. UiTypeOK'
        BY <1>12 DEF CommHangup, uiVars, UiTypeOK
    <2>3. PipeTypeOK'
        BY <1>12 DEF CommHangup, pipeVars, childVars, PipeTypeOK
    <2>4. ReplyIsThere'
        BY <1>12 DEF CommHangup, loopVars, pipeVars, ReplyIsThere
    <2> QED BY <2>1, <2>2, <2>3, <2>4
<1>13. CASE CommNothing
    <2>1. LoopTypeOK'
        BY <1>13 DEF CommNothing, loopVars, fixed, LoopTypeOK
    <2>2. UiTypeOK'
        BY <1>13 DEF CommNothing, uiVars, UiTypeOK
    <2>3. PipeTypeOK'
        BY <1>13 DEF CommNothing, pipeVars, childVars, PipeTypeOK
    <2>4. ReplyIsThere'
        BY <1>13 DEF CommNothing, loopVars, pipeVars, ReplyIsThere
    <2> QED BY <2>1, <2>2, <2>3, <2>4
<1>14. CASE Term
    <2>1. LoopTypeOK'
        <3>1. run' \in BOOLEAN
            BY <1>14, Zenon DEF Term, LoopTypeOK
        <3> QED BY <1>14, <3>1 DEF Term, fixed, LoopTypeOK
    <2>2. UiTypeOK'
        BY <1>14 DEF Term, uiVars, UiTypeOK
    <2>3. PipeTypeOK'
        BY <1>14 DEF Term, pipeVars, childVars, PipeTypeOK
    <2>4. ReplyIsThere'
        BY <1>14 DEF Term, loopVars, pipeVars, ReplyIsThere
    <2> QED BY <2>1, <2>2, <2>3, <2>4
<1>15. CASE LeaveLoop
    <2>1. LoopTypeOK'
        BY <1>15 DEF LeaveLoop, loopVars, fixed, LoopTypeOK
    <2>2. UiTypeOK'
        BY <1>15 DEF LeaveLoop, uiVars, UiTypeOK
    <2>3. PipeTypeOK'
        BY <1>15 DEF LeaveLoop, pipeVars, childVars, PipeTypeOK
    <2>4. ReplyIsThere'
        BY <1>15 DEF LeaveLoop, loopVars, pipeVars, ReplyIsThere
    <2> QED BY <2>1, <2>2, <2>3, <2>4
<1>16. CASE DisplayError
    <2>1. LoopTypeOK'
        BY <1>16 DEF DisplayError, loopVars, fixed, LoopTypeOK
    <2>2. UiTypeOK'
        BY <1>16 DEF DisplayError, uiVars, UiTypeOK
    <2>3. PipeTypeOK'
        BY <1>16 DEF DisplayError, pipeVars, childVars, PipeTypeOK
    <2>4. ReplyIsThere'
        BY <1>16 DEF DisplayError, InDisplay, pipeVars, ReplyIsThere
    <2> QED BY <2>1, <2>2, <2>3, <2>4
<1>17. CASE FlushError
    <2>1. LoopTypeOK'
        BY <1>17 DEF FlushError, loopVars, fixed, LoopTypeOK
    <2>2. UiTypeOK'
        BY <1>17 DEF FlushError, uiVars, UiTypeOK
    <2>3. PipeTypeOK'
        BY <1>17 DEF FlushError, pipeVars, childVars, PipeTypeOK
    <2>4. ReplyIsThere'
        BY <1>17 DEF FlushError, loopVars, pipeVars, ReplyIsThere
    <2> QED BY <2>1, <2>2, <2>3, <2>4
<1>18. CASE SetAuthIdle
    <2>1. LoopTypeOK'
        BY <1>18 DEF SetAuthIdle, loopVars, fixed, LoopTypeOK
    <2>2. UiTypeOK'
        BY <1>18 DEF SetAuthIdle, UiTypeOK, AuthStates
    <2>3. PipeTypeOK'
        BY <1>18 DEF SetAuthIdle, pipeVars, childVars, PipeTypeOK
    <2>4. ReplyIsThere'
        BY <1>18 DEF SetAuthIdle, loopVars, pipeVars, ReplyIsThere
    <2> QED BY <2>1, <2>2, <2>3, <2>4
<1>19. CASE SetInputIdle
    <2>1. LoopTypeOK'
        BY <1>19 DEF SetInputIdle, loopVars, fixed, LoopTypeOK
    <2>2. UiTypeOK'
        BY <1>19 DEF SetInputIdle, UiTypeOK, InputStates
    <2>3. PipeTypeOK'
        BY <1>19 DEF SetInputIdle, pipeVars, childVars, PipeTypeOK
    <2>4. ReplyIsThere'
        BY <1>19 DEF SetInputIdle, loopVars, pipeVars, ReplyIsThere
    <2> QED BY <2>1, <2>2, <2>3, <2>4
<1>20. CASE ClearPassword
    <2>1. LoopTypeOK'
        BY <1>20 DEF ClearPassword, loopVars, fixed, LoopTypeOK
    <2>2. UiTypeOK'
        BY <1>20, EmptyFits
        DEF ClearPassword, ShowInput, UiTypeOK, InputStates
    <2>3. PipeTypeOK'
        BY <1>20 DEF ClearPassword, pipeVars, childVars, PipeTypeOK
    <2>4. ReplyIsThere'
        BY <1>20 DEF ClearPassword, loopVars, pipeVars, ReplyIsThere
    <2> QED BY <2>1, <2>2, <2>3, <2>4
<1>21. CASE ChildRead
    <2>1. LoopTypeOK'
        BY <1>21 DEF ChildRead, loopVars, fixed, LoopTypeOK
    <2>2. UiTypeOK'
        BY <1>21 DEF ChildRead, uiVars, UiTypeOK
    <2>3. PipeTypeOK'
        BY <1>21, HeadTailProperties DEF ChildRead, PipeTypeOK
    <2>4. ReplyIsThere'
        BY <1>21 DEF ChildRead, loopVars, ReplyIsThere
    <2> QED BY <2>1, <2>2, <2>3, <2>4
<1>22. ASSUME NEW v \in BOOLEAN, ChildReply(v) PROVE Typed'
    <2>1. LoopTypeOK'
        BY <1>22 DEF ChildReply, loopVars, fixed, LoopTypeOK
    <2>2. UiTypeOK'
        BY <1>22 DEF ChildReply, uiVars, UiTypeOK
    <2>3. PipeTypeOK'
        BY <1>22, EmptySeq DEF ChildReply, AfterReply, PipeTypeOK, Passwords
    <2>4. ReplyIsThere'
        BY <1>22 DEF ChildReply, loopVars, ReplyIsThere, PipeTypeOK
    <2> QED BY <2>1, <2>2, <2>3, <2>4
<1>23. CASE ChildWakes
    <2>1. LoopTypeOK'
        BY <1>23 DEF ChildWakes, loopVars, fixed, LoopTypeOK
    <2>2. UiTypeOK'
        BY <1>23 DEF ChildWakes, uiVars, UiTypeOK
    <2>3. PipeTypeOK'
        BY <1>23 DEF ChildWakes, pipeVars, childVars, PipeTypeOK
    <2>4. ReplyIsThere'
        BY <1>23 DEF ChildWakes, loopVars, pipeVars, ReplyIsThere
    <2> QED BY <2>1, <2>2, <2>3, <2>4
<1>24. CASE ChildEOF
    <2>1. LoopTypeOK'
        BY <1>24 DEF ChildEOF, loopVars, fixed, LoopTypeOK
    <2>2. UiTypeOK'
        BY <1>24 DEF ChildEOF, uiVars, UiTypeOK
    <2>3. PipeTypeOK'
        BY <1>24, EmptySeq DEF ChildEOF, pipeVars, PipeTypeOK, Passwords
    <2>4. ReplyIsThere'
        BY <1>24 DEF ChildEOF, loopVars, pipeVars, ReplyIsThere
    <2> QED BY <2>1, <2>2, <2>3, <2>4
<1>25. CASE ChildCrashes
    <2>1. LoopTypeOK'
        BY <1>25 DEF ChildCrashes, loopVars, fixed, LoopTypeOK
    <2>2. UiTypeOK'
        BY <1>25 DEF ChildCrashes, uiVars, UiTypeOK
    <2>3. PipeTypeOK'
        BY <1>25, EmptySeq DEF ChildCrashes, pipeVars, PipeTypeOK, Passwords
    <2>4. ReplyIsThere'
        BY <1>25 DEF ChildCrashes, loopVars, pipeVars, ReplyIsThere
    <2> QED BY <2>1, <2>2, <2>3, <2>4
<1>26. CASE Signal
    <2>1. LoopTypeOK'
        BY <1>26 DEF Signal, loopVars, fixed, LoopTypeOK
    <2>2. UiTypeOK'
        BY <1>26 DEF Signal, uiVars, UiTypeOK
    <2>3. PipeTypeOK'
        BY <1>26 DEF Signal, pipeVars, childVars, PipeTypeOK
    <2>4. ReplyIsThere'
        BY <1>26 DEF Signal, loopVars, pipeVars, ReplyIsThere
    <2> QED BY <2>1, <2>2, <2>3, <2>4
<1>27. CASE UNCHANGED vars
    BY <1>27 DEF vars, loopVars, fixed, uiVars, pipeVars, childVars, LoopTypeOK,
           UiTypeOK, PipeTypeOK, ReplyIsThere
<1> QED
    BY <1>1, <1>2, <1>3, <1>4, <1>5, <1>6, <1>7, <1>8, <1>9, <1>10, <1>11, <1>12, <1>13, <1>14, <1>15, <1>16, <1>17, <1>18, <1>19, <1>20, <1>21, <1>22, <1>23, <1>24, <1>25, <1>26, <1>27
    DEF Next, Key, Iteration, Timers, ChildStep, ChildAccepts, ChildRefuses

-----------------------------------------------------------------------------
(* An attempt is paid for by the indicator (one may start unless one is    *)
(* being verified), by the timer that will free it, or by a refusal.  This *)
(* is what bounds the queue; the plain bound is not inductive, because the *)
(* timer lets an attempt start while another is unanswered.                *)
Free  == IF authState = "validating" THEN 0 ELSE 1
Armed == IF authTimer THEN 1 ELSE 0

AttemptsPaid ==
    /\ child # "exited" => Outstanding + Free + Armed <= failedAttempts + 1
    /\ Outstanding <= failedAttempts + 1

IInv ==
    /\ Typed
    /\ NothingLingers
    /\ ValidatingIsAnswered
    /\ AttemptsPaid
    /\ SuccessIsLast

-----------------------------------------------------------------------------
(* How each action changes the number of unanswered attempts.              *)

LEMMA OutstandingNat == Typed => Outstanding \in Nat
BY DEF Typed, TypeOK, PipeTypeOK, Passwords, Outstanding, Checking

LEMMA SubmitAdds == Typed /\ SubmitWritten => Outstanding' = Outstanding + 1
<1> SUFFICES ASSUME Typed, SubmitWritten PROVE Outstanding' = Outstanding + 1
    OBVIOUS
<1>1. Len(requests') = Len(requests) + 1
    BY DEF SubmitWritten, Typed, TypeOK, PipeTypeOK
<1>2. Len(replies') = Len(replies) /\ Checking' = Checking
    BY DEF SubmitWritten, childVars, Checking
<1>3. Len(requests) \in Nat /\ Len(replies) \in Nat /\ Checking \in Nat
    BY DEF Typed, TypeOK, PipeTypeOK, Checking
<1> HIDE DEF Checking
<1> QED BY <1>1, <1>2, <1>3 DEF Outstanding

LEMMA CommTakes ==
    Typed /\ (CommGrant \/ CommRefuse)
        => Outstanding' = Outstanding - 1 /\ UNCHANGED child
<1> SUFFICES ASSUME Typed, CommGrant \/ CommRefuse
             PROVE  Outstanding' = Outstanding - 1 /\ UNCHANGED child
    OBVIOUS
<1>1. replies # << >> /\ replies' = Tail(replies)
    BY DEF CommGrant, CommRefuse, InComm, Typed, ReplyIsThere
<1>2. Len(replies') = Len(replies) - 1
    BY <1>1, HeadTailProperties DEF Typed, TypeOK, PipeTypeOK
<1>3. Len(requests') = Len(requests) /\ UNCHANGED << child, checked >>
    BY DEF CommGrant, CommRefuse, childVars
<1>4. Len(requests) \in Nat /\ Len(replies) \in Nat /\ Checking \in Nat
    BY DEF Typed, TypeOK, PipeTypeOK, Checking
<1>5. Checking' = Checking
    BY <1>3 DEF Checking
<1> HIDE DEF Checking
<1> QED BY <1>2, <1>3, <1>4, <1>5 DEF Outstanding

LEMMA ReadKeeps == Typed /\ ChildRead => Outstanding' = Outstanding
<1> SUFFICES ASSUME Typed, ChildRead PROVE Outstanding' = Outstanding
    OBVIOUS
<1>1. Len(requests') = Len(requests) - 1
    BY HeadTailProperties DEF ChildRead, Typed, TypeOK, PipeTypeOK
<1>2. Len(replies') = Len(replies) /\ Checking = 0 /\ Checking' = 1
    BY DEF ChildRead, Checking
<1>3. Len(requests) \in Nat /\ Len(replies) \in Nat
    BY DEF Typed, TypeOK, PipeTypeOK
<1> QED BY <1>1, <1>2, <1>3 DEF Outstanding

LEMMA ReplyKeeps ==
    ASSUME Typed, NEW v \in BOOLEAN, ChildReply(v)
    PROVE  Outstanding' = Outstanding
<1>1. Len(replies') = Len(replies) + 1
    BY DEF ChildReply, Typed, TypeOK, PipeTypeOK
<1>2. Len(requests') = Len(requests) /\ Checking = 1 /\ Checking' = 0
    BY DEF ChildReply, AfterReply, Checking
<1>3. Len(requests) \in Nat /\ Len(replies) \in Nat
    BY DEF Typed, TypeOK, PipeTypeOK
<1> QED BY <1>1, <1>2, <1>3 DEF Outstanding

LEMMA EndLoses ==
    Typed /\ (ChildEOF \/ ChildCrashes)
        => child' = "exited" /\ Outstanding' \in 0 .. Outstanding
<1> SUFFICES ASSUME Typed, ChildEOF \/ ChildCrashes
             PROVE  child' = "exited" /\ Outstanding' \in 0 .. Outstanding
    OBVIOUS
<1>1. child' = "exited" /\ UNCHANGED << requests, replies >>
    BY DEF ChildEOF, ChildCrashes, pipeVars
<1>2. Checking' = 0 /\ Checking \in {0, 1}
    BY <1>1 DEF Checking
<1>3. Len(requests) \in Nat /\ Len(replies) \in Nat
    BY DEF Typed, TypeOK, PipeTypeOK
<1> QED BY <1>1, <1>2, <1>3 DEF Outstanding

-----------------------------------------------------------------------------
(* One lemma for each conjunct of the invariant.                           *)

LEMMA StepLingers == Typed /\ NothingLingers /\ [Next]_vars => NothingLingers'
<1> SUFFICES ASSUME Typed, NothingLingers, [Next]_vars PROVE NothingLingers'
    OBVIOUS
<1> USE DEF NothingLingers
<1>1. CASE UNCHANGED uiVars
    BY <1>1 DEF uiVars
<1>2. ASSUME NEW c \in Letters, KeyLetter(c) PROVE NothingLingers'
    BY <1>2 DEF KeyLetter, ShowInput
<1>3. CASE KeyBackspace
    BY <1>3 DEF KeyBackspace, ShowInput
<1>4. CASE KeyClear
    BY <1>4 DEF KeyClear, ShowInput
<1>5. CASE KeyModifier
    BY <1>5 DEF KeyModifier, ShowInput
<1>6. CASE SubmitWritten
    BY <1>6 DEF SubmitWritten
<1>7. CASE SubmitFails
    BY <1>7 DEF SubmitFails
<1>8. CASE CommRefuse
    BY <1>8 DEF CommRefuse
<1>9. CASE SetAuthIdle
    BY <1>9 DEF SetAuthIdle
<1>10. CASE SetInputIdle
    BY <1>10 DEF SetInputIdle
<1>11. CASE ClearPassword
    BY <1>11 DEF ClearPassword, ShowInput
<1> QED
    BY <1>1, <1>2, <1>3, <1>4, <1>5, <1>6, <1>7, <1>8, <1>9, <1>10, <1>11
    DEF Next, Key, Iteration, Timers, ChildStep, ChildAccepts, ChildRefuses,
        ChildReply, SubmitKills, Poll, DisplayDone, CommGrant, CommHangup,
        CommNothing, Term, LeaveLoop, DisplayError, FlushError, ChildRead,
        ChildWakes, ChildEOF, ChildCrashes, Signal, vars

(* The steps that touch neither an attempt nor the indicator.              *)
Quiet ==
    /\ UNCHANGED << backend, authState, authTimer, failedAttempts, requests,
                    replies, child, checked >>
    /\ session' = "locked" => session = "locked"
    /\ run' => run

LEMMA QuietKeeps == Quiet => Outstanding' = Outstanding
BY DEF Quiet, Outstanding, Checking

(* What a step can be, as far as the attempts are concerned.               *)
LEMMA StepCases ==
    ASSUME Typed, [Next]_vars
    PROVE  \/ Quiet
           \/ SubmitWritten \/ SubmitFails
           \/ CommGrant \/ CommRefuse \/ SetAuthIdle
           \/ ChildRead \/ ChildWakes \/ ChildEOF \/ ChildCrashes
           \/ \E v \in BOOLEAN : ChildReply(v)
<1>1. ASSUME \E c \in Letters : KeyLetter(c) PROVE Quiet
    BY <1>1 DEF KeyLetter, Quiet, fixed, loopVars, pipeVars, childVars
<1>2. ASSUME KeyBackspace \/ KeyClear \/ KeyModifier PROVE Quiet
    BY <1>2 DEF KeyBackspace, KeyClear, KeyModifier, Quiet, fixed, loopVars,
                pipeVars, childVars
<1>3. ASSUME SubmitKills \/ CommHangup \/ LeaveLoop \/ FlushError PROVE Quiet
    BY <1>3 DEF SubmitKills, CommHangup, LeaveLoop, FlushError, Quiet, fixed,
                InDisplay, InComm, InTimers, uiVars, pipeVars, childVars
<1>4. ASSUME Poll \/ DisplayDone \/ CommNothing PROVE Quiet
    BY <1>4 DEF Poll, DisplayDone, CommNothing, Quiet, fixed, uiVars,
                pipeVars, childVars
<1>5. ASSUME Term PROVE Quiet
    <2>1. run' => run
        BY <1>5, Zenon DEF Term
    <2> QED BY <1>5, <2>1 DEF Term, Quiet, fixed, uiVars, pipeVars, childVars
<1>6. ASSUME DisplayError \/ Signal PROVE Quiet
    BY <1>6 DEF DisplayError, Signal, Quiet, fixed, uiVars, pipeVars, childVars
<1>7. ASSUME SetInputIdle \/ ClearPassword PROVE Quiet
    BY <1>7 DEF SetInputIdle, ClearPassword, Quiet, fixed, loopVars,
                pipeVars, childVars
<1>8. ASSUME UNCHANGED vars PROVE Quiet
    BY <1>8 DEF vars, Quiet, loopVars, uiVars, pipeVars, childVars
<1> QED
    BY <1>1, <1>2, <1>3, <1>4, <1>5, <1>6, <1>7, <1>8
    DEF Next, Key, Iteration, Timers, ChildStep, ChildAccepts, ChildRefuses

LEMMA StepAnswered ==
    Typed /\ ValidatingIsAnswered /\ [Next]_vars => ValidatingIsAnswered'
<1> SUFFICES ASSUME Typed, ValidatingIsAnswered, [Next]_vars
             PROVE  ValidatingIsAnswered'
    OBVIOUS
<1> USE DEF ValidatingIsAnswered
<1>0. Outstanding \in Nat
    BY OutstandingNat
<1> HIDE DEF Outstanding
<1>1. CASE Quiet
    BY <1>1, QuietKeeps DEF Quiet
<1>2. CASE SubmitWritten
    BY <1>0, <1>2, SubmitAdds
<1>3. CASE SubmitFails \/ CommRefuse \/ SetAuthIdle
    BY <1>3 DEF SubmitFails, CommRefuse, SetAuthIdle
<1>4. CASE CommGrant
    BY <1>4 DEF CommGrant
<1>5. CASE ChildRead
    BY <1>5, ReadKeeps DEF ChildRead, loopVars, uiVars
<1>6. CASE ChildWakes
    <2>1. Outstanding' = Outstanding
        BY <1>6 DEF ChildWakes, pipeVars, Outstanding, Checking
    <2> QED BY <1>6, <2>1 DEF ChildWakes, loopVars, uiVars
<1>7. CASE ChildEOF \/ ChildCrashes
    BY <1>7, EndLoses
<1>8. ASSUME NEW v \in BOOLEAN, ChildReply(v) PROVE ValidatingIsAnswered'
    BY <1>8, ReplyKeeps DEF ChildReply, loopVars, uiVars
<1> QED
    BY <1>1, <1>2, <1>3, <1>4, <1>5, <1>6, <1>7, <1>8, StepCases

LEMMA StepPaid == Typed /\ AttemptsPaid /\ [Next]_vars => AttemptsPaid'
<1> SUFFICES ASSUME Typed, AttemptsPaid, [Next]_vars PROVE AttemptsPaid'
    OBVIOUS
<1> USE DEF AttemptsPaid
<1>0. Outstanding \in Nat /\ failedAttempts \in Nat /\ authTimer \in BOOLEAN
    BY OutstandingNat DEF Typed, TypeOK, UiTypeOK
<1> HIDE DEF Outstanding
<1>1. CASE Quiet
    BY <1>1, QuietKeeps DEF Quiet, Free, Armed
<1>2. CASE SubmitWritten
    BY <1>0, <1>2, SubmitAdds
    DEF SubmitWritten, MaySubmit, childVars, Free, Armed
<1>3. CASE SubmitFails
    <2>1. Outstanding' = Outstanding
        BY <1>3 DEF SubmitFails, pipeVars, childVars, Outstanding, Checking
    <2> QED BY <1>3, <2>1 DEF SubmitFails, childVars
<1>4. CASE CommGrant
    <2>1. Outstanding' = Outstanding - 1 /\ UNCHANGED child
        BY <1>4, CommTakes
    <2>2. UNCHANGED << failedAttempts, authState, authTimer >>
        BY <1>4 DEF CommGrant, uiVars
    <2>3. Free' = Free /\ Armed' = Armed /\ Free \in {0, 1} /\ Armed \in {0, 1}
        BY <2>2 DEF Free, Armed
    <2> QED BY <1>0, <2>1, <2>2, <2>3
<1>5. CASE CommRefuse
    <2>1. Outstanding' = Outstanding - 1 /\ UNCHANGED child
        BY <1>5, CommTakes
    <2>2. failedAttempts' = failedAttempts + 1 /\ Free' = 1 /\ Armed' = 1
        BY <1>5 DEF CommRefuse, Free, Armed
    <2>3. Free \in {0, 1} /\ Armed \in {0, 1}
        BY DEF Free, Armed
    <2> QED BY <1>0, <2>1, <2>2, <2>3
<1>6. CASE SetAuthIdle
    <2>1. Outstanding' = Outstanding
        BY <1>6 DEF SetAuthIdle, pipeVars, childVars, Outstanding, Checking
    <2> QED BY <1>0, <1>6, <2>1 DEF SetAuthIdle, childVars, Free, Armed
<1>7. CASE ChildRead
    BY <1>7, ReadKeeps DEF ChildRead, uiVars, Free, Armed
<1>8. CASE ChildWakes
    <2>1. Outstanding' = Outstanding
        BY <1>8 DEF ChildWakes, pipeVars, Outstanding, Checking
    <2> QED BY <1>8, <2>1 DEF ChildWakes, uiVars, Free, Armed
<1>9. CASE ChildEOF \/ ChildCrashes
    <2>1. child' = "exited" /\ Outstanding' \in 0 .. Outstanding
        BY <1>9, EndLoses
    <2>2. failedAttempts' = failedAttempts
        BY <1>9 DEF ChildEOF, ChildCrashes, uiVars
    <2> QED BY <1>0, <2>1, <2>2
<1>10. ASSUME NEW v \in BOOLEAN, ChildReply(v) PROVE AttemptsPaid'
    <2>1. Outstanding' = Outstanding
        BY <1>10, ReplyKeeps
    <2> QED BY <1>10, <2>1 DEF ChildReply, uiVars, Free, Armed
<1> QED
    BY <1>1, <1>2, <1>3, <1>4, <1>5, <1>6, <1>7, <1>8, <1>9, <1>10, StepCases

LEMMA StepSuccess == Typed /\ SuccessIsLast /\ [Next]_vars => SuccessIsLast'
<1> SUFFICES ASSUME Typed, SuccessIsLast, [Next]_vars, backend' = "pam"
             PROVE  \A i \in 1 .. Len(replies') :
                        replies'[i] => i = Len(replies') /\ child' = "exited"
    BY DEF SuccessIsLast
<1>0. replies \in Seq(BOOLEAN)
    BY DEF Typed, TypeOK, PipeTypeOK
<1>1. backend = "pam"
    BY StepCases DEF Quiet, SubmitWritten, SubmitFails, CommGrant, CommRefuse,
       SetAuthIdle, ChildRead, ChildWakes, ChildEOF, ChildCrashes, ChildReply,
       fixed
<1>2. \A i \in 1 .. Len(replies) :
            replies[i] => i = Len(replies) /\ child = "exited"
    BY <1>1 DEF SuccessIsLast
<1>3. ASSUME UNCHANGED << replies, child >>
      PROVE  \A i \in 1 .. Len(replies') :
                 replies'[i] => i = Len(replies') /\ child' = "exited"
    BY <1>2, <1>3
<1>4. CASE CommGrant \/ CommRefuse
    <2>1. replies # << >> /\ replies' = Tail(replies) /\ child' = child
        BY <1>4 DEF CommGrant, CommRefuse, InComm, Typed, ReplyIsThere, childVars
    <2>2. /\ Len(Tail(replies)) = Len(replies) - 1
          /\ \A i \in 1 .. Len(Tail(replies)) : Tail(replies)[i] = replies[i + 1]
        BY <1>0, <2>1, HeadTailProperties
    <2> DEFINE rest == Tail(replies)
               n    == Len(replies)
    <2>3. n \in Nat
        BY <1>0
    <2> SUFFICES ASSUME NEW i \in 1 .. Len(rest), rest[i]
                 PROVE  i = Len(rest) /\ child = "exited"
        BY <2>1
    <2>4. replies[i + 1] /\ i \in 1 .. n - 1
        BY <2>2
    <2> HIDE DEF rest, n
    <2>5. i + 1 \in 1 .. n
        BY <2>3, <2>4
    <2>6. i + 1 = n /\ child = "exited"
        BY <1>2, <2>4, <2>5 DEF n
    <2> QED BY <2>2, <2>3, <2>4, <2>6 DEF rest, n
<1>5. CASE ChildRead \/ ChildWakes \/ ChildEOF \/ ChildCrashes
    <2>1. replies' = replies /\ (child = "exited" => child' = "exited")
        BY <1>5 DEF ChildRead, ChildWakes, ChildEOF, ChildCrashes, pipeVars
    <2> QED BY <1>2, <2>1
<1>6. ASSUME NEW v \in BOOLEAN, ChildReply(v)
      PROVE  \A i \in 1 .. Len(replies') :
                 replies'[i] => i = Len(replies') /\ child' = "exited"
    <2>1. /\ replies' = Append(replies, v) /\ child = "checking"
          /\ child' = AfterReply(v)
        BY <1>6 DEF ChildReply
    <2>2. v => child' = "exited"
        BY <1>1, <2>1 DEF AfterReply
    <2>3. \A i \in 1 .. Len(replies) : ~replies[i]
        BY <1>2, <2>1
    <2> QED BY <1>0, <2>1, <2>2, <2>3
<1> QED
    BY <1>3, <1>4, <1>5, <1>6, StepCases
    DEF Quiet, SubmitWritten, SubmitFails, SetAuthIdle, pipeVars, childVars

-----------------------------------------------------------------------------
(* The promise.  Rows of attempts: the answered ones, the one in hand, and *)
(* those that wait.                                                        *)

LEMMA RowAppends ==
    ASSUME NEW S, NEW s \in Seq(S), NEW q \in Seq(S), NEW f \in S
    PROVE  s \o Append(q, f) = Append(s \o q, f)
<1>1. << f >> \in Seq(S) /\ s \o q \in Seq(S)
    BY ConcatProperties
<1>2. Append(q, f) = q \o << f >> /\ Append(s \o q, f) = (s \o q) \o << f >>
    BY <1>1, AppendIsConcat
<1> QED BY <1>1, <1>2, ConcatAssociative

(* An attempt that comes into the child's hand, or leaves it answered,     *)
(* keeps its place.                                                        *)
LEMMA RowMoves ==
    ASSUME NEW S, NEW r \in Seq(S), NEW q \in Seq(S), NEW b \in S
    PROVE  /\ (r \o << >>) \o (<< b >> \o q) = (r \o << b >>) \o q
           /\ (Append(r, b) \o << >>) \o q = (r \o << b >>) \o q
<1>1. << b >> \in Seq(S) /\ Append(r, b) \in Seq(S)
    OBVIOUS
<1>2. r \o << >> = r /\ Append(r, b) \o << >> = Append(r, b)
    BY <1>1, ConcatEmptySeq
<1>3. Append(r, b) = r \o << b >>
    BY AppendIsConcat
<1> QED BY <1>1, <1>2, <1>3, ConcatAssociative

(* The row with the attempt in hand at its place.                          *)
LEMMA RowHolds ==
    ASSUME NEW S, NEW r \in Seq(S), NEW q \in Seq(S), NEW b \in S,
           NEW p, p = (r \o << b >>) \o q, NEW n \in Nat, n = Len(r)
    PROVE  /\ p \in Seq(S) /\ Len(p) = n + 1 + Len(q)
           /\ \A i \in 1 .. n : p[i] = r[i]
           /\ p[n + 1] = b
           /\ \A i \in 1 .. Len(q) : p[n + 1 + i] = q[i]
<1> DEFINE h == Append(r, b)
<1>1. h = r \o << b >>
    BY AppendIsConcat
<1>2. /\ h \in Seq(S) /\ Len(h) = n + 1 /\ h[n + 1] = b
      /\ \A i \in 1 .. n : h[i] = r[i]
    BY AppendProperties
<1>3. Len(q) \in Nat
    BY LenProperties
<1> HIDE DEF h
<1>4. p = h \o q
    BY <1>1
<1>5. /\ p \in Seq(S) /\ Len(p) = n + 1 + Len(q)
      /\ \A i \in 1 .. n + 1 + Len(q) :
            p[i] = IF i <= n + 1 THEN h[i] ELSE q[i - (n + 1)]
    BY <1>2, <1>4, ConcatProperties
<1>6. p[n + 1] = b /\ \A i \in 1 .. n : p[i] = r[i]
    BY <1>2, <1>3, <1>5
<1>7. ASSUME NEW i \in 1 .. Len(q) PROVE p[n + 1 + i] = q[i]
    <2>1. n + 1 + i \in 1 .. n + 1 + Len(q) /\ ~(n + 1 + i <= n + 1)
          /\ n + 1 + i - (n + 1) = i
        BY <1>3
    <2> QED BY <1>5, <2>1
<1> QED BY <1>5, <1>6, <1>7

Row(r, b, q) == (r \o << b >>) \o q
Changed(p, i, d) == [p EXCEPT ![i] = d]

(* A verdict against the attempt in hand changes that one place.           *)
LEMMA RowOverruled ==
    ASSUME NEW S, NEW r \in Seq(S), NEW q \in Seq(S), NEW b \in S, NEW d \in S
    PROVE  \E i \in 1 .. Len(Row(r, b, q)) :
              /\ Row(r, b, q)[i] = b
              /\ Row(r, d, q) = Changed(Row(r, b, q), i, d)
<1> DEFINE p == Row(r, b, q)
           a == Row(r, d, q)
<1>0. p = (r \o << b >>) \o q /\ a = (r \o << d >>) \o q
    BY DEF Row
<1> HIDE DEF p, a
<1>1. PICK n \in Nat : n = Len(r)
    BY LenProperties
<1>2. PICK k \in Nat : k = n + 1
    OBVIOUS
<1>3. /\ p \in Seq(S) /\ Len(p) = k + Len(q)
      /\ \A i \in 1 .. n : p[i] = r[i]
      /\ p[k] = b
      /\ \A i \in 1 .. Len(q) : p[k + i] = q[i]
    BY <1>0, <1>1, <1>2, RowHolds
<1>4. /\ a \in Seq(S) /\ Len(a) = k + Len(q)
      /\ \A i \in 1 .. n : a[i] = r[i]
      /\ a[k] = d
      /\ \A i \in 1 .. Len(q) : a[k + i] = q[i]
    BY <1>0, <1>1, <1>2, RowHolds
<1>5. Len(q) \in Nat
    BY LenProperties
<1>6. k \in 1 .. Len(p) /\ Len(a) = Len(p)
    BY <1>2, <1>3, <1>4, <1>5
<1> DEFINE e == [p EXCEPT ![k] = d]
<1>7. /\ e \in Seq(S) /\ Len(e) = Len(p)
      /\ \A j \in 1 .. Len(p) : e[j] = IF j = k THEN d ELSE p[j]
    <2>1. /\ p \in [1 .. Len(p) -> S] /\ k \in 1 .. Len(p)
          /\ Len(p) \in Nat /\ DOMAIN p = 1 .. Len(p)
        BY <1>3, <1>6, LenProperties
    <2>2. e \in [1 .. Len(p) -> S]
        BY <2>1
    <2>3. e \in Seq(S) /\ Len(e) = Len(p)
        BY <2>1, <2>2
    <2>4. \A j \in 1 .. Len(p) : e[j] = IF j = k THEN d ELSE p[j]
        BY <2>1
    <2> QED BY <2>3, <2>4
<1> HIDE DEF e
<1>8. ASSUME NEW j \in 1 .. Len(a) PROVE a[j] = e[j]
    <2>1. e[j] = IF j = k THEN d ELSE p[j]
        BY <1>6, <1>7
    <2>2. CASE j \in 1 .. n
        <3>1. j # k
            BY <1>2, <2>2
        <3> QED BY <1>3, <1>4, <2>1, <2>2, <3>1
    <2>3. CASE j = k
        BY <1>4, <2>1, <2>3
    <2>4. CASE j > k
        <3>1. PICK i \in 1 .. Len(q) : j = k + i
            <4>1. j - k \in 1 .. Len(q) /\ j = k + (j - k)
                BY <1>4, <1>5, <2>4
            <4> QED BY <4>1
        <3>2. j # k
            BY <2>4
        <3>3. e[j] = p[j]
            BY <2>1, <3>2, Zenon
        <3> QED BY <1>3, <1>4, <3>1, <3>3
    <2>5. j \in 1 .. n \/ j = k \/ j > k
        BY <1>2, <1>4, <1>5
    <2> QED BY <2>2, <2>3, <2>4, <2>5
<1>9. a = e
    BY <1>4, <1>6, <1>7, <1>8, SeqEqual
<1>10. a = Changed(p, k, d)
    BY <1>9 DEF e, Changed
<1> QED BY <1>3, <1>6, <1>10 DEF a, p

(* A part of a row.                                                        *)
Within(S, p, m, n) == \A i \in m .. n : p[i] \in S

LEMMA PartOf ==
    ASSUME NEW S, NEW p, NEW m \in Nat, NEW n \in Nat, NEW l \in Nat,
           l = n - m + 1, Within(S, p, m, n),
           NEW x, x = SubSeq(p, m, n)
    PROVE  /\ x \in Seq(S) /\ Len(x) = l
           /\ \A i \in 1 .. l : x[i] = p[m + i - 1]
<1>1. m \in Int /\ n \in Int
    OBVIOUS
<1>2. /\ x \in Seq(S) /\ Len(x) = IF m <= n THEN n - m + 1 ELSE 0
      /\ \A i \in 1 .. n - m + 1 : x[i] = p[m + i - 1]
    BY <1>1, SubSeqProperties DEF Within
<1> QED BY <1>2

LEMMA FirstPart ==
    ASSUME NEW S, NEW p, NEW n \in Nat, NEW o \in Nat, o = 1, Within(S, p, o, n)
    PROVE  /\ SubSeq(p, o, n) \in Seq(S) /\ Len(SubSeq(p, o, n)) = n
           /\ \A i \in 1 .. n : SubSeq(p, o, n)[i] = p[i]
<1> DEFINE x == SubSeq(p, o, n)
<1>1. n = n - o + 1
    OBVIOUS
<1>2. x \in Seq(S)
    BY <1>1, PartOf
<1>3. Len(x) = n
    BY <1>1, PartOf
<1>4. \A i \in 1 .. n : x[i] = p[o + i - 1]
    BY <1>1, PartOf
<1> HIDE DEF x
<1>5. \A i \in 1 .. n : o + i - 1 = i
    OBVIOUS
<1>6. \A i \in 1 .. n : x[i] = p[i]
    BY <1>4, <1>5
<1> QED BY <1>2, <1>3, <1>6 DEF x

(* A row is what precedes a place and what follows it.                     *)
Around(p, r, q, n, k) ==
    /\ n = Len(r) /\ k = n + 1 /\ Len(p) = k + Len(q)
    /\ \A i \in 1 .. n : p[i] = r[i]
    /\ \A i \in 1 .. Len(q) : p[k + i] = q[i]

LEMMA RowParts ==
    ASSUME NEW S, NEW p \in Seq(S), NEW r \in Seq(S), NEW q \in Seq(S),
           NEW n \in Nat, NEW k \in Nat, NEW f \in Nat, f = k + 1,
           Around(p, r, q, n, k)
    PROVE  SubSeq(p, 1, n) = r /\ SubSeq(p, f, Len(p)) = q
<1>1. Len(q) \in Nat /\ Len(p) \in Nat /\ \A i \in 1 .. Len(p) : p[i] \in S
    BY LenProperties, ElementOfSeq
<1>2. /\ Len(q) = Len(p) - f + 1
      /\ Within(S, p, 1, n) /\ Within(S, p, f, Len(p))
    BY <1>1 DEF Within, Around
<1>3. SubSeq(p, 1, n) = r
    <2>1. PICK o \in Nat : o = 1
        OBVIOUS
    <2>2. Within(S, p, o, n)
        BY <1>2, <2>1
    <2> DEFINE z == SubSeq(p, o, n)
    <2>3. z \in Seq(S) /\ Len(z) = n
        BY <2>1, <2>2, FirstPart
    <2>4. \A i \in 1 .. n : z[i] = p[i]
        BY <2>1, <2>2, FirstPart
    <2> HIDE DEF z
    <2>5. \A i \in 1 .. Len(z) : z[i] = r[i]
        BY <2>3, <2>4 DEF Around
    <2>6. Len(z) = Len(r)
        BY <2>3 DEF Around
    <2>7. z = r
        BY <2>3, <2>5, <2>6, SeqEqual
    <2> QED BY <2>1, <2>7 DEF z
<1>4. SubSeq(p, f, Len(p)) = q
    <2> DEFINE y == SubSeq(p, f, Len(p))
    <2>1. y \in Seq(S)
        BY <1>1, <1>2, PartOf
    <2>2. Len(y) = Len(q)
        BY <1>1, <1>2, PartOf
    <2>3. \A i \in 1 .. Len(q) : y[i] = p[f + i - 1]
        BY <1>1, <1>2, PartOf
    <2> HIDE DEF y
    <2>4. ASSUME NEW i \in 1 .. Len(y) PROVE y[i] = q[i]
        <3>1. f + i - 1 = k + i /\ i \in 1 .. Len(q)
            BY <1>1, <2>2
        <3> QED BY <2>3, <3>1 DEF Around
    <2>5. y = q
        BY <2>1, <2>2, <2>4, SeqEqual
    <2> QED BY <2>5 DEF y
<1> QED BY <1>3, <1>4

(* An attempt that is lost in hand leaves the others in their order.       *)
LEMMA RowLost ==
    ASSUME NEW S, NEW r \in Seq(S), NEW q \in Seq(S), NEW b \in S
    PROVE  \E i \in 1 .. Len(Row(r, b, q)) :
              (r \o << >>) \o q
                  = SubSeq(Row(r, b, q), 1, i - 1)
                        \o SubSeq(Row(r, b, q), i + 1, Len(Row(r, b, q)))
<1> DEFINE p == Row(r, b, q)
<1>0. p = (r \o << b >>) \o q
    BY DEF Row
<1> HIDE DEF p
<1>1. PICK n \in Nat : n = Len(r)
    BY LenProperties
<1>2. PICK k \in Nat : k = n + 1
    OBVIOUS
<1>3. PICK f \in Nat : f = k + 1
    OBVIOUS
<1>4. p \in Seq(S) /\ Around(p, r, q, n, k)
    BY <1>0, <1>1, <1>2, RowHolds DEF Around
<1>5. k \in 1 .. Len(p)
    BY <1>2, <1>4, LenProperties DEF Around
<1>6. SubSeq(p, 1, n) = r /\ SubSeq(p, f, Len(p)) = q
    BY <1>3, <1>4, RowParts
<1>7. k - 1 = n /\ k + 1 = f
    BY <1>2, <1>3
<1>8. (r \o << >>) \o q = SubSeq(p, 1, k - 1) \o SubSeq(p, k + 1, Len(p))
    BY <1>6, <1>7, ConcatEmptySeq
<1> QED BY <1>5, <1>8 DEF p

(* The oldest verdict is the head of the row.                              *)
LEMMA RowAnswered ==
    ASSUME NEW S, NEW r \in Seq(S), r # << >>, NEW m \in Seq(S), NEW q \in Seq(S),
           NEW p, p = (r \o m) \o q
    PROVE  /\ p # << >> /\ Head(p) = Head(r)
           /\ Tail(p) = (Tail(r) \o m) \o q
<1> DEFINE t == m \o q
<1>1. t \in Seq(S) /\ Tail(r) \in Seq(S) /\ Head(r) \in S
      /\ Len(Tail(r)) = Len(r) - 1 /\ Len(r) \in Nat /\ Len(r) > 0
      /\ \A i \in 1 .. Len(Tail(r)) : Tail(r)[i] = r[i + 1]
    BY ConcatProperties, HeadTailProperties, EmptySeq
<1>2. p = r \o t /\ (Tail(r) \o m) \o q = Tail(r) \o t
    <2>1. (r \o m) \o q = r \o t
        BY ConcatAssociative
    <2>2. (Tail(r) \o m) \o q = Tail(r) \o t
        BY <1>1, ConcatAssociative
    <2> QED BY <2>1, <2>2
<1> HIDE DEF t
<1> DEFINE u == Tail(r) \o t
<1>3. /\ p \in Seq(S) /\ Len(p) = Len(r) + Len(t) /\ Len(t) \in Nat
      /\ \A i \in 1 .. Len(r) + Len(t) :
            p[i] = IF i <= Len(r) THEN r[i] ELSE t[i - Len(r)]
    BY <1>1, <1>2, ConcatProperties, LenProperties
<1>4. /\ u \in Seq(S) /\ Len(u) = Len(r) - 1 + Len(t)
      /\ \A i \in 1 .. Len(r) - 1 + Len(t) :
            u[i] = IF i <= Len(r) - 1 THEN Tail(r)[i] ELSE t[i - (Len(r) - 1)]
    BY <1>1, ConcatProperties
<1>5. p # << >>
    BY <1>1, <1>3, EmptySeq
<1>6. /\ Tail(p) \in Seq(S) /\ Len(Tail(p)) = Len(p) - 1
      /\ \A i \in 1 .. Len(Tail(p)) : Tail(p)[i] = p[i + 1]
    BY <1>3, <1>5, HeadTailProperties
<1> HIDE DEF u
<1>7. ASSUME NEW i \in 1 .. Len(u) PROVE u[i] = Tail(p)[i]
    <2>1. /\ i \in 1 .. Len(Tail(p)) /\ i + 1 \in 1 .. Len(r) + Len(t)
          /\ Tail(p)[i] = p[i + 1]
        BY <1>1, <1>3, <1>4, <1>6
    <2>2. CASE i <= Len(r) - 1
        BY <1>1, <1>3, <1>4, <2>1, <2>2
    <2>3. CASE ~(i <= Len(r) - 1)
        <3>1. i + 1 - Len(r) = i - (Len(r) - 1)
            BY <1>1
        <3> QED BY <1>1, <1>3, <1>4, <2>1, <2>3, <3>1
    <2> QED BY <2>2, <2>3
<1>8. Tail(p) = u
    <2>1. Len(u) = Len(Tail(p))
        BY <1>1, <1>3, <1>4, <1>6
    <2> QED BY <1>4, <1>6, <1>7, <2>1, SeqEqual
<1>9. Head(p) = p[1] /\ Head(r) = r[1]
    OBVIOUS
<1>10. p[1] = r[1]
    BY <1>1, <1>3
<1> QED BY <1>2, <1>5, <1>8, <1>9, <1>10 DEF u

-----------------------------------------------------------------------------
(* The attempts that LockPromise speaks of, and how a step changes them.   *)

Held == IF child = "checking" THEN << Right(checked) >> ELSE << >>
Judged(rq) == [i \in 1 .. Len(rq) |-> Right(rq[i])]

LEMMA PendingIs ==
    /\ Pending  = (replies \o Held) \o Judged(requests)
    /\ Pending' = (replies' \o Held') \o Judged(requests')
BY DEF Pending, Held, Judged

LEMMA Verdict == ASSUME NEW p PROVE Right(p) \in BOOLEAN
BY DEF Right

LEMMA JudgedTyped ==
    ASSUME NEW rq \in Seq(Passwords)
    PROVE  /\ Judged(rq) \in Seq(BOOLEAN) /\ Len(Judged(rq)) = Len(rq)
           /\ \A i \in 1 .. Len(rq) : Judged(rq)[i] = Right(rq[i])
BY DEF Judged, Right

LEMMA JudgedAppends ==
    ASSUME NEW rq \in Seq(Passwords), NEW p \in Passwords
    PROVE  Judged(Append(rq, p)) = Append(Judged(rq), Right(p))
<1> DEFINE ap == Append(rq, p)
           j == Judged(rq)
           aj == Append(j, Right(p))
           ja == Judged(ap)
<1>1. /\ ap \in Seq(Passwords) /\ Len(ap) = Len(rq) + 1 /\ Len(rq) \in Nat
      /\ \A i \in 1 .. Len(rq) : ap[i] = rq[i]
      /\ ap[Len(rq) + 1] = p
    BY AppendProperties, LenProperties
<1>2. /\ j \in Seq(BOOLEAN) /\ Len(j) = Len(rq)
      /\ \A i \in 1 .. Len(rq) : j[i] = Right(rq[i])
    BY JudgedTyped
<1> HIDE DEF j, ap
<1>3. /\ aj \in Seq(BOOLEAN) /\ Len(aj) = Len(j) + 1
      /\ \A i \in 1 .. Len(j) : aj[i] = j[i]
      /\ aj[Len(j) + 1] = Right(p)
    BY <1>2, Verdict, AppendProperties
<1>4. /\ ja \in Seq(BOOLEAN) /\ Len(ja) = Len(ap)
      /\ \A i \in 1 .. Len(ap) : ja[i] = Right(ap[i])
    BY <1>1, JudgedTyped
<1> HIDE DEF aj, ja
<1>5. ASSUME NEW i \in 1 .. Len(ja) PROVE ja[i] = aj[i]
    <2>1. ja[i] = Right(ap[i])
        BY <1>4
    <2>2. CASE i = Len(rq) + 1
        BY <1>1, <1>2, <1>3, <2>1, <2>2
    <2>3. CASE i # Len(rq) + 1
        <3>1. i \in 1 .. Len(rq)
            BY <1>1, <1>4, <2>3
        <3> QED BY <1>1, <1>2, <1>3, <2>1, <3>1
    <2> QED BY <2>2, <2>3
<1>6. Len(ja) = Len(aj)
    BY <1>1, <1>2, <1>3, <1>4
<1>7. ja = aj
    BY <1>3, <1>4, <1>5, <1>6, SeqEqual
<1> QED BY <1>7 DEF ja, aj, ap, j

LEMMA JudgedTakes ==
    ASSUME NEW rq \in Seq(Passwords), rq # << >>
    PROVE  Judged(rq) = << Right(Head(rq)) >> \o Judged(Tail(rq))
<1> DEFINE t == Tail(rq)
           j == Judged(rq)
           jt == Judged(t)
           h == << Right(Head(rq)) >>
           c == h \o jt
<1>1. /\ t \in Seq(Passwords) /\ Len(t) = Len(rq) - 1
      /\ Len(rq) \in Nat /\ Len(rq) > 0
      /\ \A i \in 1 .. Len(t) : t[i] = rq[i + 1]
      /\ Head(rq) = rq[1]
    BY HeadTailProperties, EmptySeq
<1>2. /\ j \in Seq(BOOLEAN) /\ Len(j) = Len(rq)
      /\ \A i \in 1 .. Len(rq) : j[i] = Right(rq[i])
    BY JudgedTyped
<1> HIDE DEF t, j
<1>3. /\ jt \in Seq(BOOLEAN) /\ Len(jt) = Len(t)
      /\ \A i \in 1 .. Len(t) : jt[i] = Right(t[i])
    BY <1>1, JudgedTyped
<1>4. h \in Seq(BOOLEAN) /\ Len(h) = 1 /\ h[1] = Right(rq[1])
    BY <1>1, Verdict
<1> HIDE DEF jt, h
<1>5. /\ c \in Seq(BOOLEAN) /\ Len(c) = 1 + Len(jt)
      /\ \A i \in 1 .. 1 + Len(jt) : c[i] = IF i <= 1 THEN h[i] ELSE jt[i - 1]
    <2>1. /\ c \in Seq(BOOLEAN) /\ Len(c) = Len(h) + Len(jt)
          /\ \A i \in 1 .. Len(h) + Len(jt) :
                c[i] = IF i <= Len(h) THEN h[i] ELSE jt[i - Len(h)]
        BY <1>3, <1>4, ConcatProperties
    <2> HIDE DEF c
    <2> QED BY <1>4, <2>1
<1> HIDE DEF c
<1>6. ASSUME NEW i \in 1 .. Len(j) PROVE j[i] = c[i]
    <2>1. j[i] = Right(rq[i]) /\ c[i] = IF i <= 1 THEN h[i] ELSE jt[i - 1]
        BY <1>1, <1>2, <1>3, <1>5
    <2>2. CASE i = 1
        BY <1>4, <2>1, <2>2
    <2>3. CASE i # 1
        <3>1. i - 1 \in 1 .. Len(t) /\ i - 1 + 1 = i /\ ~(i <= 1)
            BY <1>1, <1>2, <2>3
        <3> QED BY <1>1, <1>3, <2>1, <3>1
    <2> QED BY <2>2, <2>3
<1>7. Len(j) = Len(c)
    BY <1>1, <1>2, <1>3, <1>5
<1>8. j = c
    BY <1>2, <1>5, <1>6, <1>7, SeqEqual
<1> QED BY <1>8 DEF c, h, jt, j, t

LEMMA HeldTyped ==
    Typed => /\ Held \in Seq(BOOLEAN) /\ replies \in Seq(BOOLEAN)
             /\ Judged(requests) \in Seq(BOOLEAN)
             /\ requests \in Seq(Passwords)
<1> SUFFICES ASSUME Typed
             PROVE  /\ Held \in Seq(BOOLEAN) /\ replies \in Seq(BOOLEAN)
                    /\ Judged(requests) \in Seq(BOOLEAN)
                    /\ requests \in Seq(Passwords)
    OBVIOUS
<1>1. replies \in Seq(BOOLEAN) /\ requests \in Seq(Passwords)
    BY DEF Typed, TypeOK, PipeTypeOK
<1>2. Held \in Seq(BOOLEAN)
    <2>1. CASE child = "checking"
        <3>1. Held = << Right(checked) >>
            BY <2>1 DEF Held
        <3> QED BY <3>1, Verdict
    <2>2. CASE child # "checking"
        <3>1. Held = << >>
            BY <2>2 DEF Held
        <3> QED BY <3>1, EmptySeq
    <2> QED BY <2>1, <2>2
<1> QED BY <1>1, <1>2, JudgedTyped

(* What a step does to the attempts.                                       *)
LEMMA SubmitExtends ==
    Typed /\ SubmitWritten => Pending' = Append(Pending, Right(password))
<1> SUFFICES ASSUME Typed, SubmitWritten
             PROVE  Pending' = Append(Pending, Right(password))
    OBVIOUS
<1>1. /\ requests' = Append(requests, password) /\ password \in Passwords
      /\ replies' = replies /\ Held' = Held
    BY DEF SubmitWritten, childVars, Held, Typed, TypeOK, UiTypeOK, Fits
<1> DEFINE s == replies \o Held
           q == Judged(requests)
<1>2. s \in Seq(BOOLEAN) /\ q \in Seq(BOOLEAN)
    BY HeldTyped, ConcatProperties
<1>3. Judged(requests') = Append(q, Right(password))
    BY <1>1, HeldTyped, JudgedAppends
<1>4. Pending = s \o q /\ Pending' = s \o Append(q, Right(password))
    BY <1>1, <1>3, PendingIs
<1> HIDE DEF s, q
<1> QED BY <1>2, <1>4, Verdict, RowAppends

LEMMA ReadKeepsPending == Typed /\ ChildRead => Pending' = Pending
<1> SUFFICES ASSUME Typed, ChildRead PROVE Pending' = Pending
    OBVIOUS
<1>1. /\ requests # << >> /\ requests' = Tail(requests) /\ replies' = replies
      /\ Held = << >> /\ Held' = << Right(Head(requests)) >>
    BY DEF ChildRead, Held
<1> DEFINE b == Right(Head(requests))
           q == Judged(Tail(requests))
<1>2. Judged(requests) = << b >> \o q
    BY <1>1, HeldTyped, JudgedTakes
<1>3. q \in Seq(BOOLEAN) /\ b \in BOOLEAN /\ replies \in Seq(BOOLEAN)
    BY <1>1, HeldTyped, HeadTailProperties, JudgedTyped, Verdict
<1>4. /\ Pending  = (replies \o << >>) \o (<< b >> \o q)
      /\ Pending' = (replies \o << b >>) \o q
    BY <1>1, <1>2, PendingIs
<1> HIDE DEF b, q
<1> QED BY <1>3, <1>4, RowMoves

(* A verdict takes the place of the attempt: the same, or a refusal of a   *)
(* right one.                                                              *)
LEMMA ReplyJudges ==
    ASSUME Typed, NEW v \in BOOLEAN, ChildReply(v)
    PROVE  \/ v = Right(checked) /\ Pending' = Pending
           \/ /\ v # Right(checked)
              /\ \E i \in 1 .. Len(Pending) :
                    /\ Pending[i] = Right(checked)
                    /\ Pending' = [Pending EXCEPT ![i] = v]
<1>1. /\ replies' = Append(replies, v) /\ requests' = requests
      /\ Held = << Right(checked) >> /\ Held' = << >>
    BY DEF ChildReply, AfterReply, Held
<1> DEFINE b == Right(checked)
           q == Judged(requests)
<1>2. q \in Seq(BOOLEAN) /\ b \in BOOLEAN /\ replies \in Seq(BOOLEAN)
    BY HeldTyped, Verdict
<1>3. /\ Pending  = (replies \o << b >>) \o q
      /\ Pending' = (Append(replies, v) \o << >>) \o q
    BY <1>1, PendingIs
<1> HIDE DEF b, q
<1>4. Pending' = (replies \o << v >>) \o q
    BY <1>2, <1>3, RowMoves
<1>5. CASE v = b
    BY <1>3, <1>4, <1>5 DEF b
<1>6. CASE v # b
    <2>1. PICK S, d : S = BOOLEAN /\ d = v
        OBVIOUS
    <2>2. q \in Seq(S) /\ replies \in Seq(S) /\ b \in S /\ d \in S
        BY <1>2, <2>1
    <2>3. \E i \in 1 .. Len(Row(replies, b, q)) :
             /\ Row(replies, b, q)[i] = b
             /\ Row(replies, d, q) = Changed(Row(replies, b, q), i, d)
        BY <2>2, RowOverruled
    <2>4. Pending = Row(replies, b, q) /\ Pending' = Row(replies, d, q)
        BY <1>3, <1>4, <2>1 DEF Row
    <2> QED BY <1>6, <2>1, <2>3, <2>4 DEF b, Changed
<1> QED BY <1>5, <1>6

LEMMA EndLosesOne ==
    Typed /\ (ChildEOF \/ ChildCrashes)
        => \/ Pending' = Pending
           \/ \E i \in 1 .. Len(Pending) :
                 Pending' = SubSeq(Pending, 1, i - 1)
                                \o SubSeq(Pending, i + 1, Len(Pending))
<1> SUFFICES ASSUME Typed, ChildEOF \/ ChildCrashes
             PROVE  \/ Pending' = Pending
                    \/ \E i \in 1 .. Len(Pending) :
                          Pending' = SubSeq(Pending, 1, i - 1)
                                         \o SubSeq(Pending, i + 1, Len(Pending))
    OBVIOUS
<1>1. replies' = replies /\ requests' = requests /\ Held' = << >>
    BY DEF ChildEOF, ChildCrashes, pipeVars, Held
<1>2. CASE child # "checking"
    BY <1>1, <1>2, PendingIs DEF Held
<1>3. CASE child = "checking"
    <2> DEFINE b == Right(checked)
               q == Judged(requests)
    <2>1. q \in Seq(BOOLEAN) /\ b \in BOOLEAN /\ replies \in Seq(BOOLEAN)
        BY HeldTyped, Verdict
    <2>2. /\ Pending  = (replies \o << b >>) \o q
          /\ Pending' = (replies \o << >>) \o q
        BY <1>1, <1>3, PendingIs DEF Held
    <2> HIDE DEF b, q
    <2>3. PICK S : S = BOOLEAN
        OBVIOUS
    <2>4. q \in Seq(S) /\ replies \in Seq(S) /\ b \in S
        BY <2>1, <2>3
    <2>5. \E i \in 1 .. Len(Row(replies, b, q)) :
             (replies \o << >>) \o q
                 = SubSeq(Row(replies, b, q), 1, i - 1)
                       \o SubSeq(Row(replies, b, q), i + 1, Len(Row(replies, b, q)))
        BY <2>4, RowLost
    <2>6. Pending = Row(replies, b, q)
        BY <2>2 DEF Row
    <2> QED BY <2>2, <2>5, <2>6
<1> QED BY <1>2, <1>3

LEMMA CommTakesOldest ==
    Typed /\ (CommGrant \/ CommRefuse)
        => /\ Pending # << >> /\ Head(Pending) = Head(replies)
           /\ Pending' = Tail(Pending)
<1> SUFFICES ASSUME Typed, CommGrant \/ CommRefuse
             PROVE  /\ Pending # << >> /\ Head(Pending) = Head(replies)
                    /\ Pending' = Tail(Pending)
    OBVIOUS
<1>1. replies # << >> /\ replies' = Tail(replies)
    BY DEF CommGrant, CommRefuse, InComm, Typed, ReplyIsThere
<1>2. requests' = requests /\ Held' = Held
    BY DEF CommGrant, CommRefuse, childVars, Held
<1> DEFINE q == Judged(requests)
<1>3. /\ q \in Seq(BOOLEAN) /\ Held \in Seq(BOOLEAN) /\ replies \in Seq(BOOLEAN)
    BY HeldTyped
<1>4. /\ Pending  = (replies \o Held) \o q
      /\ Pending' = (Tail(replies) \o Held) \o q
    BY <1>1, <1>2, PendingIs
<1>5. PICK S : S = BOOLEAN
    OBVIOUS
<1>6. q \in Seq(S) /\ Held \in Seq(S) /\ replies \in Seq(S)
    BY <1>3, <1>5
<1> HIDE DEF q
<1>7. /\ Pending # << >> /\ Head(Pending) = Head(replies)
      /\ Tail(Pending) = (Tail(replies) \o Held) \o q
    BY <1>1, <1>4, <1>6, RowAnswered
<1> QED BY <1>4, <1>7

(* The steps that leave alone what the promise speaks of.                  *)
Unseen ==
    UNCHANGED << session, run, displayOk, sigusr, failedAttempts, requests,
                 replies, Held >>

LEMMA UnseenStutters == Unseen => UNCHANGED Promise!vars
<1> SUFFICES ASSUME Unseen PROVE UNCHANGED Promise!vars
    OBVIOUS
<1>1. Pending' = Pending
    BY PendingIs DEF Unseen
<1> QED BY <1>1 DEF Unseen, Promise!vars

LEMMA KeysUnseen ==
    ASSUME \/ \E c \in Letters : KeyLetter(c)
           \/ KeyBackspace \/ KeyClear \/ KeyModifier \/ SubmitFails
           \/ Poll \/ DisplayDone \/ CommNothing
           \/ SetAuthIdle \/ SetInputIdle \/ ClearPassword
           \/ ChildWakes \/ UNCHANGED vars
    PROVE  Unseen
<1> USE DEF Unseen, Held
<1>1. CASE \E c \in Letters : KeyLetter(c)
    BY <1>1 DEF KeyLetter, loopVars, pipeVars, childVars
<1>2. CASE KeyBackspace \/ KeyClear \/ KeyModifier \/ SubmitFails
    BY <1>2 DEF KeyBackspace, KeyClear, KeyModifier, SubmitFails, loopVars,
                pipeVars, childVars
<1>3. CASE Poll \/ DisplayDone \/ CommNothing
    BY <1>3 DEF Poll, DisplayDone, CommNothing, uiVars, pipeVars, childVars
<1>4. CASE SetAuthIdle \/ SetInputIdle \/ ClearPassword
    BY <1>4 DEF SetAuthIdle, SetInputIdle, ClearPassword, loopVars, pipeVars,
                childVars
<1>5. CASE ChildWakes
    BY <1>5 DEF ChildWakes, loopVars, uiVars, pipeVars
<1>6. CASE UNCHANGED vars
    BY <1>6 DEF vars, loopVars, uiVars, pipeVars, childVars
<1> QED BY <1>1, <1>2, <1>3, <1>4, <1>5, <1>6

(* The steps of the session, of the connection and of the signal.          *)
LEMMA EndsKept ==
    ASSUME TypeOK,
           \/ SubmitKills \/ CommHangup \/ FlushError \/ LeaveLoop
           \/ Term \/ DisplayError \/ Signal
    PROVE  Promise!Next \/ UNCHANGED Promise!vars
<1>1. Pending' = Pending
    BY PendingIs DEF Held, SubmitKills, CommHangup, FlushError, LeaveLoop, Term,
                     DisplayError, Signal, uiVars, pipeVars, childVars
<1>2. failedAttempts' = failedAttempts
    BY DEF SubmitKills, CommHangup, FlushError, LeaveLoop, Term, DisplayError,
           Signal, uiVars
<1> USE <1>1, <1>2 DEF Promise!Next
<1>3. CASE SubmitKills \/ CommHangup
    <2>1. /\ session = "locked" /\ session' = "dead"
          /\ UNCHANGED << run, displayOk, sigusr >>
        BY <1>3 DEF SubmitKills, TakesKeys, CommHangup, InComm
    <2> QED BY <2>1 DEF Promise!Die
<1>4. CASE FlushError
    BY <1>4 DEF FlushError, Promise!Die
<1>5. CASE LeaveLoop
    <2>1. CASE displayOk
        BY <1>5, <2>1 DEF LeaveLoop, InTimers, Promise!Unlock
    <2>2. CASE ~displayOk
        BY <1>5, <2>2 DEF LeaveLoop, InTimers, Promise!Die
    <2> QED BY <2>1, <2>2
<1>6. CASE Term
    <2>1. CASE sigusr
        BY <1>6, <2>1 DEF Term, Promise!Obey
    <2>2. CASE ~sigusr
        BY <1>6, <2>2 DEF Term, Promise!vars
    <2> QED BY <2>1, <2>2
<1>7. CASE DisplayError
    BY <1>7 DEF DisplayError, InDisplay, Promise!Disconnect
<1>8. CASE Signal
    BY <1>8 DEF Signal, Promise!Signal
<1> QED BY <1>3, <1>4, <1>5, <1>6, <1>7, <1>8

(* The steps of the attempts.                                              *)
LEMMA AttemptsKept ==
    ASSUME Typed,
           \/ SubmitWritten \/ CommGrant \/ CommRefuse
           \/ ChildRead \/ ChildAccepts \/ ChildRefuses
           \/ ChildEOF \/ ChildCrashes
    PROVE  Promise!Next \/ UNCHANGED Promise!vars
<1> USE DEF Promise!Next
<1>1. CASE SubmitWritten
    <2>1. Pending' = Append(Pending, Right(password)) /\ Right(password) \in BOOLEAN
        BY <1>1, SubmitExtends, Verdict
    <2>2. /\ session = "locked"
          /\ UNCHANGED << session, run, displayOk, sigusr, failedAttempts >>
        BY <1>1 DEF SubmitWritten, TakesKeys, loopVars
    <2> QED BY <2>1, <2>2 DEF Promise!Attempt
<1>2. CASE CommGrant
    <2>1. Pending # << >> /\ Head(Pending) /\ Pending' = Tail(Pending)
        BY <1>2, CommTakesOldest DEF CommGrant
    <2>2. /\ session = "locked" /\ ~run'
          /\ UNCHANGED << session, displayOk, sigusr, failedAttempts >>
        BY <1>2 DEF CommGrant, InComm, uiVars
    <2> QED BY <2>1, <2>2 DEF Promise!Accept
<1>3. CASE CommRefuse
    <2>1. Pending # << >> /\ ~Head(Pending) /\ Pending' = Tail(Pending)
        BY <1>3, CommTakesOldest DEF CommRefuse
    <2>2. /\ session = "locked" /\ failedAttempts' = failedAttempts + 1
          /\ UNCHANGED << session, run, displayOk, sigusr >>
        BY <1>3 DEF CommRefuse, InComm
    <2> QED BY <2>1, <2>2 DEF Promise!Refuse
<1>4. CASE ChildRead \/ ChildAccepts \/ ChildRefuses \/ ChildEOF \/ ChildCrashes
    <2>1. UNCHANGED << session, run, displayOk, sigusr, failedAttempts >>
        BY <1>4 DEF ChildRead, ChildAccepts, ChildRefuses, ChildReply, ChildEOF,
                    ChildCrashes, loopVars, uiVars
    <2>2. CASE Pending' = Pending
        BY <2>1, <2>2 DEF Promise!vars
    <2>3. CASE Pending' # Pending
        <3>1. ~ChildRead
            BY <2>3, ReadKeepsPending
        <3>2. ~ChildAccepts
            <4> SUFFICES ASSUME ChildAccepts PROVE FALSE
                OBVIOUS
            <4>1. Right(checked) /\ ChildReply(TRUE)
                BY DEF ChildAccepts, Right
            <4>2. TRUE = Right(checked)
                BY <4>1, Verdict
            <4> QED BY <2>3, <4>1, <4>2, ReplyJudges
        <3>3. CASE ChildRefuses
            <4>1. ChildReply(FALSE)
                BY <3>3 DEF ChildRefuses
            <4>2. session = "locked"
                BY <4>1 DEF ChildReply
            <4>3. /\ FALSE # Right(checked)
                  /\ \E i \in 1 .. Len(Pending) :
                        /\ Pending[i] = Right(checked)
                        /\ Pending' = [Pending EXCEPT ![i] = FALSE]
                BY <2>3, <4>1, ReplyJudges
            <4>4. Right(checked)
                BY <4>3, Verdict
            <4> QED BY <2>1, <4>2, <4>3, <4>4 DEF Promise!Overrule
        <3>4. CASE ChildEOF \/ ChildCrashes
            <4>1. \E i \in 1 .. Len(Pending) :
                     Pending' = SubSeq(Pending, 1, i - 1)
                                    \o SubSeq(Pending, i + 1, Len(Pending))
                BY <2>3, <3>4, EndLosesOne
            <4> QED BY <2>1, <4>1 DEF Promise!Lose
        <3> QED BY <1>4, <3>1, <3>2, <3>3, <3>4
    <2> QED BY <2>2, <2>3
<1> QED BY <1>1, <1>2, <1>3, <1>4

-----------------------------------------------------------------------------

LEMMA Inductive == Spec => []IInv
<1>1. Init => IInv
    <2> SUFFICES ASSUME Init PROVE IInv
        OBVIOUS
    <2>1. Outstanding = 0 /\ child = "reading" /\ failedAttempts = 0
        BY EmptySeq DEF Init, Outstanding, Checking
    <2>2. Free = 1 /\ Armed = 0
        BY DEF Init, Free, Armed
    <2>3. AttemptsPaid
        BY <2>1, <2>2 DEF AttemptsPaid
    <2>4. SuccessIsLast
        BY EmptySeq DEF Init, SuccessIsLast
    <2>5. NothingLingers /\ ValidatingIsAnswered
        BY DEF Init, NothingLingers, ValidatingIsAnswered
    <2> QED BY <2>3, <2>4, <2>5, InitTyped DEF IInv
<1>2. IInv /\ [Next]_vars => IInv'
    BY StepTyped, StepLingers, StepAnswered, StepPaid, StepSuccess DEF IInv
<1> QED BY <1>1, <1>2, PTL DEF Spec

(* Every variable keeps its type, and the buffer keeps room for the final  *)
(* NUL, whatever is typed.                                                 *)
THEOREM TypeCorrect == Spec => []TypeOK
<1>1. IInv => TypeOK
    BY DEF IInv, Typed
<1> QED BY <1>1, Inductive, PTL

(* A typed password always has its wipe timer armed, and every message of  *)
(* the indicator the timer that hides it.                                  *)
THEOREM Lingers == Spec => []NothingLingers
<1>1. IInv => NothingLingers
    BY DEF IInv
<1> QED BY <1>1, Inductive, PTL

(* While Return is blocked an answer is on its way, or the end of the      *)
(* child will be noticed.                                                  *)
THEOREM Answered == Spec => []ValidatingIsAnswered
<1>1. IInv => ValidatingIsAnswered
    BY DEF IInv
<1> QED BY <1>1, Inductive, PTL

(* There is never more than one unanswered attempt for each refused one,   *)
(* plus one.                                                               *)
THEOREM QueueBounded == Spec => []QueueBoundedByFailures
<1>1. IInv => QueueBoundedByFailures
    BY DEF IInv, AttemptsPaid, QueueBoundedByFailures
<1> QED BY <1>1, Inductive, PTL

(* The PAM child checks nothing after a success.                           *)
THEOREM SuccessLast == Spec => []SuccessIsLast
<1>1. IInv => SuccessIsLast
    BY DEF IInv
<1> QED BY <1>1, Inductive, PTL

(* The locker with its pipes, timers and child implements the promise: the *)
(* attempts are judged in their order, no wrong one opens the session, and *)
(* only a right one, the signal or the end of the connection ends the lock.*)
THEOREM KeepsPromise == Spec => Implements
<1>1. Init => Promise!Init
    <2> SUFFICES ASSUME Init PROVE Promise!Init
        OBVIOUS
    <2>1. replies = << >> /\ requests = << >> /\ Held = << >>
        BY DEF Init, Held
    <2>2. Judged(requests) = << >>
        <3>1. Judged(requests) \in Seq(BOOLEAN) /\ Len(Judged(requests)) = 0
            BY <2>1, EmptySeq, JudgedTyped
        <3> QED BY <3>1, EmptySeq
    <2>3. Pending = << >>
        BY <2>1, <2>2, PendingIs, EmptySeq, ConcatEmptySeq
    <2> QED BY <2>3 DEF Init, Promise!Init
<1>2. IInv /\ [Next]_vars => [Promise!Next]_(Promise!vars)
    <2> SUFFICES ASSUME Typed, TypeOK, [Next]_vars
                 PROVE  Promise!Next \/ UNCHANGED Promise!vars
        BY DEF IInv, Typed
    <2>1. CASE Unseen
        BY <2>1, UnseenStutters
    <2>2. CASE \/ SubmitKills \/ CommHangup \/ FlushError \/ LeaveLoop
               \/ Term \/ DisplayError \/ Signal
        BY <2>2, EndsKept
    <2>3. CASE \/ SubmitWritten \/ CommGrant \/ CommRefuse
               \/ ChildRead \/ ChildAccepts \/ ChildRefuses
               \/ ChildEOF \/ ChildCrashes
        BY <2>3, AttemptsKept
    <2> QED BY <2>1, <2>2, <2>3, KeysUnseen
            DEF Next, Key, Iteration, Timers, ChildStep
<1> QED BY Inductive, <1>1, <1>2, PTL DEF Spec, Implements, Promise!Spec
=============================================================================
