-------------------------- MODULE AetherIdle_proofs --------------------------
(***************************************************************************)
(* Theorems about AetherIdle for any set of timeouts and any budget: the   *)
(* timeouts follow the inhibitors, none is lost, the idle hint is owed a   *)
(* resume, and a daemon at rest delays the computer's sleep.               *)
(***************************************************************************)
EXTENDS AetherIdle, SequenceTheorems, TLAPS

-----------------------------------------------------------------------------
(* The inductive invariant.                                                *)

Calls   == {"hint on", "hint off", "enable", "inhibit"}
Signals == {"property", "sleep", "wake", "stale"}

Typed ==
    /\ life \in {"running", "terminated", "failed"}
    /\ loaded \subseteq Cmds /\ cleared \in BOOLEAN /\ enabled \in BOOLEAN
    /\ notification \in [Cmds -> Timers]
    /\ resumePending \in [Cmds -> BOOLEAN]
    /\ calls \in Seq(Calls)
    /\ listening \in BOOLEAN /\ connected \in BOOLEAN
    /\ rqueue \in Seq(Signals) /\ socket \in Seq(Signals)
    /\ sleepSlot \in BOOLEAN /\ guarded \in BOOLEAN /\ prepared \in BOOLEAN
    /\ sleepLock \in {"none", "held", "closed"} /\ delays \in Nat
    /\ power \in {"awake", "preparing", "asleep"}
    /\ inhibited \in BOOLEAN /\ idleHint \in BOOLEAN

Has(s, x) == \E i \in 1 .. Len(s) : s[i] = x

(* A listener has a bus.  While the timeouts disagree with the inhibitors, *)
(* a signal is on its way, or the call that will enable them is.           *)
Following ==
    life = "running" /\ listening =>
        /\ connected
        /\ ~cleared /\ loaded # {} =>
              \/ enabled = ~inhibited
              \/ Has(Arrived, "property")
              \/ Has(calls, "enable") /\ ~enabled

(* Enabled timeouts are registered, in the middle of a handler too.        *)
Watched ==
    life = "running" /\ enabled =>
        \A c \in loaded \ Never : notification[c] # "none"

(* Where the hint is on, or about to be, a resume is owed, unless the call *)
(* that takes it back is coming.  No handler makes both calls.             *)
Owed ==
    /\ ~(Has(calls, "hint on") /\ Has(calls, "hint off"))
    /\ life = "running" /\ ~cleared /\ HintCmd \in loaded =>
          /\ connected
          /\ \/ Has(calls, "hint off")
             \/ idleHint \/ Has(calls, "hint on") => resumePending[HintCmd]

(* The wake that follows each sleep in the queues.                         *)
Followed(s) ==
    \A i \in 1 .. Len(s) :
        s[i] = "sleep" => \E j \in 1 .. Len(s) : i < j /\ s[j] = "wake"

(* A descriptor that is held is a lock of logind.  Awake, a daemon that    *)
(* listens for sleep has a lock, or a call or a signal that will bring it; *)
(* while the computer prepares for a sleep that found it at rest, it keeps *)
(* the lock until it has handled the signal.                               *)
Locked ==
    /\ life = "running" /\ sleepLock = "held" => delays > 0
    /\ life = "running" /\ sleepSlot /\ power = "awake" =>
          /\ delays > 0 \/ Has(calls, "inhibit") \/ Has(Arrived, "wake")
          /\ Followed(Arrived)
    /\ life = "running" /\ power = "preparing" /\ guarded =>
          /\ sleepSlot
          /\ prepared \/ (delays > 0 /\ Has(Arrived, "sleep"))
    /\ life = "running" /\ power = "asleep" /\ guarded =>
          prepared \/ Has(rqueue, "sleep")

IInv == Typed /\ Following /\ Watched /\ Owed /\ Locked

-----------------------------------------------------------------------------
(* Sequences.                                                              *)

LEMMA HasNone == \A x : ~Has(<< >>, x)
    BY DEF Has

LEMMA HasOne == ASSUME NEW S, NEW x \in S PROVE \A y : Has(<< x >>, y) <=> x = y
    BY DEF Has

LEMMA OneSeq == ASSUME NEW S, NEW x \in S PROVE << x >> \in Seq(S)
    OBVIOUS

LEMMA HasAppend ==
    ASSUME NEW S, NEW s \in Seq(S), NEW x \in S
    PROVE  \A y : Has(Append(s, x), y) <=> Has(s, y) \/ x = y
<1>1. /\ Len(s) \in Nat
      /\ Len(Append(s, x)) = Len(s) + 1
      /\ \A i \in 1 .. Len(s) : Append(s, x)[i] = s[i]
      /\ Append(s, x)[Len(s) + 1] = x
    BY AppendProperties, LenProperties
<1> QED BY <1>1 DEF Has

LEMMA HasConcat ==
    ASSUME NEW S, NEW s \in Seq(S), NEW t \in Seq(S)
    PROVE  \A y : Has(s \o t, y) <=> Has(s, y) \/ Has(t, y)
<1> DEFINE m == Len(s)
           n == Len(t)
<1>1. /\ m \in Nat /\ n \in Nat
      /\ Len(s \o t) = m + n
      /\ \A i \in 1 .. m + n : (s \o t)[i] = IF i <= m THEN s[i] ELSE t[i - m]
    BY ConcatProperties, LenProperties
<1>2. ASSUME NEW i \in 1 .. n PROVE m + i \in 1 .. m + n /\ (s \o t)[m + i] = t[i]
    BY <1>1
<1> QED BY <1>1, <1>2 DEF Has

LEMMA HasTail ==
    ASSUME NEW S, NEW s \in Seq(S), s # << >>
    PROVE  \A y : Has(s, y) <=> Head(s) = y \/ Has(Tail(s), y)
<1>1. /\ Len(s) \in Nat \ {0}
      /\ Len(Tail(s)) = Len(s) - 1
      /\ \A i \in 1 .. Len(s) - 1 : Tail(s)[i] = s[i + 1]
      /\ Head(s) = s[1]
    BY EmptySeq, HeadTailProperties
<1>2. \A i \in 2 .. Len(s) : i - 1 \in 1 .. Len(s) - 1 /\ s[i] = Tail(s)[i - 1]
    BY <1>1
<1>3. ASSUME NEW y, Has(s, y) PROVE Head(s) = y \/ Has(Tail(s), y)
    BY <1>1, <1>2, <1>3 DEF Has
<1>4. ASSUME NEW y, Head(s) = y PROVE Has(s, y)
    BY <1>1, <1>4 DEF Has
<1>5. ASSUME NEW y, Has(Tail(s), y) PROVE Has(s, y)
    <2>1. PICK i \in 1 .. Len(s) - 1 : Tail(s)[i] = y
        BY <1>1, <1>5 DEF Has
    <2>2. i + 1 \in 1 .. Len(s) /\ s[i + 1] = y
        BY <1>1, <2>1
    <2> QED BY <2>2 DEF Has
<1> QED BY <1>3, <1>4, <1>5

LEMMA FollowedAppend ==
    ASSUME NEW S, NEW s \in Seq(S), NEW x \in S
    PROVE  /\ Followed(s) /\ x # "sleep" => Followed(Append(s, x))
           /\ x = "wake" => Followed(Append(s, x))
<1>1. /\ Len(s) \in Nat
      /\ Len(Append(s, x)) = Len(s) + 1
      /\ \A i \in 1 .. Len(s) : Append(s, x)[i] = s[i]
      /\ Append(s, x)[Len(s) + 1] = x
    BY AppendProperties, LenProperties
<1> QED BY <1>1 DEF Followed

LEMMA FollowedTail ==
    ASSUME NEW S, NEW s \in Seq(S), s # << >>, Followed(s)
    PROVE  /\ Followed(Tail(s))
           /\ Head(s) = "sleep" => Has(Tail(s), "wake")
<1>1. /\ Len(s) \in Nat \ {0}
      /\ Len(Tail(s)) = Len(s) - 1
      /\ \A i \in 1 .. Len(s) - 1 : Tail(s)[i] = s[i + 1]
      /\ Head(s) = s[1]
    BY EmptySeq, HeadTailProperties
<1>2. \A i \in 2 .. Len(s) : i - 1 \in 1 .. Len(s) - 1 /\ s[i] = Tail(s)[i - 1]
    BY <1>1
<1>3. Followed(Tail(s))
    <2>1. ASSUME NEW i \in 1 .. Len(s) - 1, Tail(s)[i] = "sleep"
          PROVE  \E j \in 1 .. Len(s) - 1 : i < j /\ Tail(s)[j] = "wake"
        <3>1. PICK j \in 1 .. Len(s) : i + 1 < j /\ s[j] = "wake"
            BY <1>1, <2>1 DEF Followed
        <3> QED BY <1>1, <1>2, <3>1
    <2> QED BY <1>1, <2>1 DEF Followed
<1>4. ASSUME Head(s) = "sleep" PROVE Has(Tail(s), "wake")
    <2>1. PICK j \in 1 .. Len(s) : 1 < j /\ s[j] = "wake"
        BY <1>1, <1>4 DEF Followed
    <2> QED BY <1>1, <1>2, <2>1 DEF Has
<1> QED BY <1>3, <1>4

-----------------------------------------------------------------------------
(* The queues of signals and of calls.                                     *)

LEMMA ArrivedTyped == Typed => Arrived \in Seq(Signals)
    BY ConcatProperties DEF Typed, Arrived

LEMMA SyncedQueue ==
    ASSUME Typed, SyncCall
    PROVE  Arrived' = Arrived /\ rqueue' \in Seq(Signals) /\ socket' \in Seq(Signals)
<1>1. rqueue \in Seq(Signals) /\ socket \in Seq(Signals)
    BY DEF Typed
<1>2. rqueue \o socket \in Seq(Signals) /\ << >> \in Seq(Signals)
    BY <1>1, ConcatProperties, EmptySeq
<1>3. (rqueue \o socket) \o << >> = rqueue \o socket
    BY <1>2, ConcatEmptySeq
<1> QED BY <1>1, <1>2, <1>3 DEF SyncCall, Arrived

LEMMA TakenQueue ==
    ASSUME Typed, socket # << >>,
           Take \/ (rqueue' = Tail(Arrived) /\ socket' = << >>)
    PROVE  /\ Arrived # << >> /\ Arrived' = Tail(Arrived)
           /\ rqueue' \in Seq(Signals) /\ socket' \in Seq(Signals)
<1>1. rqueue \in Seq(Signals) /\ socket \in Seq(Signals)
    BY DEF Typed
<1>2. Arrived \in Seq(Signals) /\ Arrived # << >>
    BY <1>1, ArrivedTyped, ConcatEqualIffEmpty DEF Arrived
<1>3. Tail(Arrived) \in Seq(Signals) /\ Tail(socket) \in Seq(Signals)
    BY <1>1, <1>2, HeadTailProperties
<1>4. CASE rqueue' = Tail(Arrived) /\ socket' = << >>
    BY <1>2, <1>3, <1>4, ConcatEmptySeq, EmptySeq DEF Arrived
<1>5. CASE Take /\ rqueue # << >>
    <2>1. Tail(rqueue) \in Seq(Signals) /\ Tail(rqueue \o socket) = Tail(rqueue) \o socket
        BY <1>1, <1>5, HeadTailProperties
    <2> QED BY <1>1, <1>2, <1>5, <2>1 DEF Take, Arrived
<1>6. CASE Take /\ rqueue = << >>
    <2>1. rqueue \o socket = socket /\ rqueue \o Tail(socket) = Tail(socket)
        BY <1>1, <1>3, <1>6, ConcatEmptySeq
    <2> QED BY <1>1, <1>2, <1>3, <1>6, <2>1 DEF Take, Arrived
<1> QED BY <1>4, <1>5, <1>6

LEMMA SentSignal ==
    ASSUME Typed, NEW x \in Signals, socket' = Append(socket, x), rqueue' = rqueue
    PROVE  Arrived' = Append(Arrived, x) /\ socket' \in Seq(Signals)
<1>1. rqueue \in Seq(Signals) /\ socket \in Seq(Signals)
    BY DEF Typed
<1>2. socket' \in Seq(Signals)
    BY <1>1, AppendProperties
<1>3. rqueue \o Append(socket, x) = Append(rqueue \o socket, x)
    BY <1>1
<1> QED BY <1>2, <1>3 DEF Arrived

(* What a reload does to the signals that it reads while it sets a slot.   *)
LEMMA OutdatedQueue ==
    ASSUME NEW A \in SUBSET (Signals \ {"stale"}), Typed,
           rqueue' = Outdated(A) /\ socket' = << >>
    PROVE  /\ rqueue' \in Seq(Signals) /\ socket' \in Seq(Signals)
           /\ \A x \in Signals \ {"stale"} :
                 Has(Arrived, x)' <=> Has(Arrived, x) /\ ~(x \in A)
           /\ "sleep" \in A => Followed(Arrived)'
           /\ ~("wake" \in A) /\ Followed(Arrived) => Followed(Arrived)'
<1> DEFINE n == Len(Arrived)
<1>1. /\ Arrived \in Seq(Signals) /\ n \in Nat /\ DOMAIN Arrived = 1 .. n
      /\ \A i \in 1 .. n : Arrived[i] \in Signals
    BY ArrivedTyped, LenProperties, ElementOfSeq
<1>2. rqueue' = [i \in 1 .. n |-> IF Arrived[i] \in A THEN "stale" ELSE Arrived[i]]
    BY <1>1 DEF Outdated
<1>3. rqueue' \in Seq(Signals) /\ Len(rqueue') = n
    BY <1>1, <1>2 DEF Signals
<1>4. Arrived' = rqueue' /\ socket' \in Seq(Signals)
    BY <1>3, ConcatEmptySeq, EmptySeq DEF Arrived
<1>5. \A x \in Signals \ {"stale"} :
          Has(Arrived', x) <=> Has(Arrived, x) /\ ~(x \in A)
    BY <1>1, <1>2, <1>3, <1>4 DEF Has
<1>6. "sleep" \in A => Followed(Arrived')
    BY <1>1, <1>2, <1>3, <1>4 DEF Followed
<1>7. ~("wake" \in A) /\ Followed(Arrived) => Followed(Arrived')
    BY <1>1, <1>2, <1>3, <1>4 DEF Followed
<1> QED BY <1>3, <1>4, <1>5, <1>6, <1>7

LEMMA TakenSignal ==
    ASSUME Typed, NEW x, Readable(x),
           Take \/ (rqueue' = Tail(Arrived) /\ socket' = << >>)
    PROVE  /\ \A y : Has(Arrived, y) <=> x = y \/ Has(Arrived, y)'
           /\ Followed(Arrived) =>
                 Followed(Arrived)' /\ (x = "sleep" => Has(Arrived, "wake")')
<1>1. socket # << >> /\ Head(Arrived) = x
    BY DEF Readable, Oldest
<1>2. Arrived \in Seq(Signals) /\ Arrived # << >> /\ Arrived' = Tail(Arrived)
    BY <1>1, ArrivedTyped, TakenQueue
<1>3. \A y : Has(Arrived, y) <=> x = y \/ Has(Tail(Arrived), y)
    BY <1>1, <1>2, HasTail
<1>4. Followed(Arrived) =>
          /\ Followed(Tail(Arrived))
          /\ x = "sleep" => Has(Tail(Arrived), "wake")
    BY <1>1, <1>2, FollowedTail
<1> QED BY <1>2, <1>3, <1>4

LEMMA SentHas ==
    ASSUME Typed, NEW x \in Signals, socket' = Append(socket, x), rqueue' = rqueue
    PROVE  /\ \A y : Has(Arrived, y)' <=> Has(Arrived, y) \/ x = y
           /\ Followed(Arrived) /\ x # "sleep" => Followed(Arrived)'
           /\ x = "wake" => Followed(Arrived)'
<1>1. Arrived' = Append(Arrived, x) /\ Arrived \in Seq(Signals)
    BY SentSignal, ArrivedTyped
<1>2. /\ \A y : Has(Append(Arrived, x), y) <=> Has(Arrived, y) \/ x = y
      /\ Followed(Arrived) /\ x # "sleep" => Followed(Append(Arrived, x))
      /\ x = "wake" => Followed(Append(Arrived, x))
    BY <1>1, HasAppend, FollowedAppend
<1> QED BY <1>1, <1>2

LEMMA CallMade ==
    ASSUME Typed, calls # << >>, calls' = Tail(calls)
    PROVE  /\ calls' \in Seq(Calls)
           /\ \A x : Has(calls, x) <=> Head(calls) = x \/ Has(calls', x)
    BY HeadTailProperties, HasTail DEF Typed

LEMMA OneCall ==
    ASSUME NEW x \in Calls, calls' = << x >>
    PROVE  calls' \in Seq(Calls) /\ \A y : Has(calls', y) <=> x = y
    BY HasOne

LEMMA ReloadCalls ==
    ASSUME NEW cmds, NEW line,
           calls' = LockCall(line)
                    \o (IF HintCmd \in cmds THEN << "hint off" >> ELSE << >>)
                    \o (IF cmds # {} THEN << "enable" >> ELSE << >>)
    PROVE  /\ calls' \in Seq(Calls)
           /\ ~Has(calls', "hint on")
           /\ Has(calls', "hint off") <=> HintCmd \in cmds
           /\ Has(calls', "enable") <=> cmds # {}
           /\ Has(calls', "inhibit") <=> line /\ ~sleepSlot
<1> DEFINE a == LockCall(line)
           b == IF HintCmd \in cmds THEN << "hint off" >> ELSE << >>
           c == IF cmds # {} THEN << "enable" >> ELSE << >>
<1>1. /\ << >> \in Seq(Calls) /\ << "inhibit" >> \in Seq(Calls)
      /\ << "hint off" >> \in Seq(Calls) /\ << "enable" >> \in Seq(Calls)
    <2>1. "inhibit" \in Calls /\ "hint off" \in Calls /\ "enable" \in Calls
        BY DEF Calls
    <2>2. << >> \in Seq(Calls)
        BY EmptySeq
    <2>3. ASSUME NEW x \in Calls PROVE << x >> \in Seq(Calls)
        BY OneSeq
    <2> QED BY <2>1, <2>2, <2>3
<1>2. a \in Seq(Calls) /\ \A x : Has(a, x) <=> line /\ ~sleepSlot /\ x = "inhibit"
    BY <1>1, HasNone, HasOne DEF LockCall
<1>3. b \in Seq(Calls) /\ \A x : Has(b, x) <=> HintCmd \in cmds /\ x = "hint off"
    BY <1>1, HasNone, HasOne
<1>4. c \in Seq(Calls) /\ \A x : Has(c, x) <=> cmds # {} /\ x = "enable"
    BY <1>1, HasNone, HasOne
<1> HIDE DEF a, b, c
<1>5. a \o b \in Seq(Calls) /\ \A x : Has(a \o b, x) <=> Has(a, x) \/ Has(b, x)
    BY <1>2, <1>3, HasConcat, ConcatProperties
<1>6. /\ (a \o b) \o c \in Seq(Calls)
      /\ \A x : Has((a \o b) \o c, x) <=> Has(a \o b, x) \/ Has(c, x)
    BY <1>4, <1>5, HasConcat, ConcatProperties
<1>7. calls' = (a \o b) \o c
    BY DEF a, b, c
<1>8. calls' \in Seq(Calls) /\ \A x : Has(calls', x) <=> Has(a, x) \/ Has(b, x) \/ Has(c, x)
    BY <1>5, <1>6, <1>7
<1>9. /\ "hint on" # "hint off" /\ "hint on" # "enable" /\ "hint on" # "inhibit"
      /\ "hint off" # "enable" /\ "hint off" # "inhibit" /\ "enable" # "inhibit"
    OBVIOUS
<1> QED BY <1>2, <1>3, <1>4, <1>8, <1>9, Zenon

LEMMA ListenersQueue ==
    ASSUME Typed, NEW need \in BOOLEAN, NEW line \in BOOLEAN, line => need,
           Listeners(need, line)
    PROVE  /\ rqueue' \in Seq(Signals) /\ socket' \in Seq(Signals)
           /\ line /\ ~sleepSlot => Followed(Arrived)'
           /\ line /\ sleepSlot =>
                 /\ Has(Arrived, "wake")' <=> Has(Arrived, "wake")
                 /\ Has(Arrived, "sleep")' <=> Has(Arrived, "sleep")
                 /\ Followed(Arrived) => Followed(Arrived)'
<1> DEFINE news == (IF need /\ ~listening THEN {"property"} ELSE {})
                   \cup (IF line /\ ~sleepSlot THEN {"sleep", "wake"} ELSE {})
<1>1. /\ news \in SUBSET (Signals \ {"stale"})
      /\ ("sleep" \in news <=> line /\ ~sleepSlot)
      /\ ("wake" \in news <=> line /\ ~sleepSlot)
    BY DEF Signals
<1>2. \/ rqueue' = Outdated(news) /\ socket' = << >>
      \/ ~(line /\ ~sleepSlot) /\ rqueue' = rqueue /\ socket' = socket
    BY DEF Listeners
<1> HIDE DEF news
<1>3. CASE rqueue' = Outdated(news) /\ socket' = << >>
    <2>1. "wake" \in Signals \ {"stale"} /\ "sleep" \in Signals \ {"stale"}
        BY DEF Signals
    <2> QED BY <1>1, <1>3, <2>1, OutdatedQueue
<1>4. CASE ~(line /\ ~sleepSlot) /\ rqueue' = rqueue /\ socket' = socket
    <2>1. Arrived' = Arrived
        BY <1>4 DEF Arrived
    <2> QED BY <1>4, <2>1 DEF Typed
<1> QED BY <1>2, <1>3, <1>4

-----------------------------------------------------------------------------
(* Steps that touch nothing the invariant speaks of.                       *)

LEMMA QuietStep ==
    ASSUME IInv,
           UNCHANGED << life, clientVars, calls, busVars, sleepVars, logindVars >>
    PROVE  IInv'
<1>1. Arrived' = Arrived
    BY DEF Arrived, busVars
<1>2. Typed'
    BY DEF IInv, Typed, clientVars, busVars, sleepVars, logindVars
<1>3. Following'
    BY <1>1 DEF IInv, Following, clientVars, busVars, logindVars
<1>4. Watched'
    BY DEF IInv, Watched, clientVars
<1>5. Owed'
    BY DEF IInv, Owed, clientVars, busVars, logindVars
<1>6. Locked'
    BY <1>1 DEF IInv, Locked, busVars, sleepVars
<1> QED BY <1>2, <1>3, <1>4, <1>5, <1>6 DEF IInv

Quiet ==
    \/ UserLeaves \/ UserReturns \/ Neighbours \/ UNCHANGED vars

LEMMA QuietSteps == ASSUME IInv, Quiet PROVE IInv'
    BY QuietStep
    DEF Quiet, UserLeaves, UserReturns, Neighbours, SendIdled, SendResumed, vars

(* The steps that are not quiet.                                           *)
Works ==
    \/ EnableTimeouts \/ SetIdleHint \/ AcquireInhibitorLock
    \/ \E c \in Cmds : HandleIdled(c) \/ HandleResumed(c)
    \/ HandlePropertyChanged \/ PrepareForSleep \/ ResumeFromSleep
    \/ IgnoreMessage \/ Sigusr1 \/ Terminate
    \/ ReloadWorks \/ ReloadFails \/ ReloadExits
    \/ InhibitorChanges \/ SleepPrepared \/ Sleeps \/ Wakes

LEMMA StepIsOne == [Next]_vars => Quiet \/ Works
    BY DEF Next, Call, DisplayEvent, DbusEvent, Reload, SleepCycle, Quiet, Works

-----------------------------------------------------------------------------
(* Types.                                                                  *)

LEMMA InitTyped == Init => Typed
<1> SUFFICES ASSUME Init PROVE Typed
    OBVIOUS
<1>1. << >> \in Seq(Signals) /\ << >> \in Seq(Calls)
    BY EmptySeq
<1>2. calls \in Seq(Calls)
    <2> DEFINE a == IF sleepSlot THEN << "inhibit" >> ELSE << >>
               b == IF HintCmd \in loaded THEN << "hint off" >> ELSE << >>
    <2>1. "inhibit" \in Calls /\ "hint off" \in Calls /\ "enable" \in Calls
        BY DEF Calls
    <2>2. << "inhibit" >> \in Seq(Calls) /\ << "hint off" >> \in Seq(Calls)
          /\ << "enable" >> \in Seq(Calls)
        BY <2>1, OneSeq
    <2>3. a \in Seq(Calls) /\ b \in Seq(Calls)
        BY <1>1, <2>2
    <2> HIDE DEF a, b
    <2>4. (a \o b) \o << "enable" >> \in Seq(Calls)
        BY <2>2, <2>3, ConcatProperties
    <2> QED BY <2>4 DEF Init, a, b
<1> QED BY <1>1, <1>2 DEF Init, Typed, Timers, NeedLogind

LEMMA StepTyped == ASSUME IInv, Works PROVE Typed'
<1>1. Typed
    BY DEF IInv
<1>2. \A x \in Calls : << x >> \in Seq(Calls)
    BY OneSeq
<1>3. << >> \in Seq(Calls) /\ << "enable" >> \in Seq(Calls)
      /\ << "hint on" >> \in Seq(Calls) /\ << "hint off" >> \in Seq(Calls)
      /\ << "inhibit" >> \in Seq(Calls)
    BY <1>2, EmptySeq DEF Calls
<1>4. << "inhibit" >> \o (IF HintCmd \in loaded THEN << "hint off" >> ELSE << >>)
        \in Seq(Calls)
    BY <1>3, ConcatProperties
<1>5. sleepLock = "held" /\ life = "running" => delays - 1 \in Nat
    BY DEF IInv, Typed, Locked
<1>6. "property" \in Signals /\ "sleep" \in Signals /\ "wake" \in Signals
    BY DEF Signals
<1>7. CASE EnableTimeouts
    <2>1. calls' \in Seq(Calls) /\ calls # << >>
        BY <1>1, <1>7, CallMade DEF EnableTimeouts
    <2>2. rqueue' \in Seq(Signals) /\ socket' \in Seq(Signals)
        BY <1>1, <1>7, SyncedQueue DEF EnableTimeouts, Typed
    <2>3. enabled' \in BOOLEAN /\ notification' \in [Cmds -> Timers]
        BY <1>1, <1>7
        DEF EnableTimeouts, Typed, Timers, RegisterTimeouts, NoRegistration
    <2> QED BY <1>1, <1>7, <2>1, <2>2, <2>3
        DEF EnableTimeouts, Typed, sleepVars, logindVars
<1>8. CASE SetIdleHint
    <2>1. calls' \in Seq(Calls)
        BY <1>1, <1>8, CallMade DEF SetIdleHint
    <2>2. rqueue' \in Seq(Signals) /\ socket' \in Seq(Signals)
        BY <1>1, <1>8, SyncedQueue DEF SetIdleHint
    <2>3. idleHint' \in BOOLEAN /\ inhibited' = inhibited
        BY <1>1, <1>8 DEF SetIdleHint, Typed
    <2>4. UNCHANGED << life, clientVars, listening, connected, sleepVars >>
        BY <1>8 DEF SetIdleHint
    <2> QED BY <1>1, <2>1, <2>2, <2>3, <2>4 DEF Typed, clientVars, sleepVars
<1>9. CASE AcquireInhibitorLock
    <2>1. calls' \in Seq(Calls)
        BY <1>1, <1>9, CallMade DEF AcquireInhibitorLock
    <2>2. rqueue' \in Seq(Signals) /\ socket' \in Seq(Signals)
        BY <1>1, <1>9, SyncedQueue DEF AcquireInhibitorLock
    <2> QED BY <1>1, <1>9, <2>1, <2>2
        DEF AcquireInhibitorLock, Typed, clientVars, logindVars
<1>10. ASSUME NEW c \in Cmds, HandleIdled(c) PROVE Typed'
    <2>1. calls' \in Seq(Calls)
        BY <1>3, <1>10 DEF HandleIdled
    <2>2. resumePending' \in [Cmds -> BOOLEAN]
        BY <1>1, <1>10 DEF HandleIdled, Typed
    <2>3. UNCHANGED << life, loaded, cleared, enabled, notification, busVars,
                       sleepVars, logindVars >>
        BY <1>10 DEF HandleIdled
    <2> QED BY <1>1, <2>1, <2>2, <2>3 DEF Typed, busVars, sleepVars, logindVars
<1>11. ASSUME NEW c \in Cmds, HandleResumed(c) PROVE Typed'
    <2>1. calls' \in Seq(Calls)
        BY <1>3, <1>11 DEF HandleResumed
    <2>2. notification' \in [Cmds -> Timers]
        BY <1>1, <1>11 DEF HandleResumed, RegisterTimeouts, Typed, Timers
    <2>3. resumePending' \in [Cmds -> BOOLEAN]
        BY <1>1, <1>11 DEF HandleResumed, Typed
    <2>4. UNCHANGED << life, loaded, cleared, enabled, busVars, sleepVars,
                       logindVars >>
        BY <1>11 DEF HandleResumed
    <2> QED BY <1>1, <2>1, <2>2, <2>3, <2>4
        DEF Typed, busVars, sleepVars, logindVars
<1>12. CASE HandlePropertyChanged
    <2>1. rqueue' \in Seq(Signals) /\ socket' \in Seq(Signals)
        BY <1>1, <1>12, TakenQueue DEF HandlePropertyChanged, Readable
    <2>2. calls' \in Seq(Calls)
        BY <1>1, <1>3, <1>12 DEF HandlePropertyChanged, DisableTimeouts, Typed
    <2>3. enabled' \in BOOLEAN /\ notification' \in [Cmds -> Timers]
        BY <1>1, <1>12 DEF HandlePropertyChanged, DisableTimeouts, Typed, Timers
    <2> QED BY <1>1, <1>12, <2>1, <2>2, <2>3
        DEF HandlePropertyChanged, Typed, sleepVars, logindVars
<1>13. CASE PrepareForSleep
    <2>1. rqueue' \in Seq(Signals) /\ socket' \in Seq(Signals)
        BY <1>1, <1>13, TakenQueue DEF PrepareForSleep, Readable
    <2> QED BY <1>1, <1>5, <1>13, <2>1
        DEF PrepareForSleep, Readable, InLoop, Up, ReleaseInhibitorLock, Typed,
            clientVars, logindVars
<1>14. CASE ResumeFromSleep
    <2>1. rqueue' \in Seq(Signals) /\ socket' \in Seq(Signals)
        BY <1>1, <1>14, TakenQueue DEF ResumeFromSleep, Readable
    <2>2. calls' \in Seq(Calls)
        BY <1>4, <1>14 DEF ResumeFromSleep
    <2>3. UNCHANGED << life, clientVars, listening, connected, sleepVars,
                       logindVars >>
        BY <1>14 DEF ResumeFromSleep
    <2> QED BY <1>1, <2>1, <2>2, <2>3 DEF Typed, clientVars, sleepVars, logindVars
<1>15. CASE IgnoreMessage
    <2>1. rqueue' \in Seq(Signals) /\ socket' \in Seq(Signals)
        BY <1>1, <1>15, TakenQueue DEF IgnoreMessage, Readable
    <2> QED BY <1>1, <1>15, <2>1
        DEF IgnoreMessage, Typed, clientVars, sleepVars, logindVars
<1>16. CASE Sigusr1
    BY <1>1, <1>16
    DEF Sigusr1, Typed, Timers, busVars, sleepVars, logindVars
<1>17. CASE Terminate
    BY <1>1, <1>17 DEF Terminate, Typed, Timers, busVars
<1>18. CASE ReloadWorks
    <2>1. PICK cmds \in SUBSET Cmds, line \in BOOLEAN, other \in BOOLEAN :
              /\ ClearAndLoad(cmds)
              /\ Listeners(NeedLogind(cmds, line \/ other), line)
              /\ SleepListener(line)
              /\ calls' = LockCall(line)
                    \o (IF HintCmd \in cmds THEN << "hint off" >> ELSE << >>)
                    \o (IF cmds # {} THEN << "enable" >> ELSE << >>)
        BY <1>18 DEF ReloadWorks
    <2>2. calls' \in Seq(Calls)
        BY <2>1, ReloadCalls
    <2>3. NeedLogind(cmds, line \/ other) \in BOOLEAN
          /\ (line => NeedLogind(cmds, line \/ other))
        BY DEF NeedLogind
    <2>4. rqueue' \in Seq(Signals) /\ socket' \in Seq(Signals)
        BY <1>1, <2>1, <2>3, ListenersQueue
    <2>5. /\ life' = life /\ life = "running" /\ cleared' = FALSE
          /\ inhibited' = inhibited /\ idleHint' = idleHint
        BY <1>18 DEF ReloadWorks, InLoop, Up, logindVars
    <2>6. sleepSlot' \in BOOLEAN /\ sleepLock' \in {"none", "held", "closed"}
          /\ delays' \in Nat /\ guarded' \in BOOLEAN
          /\ power' = power /\ prepared' = prepared
        BY <1>1, <1>5, <2>1, <2>5 DEF SleepListener, Typed
    <2>7. listening' \in BOOLEAN /\ connected' \in BOOLEAN
        BY <1>1, <2>1, <2>3 DEF Listeners, Typed
    <2> QED BY <1>1, <2>1, <2>2, <2>4, <2>5, <2>6, <2>7
        DEF ClearAndLoad, Typed, Timers
<1>19. CASE ReloadFails
    <2>1. /\ cleared' = TRUE /\ loaded' \subseteq Cmds /\ enabled' = FALSE
          /\ notification' = [c \in Cmds |-> "none"]
          /\ resumePending' = [c \in Cmds |-> FALSE]
          /\ UNCHANGED << life, calls, listening, connected, rqueue, socket,
                          sleepSlot, sleepLock, delays, power, guarded, prepared,
                          inhibited, idleHint >>
        BY <1>19 DEF ReloadFails, ClearAndLoad, busVars, sleepVars, logindVars
    <2> QED BY <1>1, <2>1 DEF Typed, Timers
<1>20. CASE ReloadExits
    BY <1>1, <1>20
    DEF ReloadExits, ClearAndLoad, Typed, Timers, busVars, logindVars
<1>21. CASE InhibitorChanges
    BY <1>1, <1>6, <1>21, SentSignal
    DEF InhibitorChanges, Typed, clientVars, sleepVars
<1>22. CASE SleepPrepared
    BY <1>1, <1>6, <1>22, SentSignal
    DEF SleepPrepared, Signal, InLoop, Up, Read, Typed, clientVars, logindVars
<1>23. CASE Sleeps
    BY <1>1, <1>23 DEF Sleeps, Typed, clientVars, busVars, logindVars
<1>24. CASE Wakes
    BY <1>1, <1>6, <1>24, SentSignal
    DEF Wakes, Signal, Typed, clientVars, logindVars
<1> QED
    BY <1>7, <1>8, <1>9, <1>10, <1>11, <1>12, <1>13, <1>14, <1>15, <1>16, <1>17,
       <1>18, <1>19, <1>20, <1>21, <1>22, <1>23, <1>24
    DEF Works

-----------------------------------------------------------------------------
(* The timeouts and the inhibitors.                                        *)

LEMMA InitFollowing == Init => Following
<1> SUFFICES ASSUME Init PROVE Following
    OBVIOUS
<1> DEFINE a == (IF sleepSlot THEN << "inhibit" >> ELSE << >>)
                \o (IF HintCmd \in loaded THEN << "hint off" >> ELSE << >>)
<1>1. "inhibit" \in Calls /\ "hint off" \in Calls /\ "enable" \in Calls
    BY DEF Calls
<1>2. << "inhibit" >> \in Seq(Calls) /\ << "hint off" >> \in Seq(Calls)
      /\ << "enable" >> \in Seq(Calls) /\ << >> \in Seq(Calls)
    BY <1>1, OneSeq, EmptySeq
<1>3. a \in Seq(Calls)
    BY <1>2, ConcatProperties
<1>4. calls = a \o << "enable" >>
    BY DEF Init
<1> HIDE DEF a
<1>5. Has(calls, "enable")
    BY <1>1, <1>2, <1>3, <1>4, HasConcat, HasOne
<1>6. listening = connected /\ enabled = FALSE
    BY DEF Init
<1> QED BY <1>5, <1>6 DEF Following

LEMMA StepFollowing == ASSUME IInv, Works PROVE Following'
<1>1. Typed /\ Following
    BY DEF IInv
<1>2. InLoop => life = "running" /\ \A x : ~Has(calls, x)
    BY HasNone DEF InLoop, Up
<1> USE DEF Following
<1>7. CASE EnableTimeouts
    <2>1. CASE enabled
        <3>1. Arrived' = Arrived /\ UNCHANGED << life, loaded, cleared, enabled,
                                               listening, connected, inhibited >>
            BY <1>7, <2>1 DEF EnableTimeouts, logindVars, Arrived
        <3> QED BY <1>1, <2>1, <3>1
    <2>2. CASE ~enabled
        <3>1. enabled' = ~(connected /\ inhibited)
              /\ UNCHANGED << life, loaded, cleared, listening, connected, inhibited >>
            BY <1>1, <1>7, <2>2
            DEF EnableTimeouts, logindVars, SeesInhibitor, Typed
        <3> QED BY <1>1, <3>1
    <2> QED BY <2>1, <2>2
<1>8. CASE SetIdleHint \/ AcquireInhibitorLock
    <2>1. calls # << >> /\ calls' = Tail(calls) /\ Head(calls) # "enable" /\ SyncCall
          /\ UNCHANGED << life, loaded, cleared, enabled, listening, connected,
                          inhibited >>
        BY <1>8 DEF SetIdleHint, AcquireInhibitorLock, clientVars, logindVars
    <2>2. Arrived' = Arrived
        BY <1>1, <2>1, SyncedQueue
    <2>3. Has(calls, "enable") => Has(calls', "enable")
        BY <1>1, <2>1, CallMade
    <2> QED BY <1>1, <2>1, <2>2, <2>3
<1>9. ASSUME NEW c \in Cmds, HandleIdled(c) \/ HandleResumed(c) PROVE Following'
    <2>1. InLoop /\ Arrived' = Arrived
          /\ UNCHANGED << life, loaded, cleared, enabled, listening, connected,
                          inhibited >>
        BY <1>9
        DEF HandleIdled, HandleResumed, NextEvent, Arrived, busVars, logindVars
    <2> QED BY <1>1, <1>2, <2>1
<1>10. CASE HandlePropertyChanged
    <2>1. InLoop /\ UNCHANGED << life, loaded, cleared, listening, connected,
                                 inhibited >>
        BY <1>10 DEF HandlePropertyChanged, Readable, logindVars
    <2>2. CASE inhibited
        <3>1. enabled' = FALSE
            BY <1>1, <1>10, <2>2 DEF HandlePropertyChanged, DisableTimeouts, Typed
        <3> QED BY <1>1, <2>1, <2>2, <3>1
    <2>3. CASE ~inhibited
        <3>1. enabled' = enabled /\ calls' = << "enable" >>
            BY <1>10, <2>3 DEF HandlePropertyChanged
        <3>2. Has(calls', "enable")
            BY <3>1, HasOne
        <3> QED BY <1>1, <2>1, <2>3, <3>1, <3>2 DEF Typed
    <2> QED BY <2>2, <2>3
<1>11. CASE PrepareForSleep \/ ResumeFromSleep \/ IgnoreMessage
    <2>1. /\ InLoop /\ Take
          /\ UNCHANGED << life, loaded, cleared, enabled, listening, connected,
                          inhibited >>
        BY <1>11
        DEF PrepareForSleep, ResumeFromSleep, IgnoreMessage, Readable, clientVars,
            logindVars
    <2>2. \E x \in Signals : Readable(x) /\ (listening => x # "property")
        <3>1. \/ Readable("sleep") \/ Readable("wake") \/ Readable("stale")
              \/ Readable("property") /\ ~listening
            BY <1>11 DEF PrepareForSleep, ResumeFromSleep, IgnoreMessage
        <3> QED BY <3>1 DEF Signals
    <2>3. listening => (Has(Arrived, "property") => Has(Arrived, "property")')
        <3>1. PICK x \in Signals : Readable(x) /\ (listening => x # "property")
            BY <2>2
        <3> QED BY <1>1, <2>1, <3>1, TakenSignal
    <2> QED BY <1>1, <1>2, <2>1, <2>3
<1>12. CASE Sigusr1
    BY <1>1, <1>12 DEF Sigusr1, Arrived, busVars, logindVars
<1>13. CASE Terminate \/ ReloadExits
    BY <1>13 DEF Terminate, ReloadExits
<1>14. CASE ReloadWorks
    <2>1. PICK cmds \in SUBSET Cmds, line \in BOOLEAN, other \in BOOLEAN :
              /\ ClearAndLoad(cmds)
              /\ Listeners(NeedLogind(cmds, line \/ other), line)
              /\ calls' = LockCall(line)
                    \o (IF HintCmd \in cmds THEN << "hint off" >> ELSE << >>)
                    \o (IF cmds # {} THEN << "enable" >> ELSE << >>)
        BY <1>14 DEF ReloadWorks
    <2>2. Has(calls', "enable") <=> cmds # {}
        BY <2>1, ReloadCalls
    <2>3. loaded' = cmds /\ enabled' = FALSE
        BY <2>1 DEF ClearAndLoad
    <2>4. listening' => connected'
        BY <2>1 DEF Listeners
    <2> QED BY <2>2, <2>3, <2>4
<1>15. CASE ReloadFails
    BY <1>1, <1>15 DEF ReloadFails, busVars
<1>16. CASE InhibitorChanges
    <2>1. UNCHANGED << life, loaded, cleared, enabled, listening, connected, calls >>
        BY <1>16 DEF InhibitorChanges, clientVars
    <2>2. CASE listening
        <3>1. "property" \in Signals
            BY DEF Signals
        <3>2. Has(Arrived, "property")'
            BY <1>1, <1>16, <2>2, <3>1, SentHas DEF InhibitorChanges
        <3> QED BY <1>1, <2>1, <3>2
    <2> QED BY <2>1, <2>2
<1>17. CASE SleepPrepared \/ Wakes
    <2>1. UNCHANGED << life, loaded, cleared, enabled, listening, connected, calls,
                       inhibited, rqueue >>
        BY <1>17 DEF SleepPrepared, Wakes, clientVars, logindVars
    <2>2. PICK x \in Signals :
              socket' = IF sleepSlot THEN Append(socket, x) ELSE socket
        BY <1>17 DEF SleepPrepared, Wakes, Signal, Signals
    <2>3. Has(Arrived, "property") => Has(Arrived, "property")'
        BY <1>1, <2>1, <2>2, SentHas DEF Arrived
    <2> QED BY <1>1, <2>1, <2>3
<1>18. CASE Sleeps
    BY <1>1, <1>18 DEF Sleeps, Arrived, clientVars, busVars, logindVars
<1> QED
    BY <1>7, <1>8, <1>9, <1>10, <1>11, <1>12, <1>13, <1>14, <1>15, <1>16, <1>17, <1>18
    DEF Works

-----------------------------------------------------------------------------
(* The notifications.                                                      *)

LEMMA StepWatched == ASSUME IInv, Works PROVE Watched'
<1>1. Typed /\ Watched
    BY DEF IInv
<1> USE DEF Watched
<1>2. CASE EnableTimeouts
    BY <1>1, <1>2
    DEF EnableTimeouts, RegisterTimeouts, NoRegistration, SeesInhibitor, Typed
<1>3. CASE SetIdleHint \/ AcquireInhibitorLock
    BY <1>1, <1>3 DEF SetIdleHint, AcquireInhibitorLock, clientVars
<1>4. ASSUME NEW c \in Cmds, HandleIdled(c) PROVE Watched'
    BY <1>1, <1>4 DEF HandleIdled
<1>5. ASSUME NEW c \in Cmds, HandleResumed(c) PROVE Watched'
    BY <1>1, <1>5 DEF HandleResumed, RegisterTimeouts, Typed
<1>6. CASE HandlePropertyChanged
    BY <1>1, <1>6 DEF HandlePropertyChanged, DisableTimeouts
<1>7. CASE PrepareForSleep \/ ResumeFromSleep \/ IgnoreMessage
    BY <1>1, <1>7
    DEF PrepareForSleep, ResumeFromSleep, IgnoreMessage, clientVars
<1>8. CASE Sigusr1
    BY <1>1, <1>8 DEF Sigusr1, Typed
<1>9. CASE Terminate
    BY <1>9 DEF Terminate
<1>10. CASE ReloadWorks \/ ReloadFails \/ ReloadExits
    BY <1>10 DEF ReloadWorks, ReloadFails, ReloadExits, ClearAndLoad
<1>11. CASE InhibitorChanges \/ SleepPrepared \/ Sleeps \/ Wakes
    BY <1>1, <1>11 DEF InhibitorChanges, SleepPrepared, Sleeps, Wakes, clientVars
<1> QED
    BY <1>2, <1>3, <1>4, <1>5, <1>6, <1>7, <1>8, <1>9, <1>10, <1>11 DEF Works

-----------------------------------------------------------------------------
(* The idle hint.                                                          *)

LEMMA InitOwed == Init => Owed
<1> SUFFICES ASSUME Init PROVE Owed
    OBVIOUS
<1> DEFINE a == IF sleepSlot THEN << "inhibit" >> ELSE << >>
           b == IF HintCmd \in loaded THEN << "hint off" >> ELSE << >>
<1>1. /\ "inhibit" \in Calls /\ "hint off" \in Calls /\ "enable" \in Calls
      /\ "inhibit" # "hint on" /\ "hint off" # "hint on" /\ "enable" # "hint on"
    BY DEF Calls
<1>2. << "inhibit" >> \in Seq(Calls) /\ << "hint off" >> \in Seq(Calls)
      /\ << "enable" >> \in Seq(Calls) /\ << >> \in Seq(Calls)
    BY <1>1, OneSeq, EmptySeq
<1>3. /\ a \in Seq(Calls) /\ b \in Seq(Calls)
      /\ ~Has(a, "hint on") /\ ~Has(b, "hint on") /\ ~Has(<< "enable" >>, "hint on")
      /\ HintCmd \in loaded => Has(b, "hint off")
    BY <1>1, <1>2, HasNone, HasOne
<1>4. calls = (a \o b) \o << "enable" >>
    BY DEF Init
<1> HIDE DEF a, b
<1>5. /\ a \o b \in Seq(Calls)
      /\ \A y : Has(a \o b, y) <=> Has(a, y) \/ Has(b, y)
    BY <1>3, HasConcat, ConcatProperties
<1>6. \A y : Has(calls, y) <=> Has(a \o b, y) \/ Has(<< "enable" >>, y)
    BY <1>2, <1>4, <1>5, HasConcat
<1>7. ~Has(calls, "hint on") /\ (HintCmd \in loaded => Has(calls, "hint off"))
    BY <1>3, <1>5, <1>6
<1>8. HintCmd \in loaded => connected
    BY DEF Init, NeedLogind
<1> QED BY <1>7, <1>8 DEF Owed

LEMMA StepOwed == ASSUME IInv, Works PROVE Owed'
<1>1. Typed /\ Owed
    BY DEF IInv
<1>2. InLoop => life = "running" /\ \A x : ~Has(calls, x)
    BY HasNone DEF InLoop, Up
<1>3. \A x \in Calls : \A y : Has(<< x >>, y) <=> x = y
    BY HasOne
<1>4. /\ \A y : Has(<< "enable" >>, y) <=> y = "enable"
      /\ \A y : Has(<< "hint on" >>, y) <=> y = "hint on"
      /\ \A y : Has(<< "hint off" >>, y) <=> y = "hint off"
    BY <1>3 DEF Calls
<1> USE DEF Owed
<1>5. CASE EnableTimeouts \/ AcquireInhibitorLock
    <2>1. /\ calls # << >> /\ calls' = Tail(calls)
          /\ Head(calls) # "hint on" /\ Head(calls) # "hint off"
          /\ UNCHANGED << life, loaded, cleared, resumePending, connected, idleHint >>
        BY <1>5 DEF EnableTimeouts, AcquireInhibitorLock, clientVars, logindVars
    <2>2. /\ Has(calls', "hint on") <=> Has(calls, "hint on")
          /\ Has(calls', "hint off") <=> Has(calls, "hint off")
        BY <1>1, <2>1, CallMade
    <2> QED BY <1>1, <2>1, <2>2
<1>6. CASE SetIdleHint
    <2>1. /\ calls # << >> /\ calls' = Tail(calls)
          /\ Head(calls) = "hint on" \/ Head(calls) = "hint off"
          /\ connected => (idleHint' <=> Head(calls) = "hint on")
          /\ UNCHANGED << life, loaded, cleared, resumePending, connected >>
        BY <1>6 DEF SetIdleHint, clientVars
    <2>2. /\ Has(calls, "hint on") <=> Head(calls) = "hint on" \/ Has(calls', "hint on")
          /\ Has(calls, "hint off") <=> Head(calls) = "hint off" \/ Has(calls', "hint off")
        BY <1>1, <2>1, CallMade
    <2> QED BY <1>1, <2>1, <2>2
<1>7. ASSUME NEW c \in Cmds, HandleIdled(c) PROVE Owed'
    <2>1. /\ InLoop
          /\ resumePending' = [resumePending EXCEPT ![c] = TRUE]
          /\ calls' = IF c = HintCmd THEN << "hint on" >> ELSE << >>
          /\ UNCHANGED << life, loaded, cleared, connected, idleHint >>
        BY <1>7 DEF HandleIdled, NextEvent, busVars, logindVars
    <2>2. CASE c = HintCmd
        <3>1. Has(calls', "hint on") /\ ~Has(calls', "hint off") /\ resumePending'[HintCmd]
            BY <1>1, <1>4, <2>1, <2>2 DEF Typed
        <3> QED BY <1>1, <1>2, <2>1, <3>1
    <2>3. CASE c # HintCmd
        <3>1. /\ ~Has(calls', "hint on") /\ ~Has(calls', "hint off")
              /\ resumePending'[HintCmd] = resumePending[HintCmd]
            BY <1>1, <2>1, <2>3, HasNone, CmdsAssumption DEF Typed
        <3> QED BY <1>1, <1>2, <2>1, <3>1
    <2> QED BY <2>2, <2>3
<1>8. ASSUME NEW c \in Cmds, HandleResumed(c) PROVE Owed'
    <2>1. /\ InLoop
          /\ resumePending' = [resumePending EXCEPT ![c] = FALSE]
          /\ calls' = IF c = HintCmd THEN << "hint off" >> ELSE << >>
          /\ UNCHANGED << life, loaded, cleared, connected, idleHint >>
        BY <1>8 DEF HandleResumed, NextEvent, busVars, logindVars
    <2>2. CASE c = HintCmd
        <3>1. ~Has(calls', "hint on") /\ Has(calls', "hint off")
            BY <1>4, <2>1, <2>2
        <3> QED BY <1>1, <1>2, <2>1, <3>1
    <2>3. CASE c # HintCmd
        <3>1. /\ ~Has(calls', "hint on") /\ ~Has(calls', "hint off")
              /\ resumePending'[HintCmd] = resumePending[HintCmd]
            BY <1>1, <2>1, <2>3, HasNone, CmdsAssumption DEF Typed
        <3> QED BY <1>1, <1>2, <2>1, <3>1
    <2> QED BY <2>2, <2>3
<1>9. CASE HandlePropertyChanged
    <2>1. /\ InLoop
          /\ UNCHANGED << life, loaded, cleared, resumePending, connected, idleHint >>
        BY <1>9 DEF HandlePropertyChanged, Readable, logindVars
    <2>2. CASE inhibited /\ enabled
        <3>1. calls' = IF HintCmd \in loaded THEN << "hint off" >> ELSE << >>
            BY <1>9, <2>2 DEF HandlePropertyChanged, DisableTimeouts
        <3>2. ~Has(calls', "hint on") /\ (HintCmd \in loaded => Has(calls', "hint off"))
            BY <1>4, <3>1, HasNone
        <3> QED BY <1>1, <1>2, <2>1, <3>2
    <2>3. CASE ~(inhibited /\ enabled)
        <3>1. calls' = calls \/ calls' = << "enable" >>
            BY <1>9, <2>3 DEF HandlePropertyChanged, DisableTimeouts
        <3>2. ~Has(calls', "hint on") /\ ~Has(calls', "hint off")
            BY <1>2, <1>4, <2>1, <3>1
        <3> QED BY <1>1, <1>2, <2>1, <3>2
    <2> QED BY <2>2, <2>3
<1>10. CASE ResumeFromSleep
    <2>1. /\ InLoop
          /\ calls' = << "inhibit" >>
                \o (IF HintCmd \in loaded THEN << "hint off" >> ELSE << >>)
          /\ UNCHANGED << life, loaded, cleared, resumePending, connected, idleHint >>
        BY <1>10 DEF ResumeFromSleep, Readable, clientVars, logindVars
    <2> DEFINE a == << "inhibit" >>
               b == IF HintCmd \in loaded THEN << "hint off" >> ELSE << >>
    <2>2. "inhibit" \in Calls /\ "hint off" \in Calls
        BY DEF Calls
    <2>3. /\ a \in Seq(Calls) /\ b \in Seq(Calls)
          /\ ~Has(a, "hint on") /\ ~Has(b, "hint on")
          /\ HintCmd \in loaded => Has(b, "hint off")
        BY <1>3, <1>4, <2>2, OneSeq, HasNone, EmptySeq
    <2> HIDE DEF a, b
    <2>4. \A y : Has(a \o b, y) <=> Has(a, y) \/ Has(b, y)
        BY <2>3, HasConcat
    <2>5. calls' = a \o b
        BY <2>1 DEF a, b
    <2>6. ~Has(calls', "hint on") /\ (HintCmd \in loaded => Has(calls', "hint off"))
        BY <2>3, <2>4, <2>5
    <2> QED BY <1>1, <1>2, <2>1, <2>6
<1>11. CASE \/ PrepareForSleep \/ IgnoreMessage \/ Sigusr1
            \/ InhibitorChanges \/ SleepPrepared \/ Sleeps \/ Wakes
    <2>1. UNCHANGED << calls, life, loaded, cleared, resumePending, connected,
                       idleHint >>
        BY <1>11
        DEF PrepareForSleep, IgnoreMessage, Sigusr1, InhibitorChanges,
            SleepPrepared, Sleeps, Wakes, clientVars, busVars, logindVars
    <2> QED BY <1>1, <2>1
<1>12. CASE Terminate \/ ReloadExits \/ ReloadFails
    BY <1>1, <1>12 DEF Terminate, ReloadExits, ReloadFails
<1>13. CASE ReloadWorks
    <2>1. PICK cmds \in SUBSET Cmds, line \in BOOLEAN, other \in BOOLEAN :
              /\ ClearAndLoad(cmds)
              /\ Listeners(NeedLogind(cmds, line \/ other), line)
              /\ calls' = LockCall(line)
                    \o (IF HintCmd \in cmds THEN << "hint off" >> ELSE << >>)
                    \o (IF cmds # {} THEN << "enable" >> ELSE << >>)
        BY <1>13 DEF ReloadWorks
    <2>2. ~Has(calls', "hint on") /\ (Has(calls', "hint off") <=> HintCmd \in cmds)
        BY <2>1, ReloadCalls
    <2>3. loaded' = cmds /\ (HintCmd \in cmds => connected')
        BY <2>1 DEF ClearAndLoad, Listeners, NeedLogind
    <2> QED BY <2>2, <2>3
<1> QED
    BY <1>5, <1>6, <1>7, <1>8, <1>9, <1>10, <1>11, <1>12, <1>13 DEF Works

-----------------------------------------------------------------------------
(* The delay lock.                                                         *)

LEMMA InitLocked == Init => Locked
<1> SUFFICES ASSUME Init PROVE Locked
    OBVIOUS
<1> DEFINE a == IF sleepSlot THEN << "inhibit" >> ELSE << >>
           b == (IF HintCmd \in loaded THEN << "hint off" >> ELSE << >>)
           c == << "enable" >>
<1>1. "inhibit" \in Calls /\ "hint off" \in Calls /\ "enable" \in Calls
    BY DEF Calls
<1>2. << "inhibit" >> \in Seq(Calls) /\ << "hint off" >> \in Seq(Calls)
      /\ << "enable" >> \in Seq(Calls) /\ << >> \in Seq(Calls)
    BY <1>1, OneSeq, EmptySeq
<1>3. /\ a \in Seq(Calls) /\ b \in Seq(Calls) /\ c \in Seq(Calls)
      /\ sleepSlot => Has(a, "inhibit")
    BY <1>1, <1>2, HasOne
<1>4. calls = (a \o b) \o c
    BY DEF Init
<1> HIDE DEF a, b, c
<1>5. a \o b \in Seq(Calls) /\ (sleepSlot => Has(a \o b, "inhibit"))
    BY <1>3, HasConcat, ConcatProperties
<1>6. sleepSlot => Has(calls, "inhibit")
    BY <1>3, <1>4, <1>5, HasConcat
<1>7. Arrived = << >>
    <2>1. << >> \in Seq(Signals)
        BY EmptySeq
    <2>2. << >> \o << >> = << >>
        BY <2>1, ConcatEmptySeq
    <2> QED BY <2>2 DEF Init, Arrived
<1>8. Followed(Arrived)
    BY <1>7 DEF Followed
<1> QED BY <1>6, <1>8 DEF Init, Locked

(* Steps that leave logind's locks and its sleep alone, make no inhibit    *)
(* call and lose neither a sleep nor a wake from the queues.               *)
LEMMA SameLocked ==
    ASSUME Locked, power # "asleep",
           UNCHANGED << life, sleepVars >>,
           Has(calls, "inhibit") => Has(calls, "inhibit")',
           Has(Arrived, "wake") => Has(Arrived, "wake")',
           Has(Arrived, "sleep") => Has(Arrived, "sleep")',
           Followed(Arrived) => Followed(Arrived)'
    PROVE  Locked'
    BY DEF Locked, sleepVars

LEMMA SyncCallsLocked ==
    ASSUME IInv, EnableTimeouts \/ SetIdleHint PROVE Locked'
<1>1. Typed /\ Locked /\ Up /\ UNCHANGED << life, sleepVars >>
    BY DEF IInv, EnableTimeouts, SetIdleHint
<1>2. Arrived' = Arrived
    BY <1>1, SyncedQueue DEF EnableTimeouts, SetIdleHint, Arrived
<1>3. calls # << >> /\ calls' = Tail(calls) /\ Head(calls) # "inhibit"
    BY DEF EnableTimeouts, SetIdleHint
<1>4. Has(calls, "inhibit") => Has(calls', "inhibit")
    BY <1>1, <1>3, CallMade
<1> QED BY <1>1, <1>2, <1>4, SameLocked DEF Up

LEMMA AcquireLocked ==
    ASSUME IInv, AcquireInhibitorLock PROVE Locked'
<1>1. /\ Typed /\ Locked /\ Up
      /\ UNCHANGED << life, sleepSlot, power, guarded, prepared >>
    BY DEF IInv, AcquireInhibitorLock
<1>2. Arrived' = Arrived
    BY <1>1, SyncedQueue DEF AcquireInhibitorLock
<1>3. CASE power = "awake"
    <2>1. delays' > 0
        BY <1>1, <1>3 DEF AcquireInhibitorLock, Typed
    <2> QED BY <1>1, <1>2, <1>3, <2>1 DEF Locked, Up
<1>4. CASE power # "awake"
    BY <1>1, <1>2, <1>4 DEF AcquireInhibitorLock, Locked, Up
<1> QED BY <1>3, <1>4

LEMMA PropertyLocked ==
    ASSUME IInv, HandlePropertyChanged PROVE Locked'
<1>1. /\ Typed /\ Locked /\ Readable("property") /\ UNCHANGED << life, sleepVars >>
      /\ rqueue' = Tail(Arrived) /\ socket' = << >>
    BY DEF IInv, HandlePropertyChanged
<1>2. /\ Has(Arrived, "wake") => Has(Arrived, "wake")'
      /\ Has(Arrived, "sleep") => Has(Arrived, "sleep")'
      /\ Followed(Arrived) => Followed(Arrived)'
    BY <1>1, TakenSignal
<1>3. ~Has(calls, "inhibit") /\ power # "asleep"
    BY <1>1, HasNone DEF Readable, InLoop, Up
<1> QED BY <1>1, <1>2, <1>3, SameLocked

LEMMA PrepareLocked ==
    ASSUME IInv, PrepareForSleep PROVE Locked'
<1>1. /\ Typed /\ Locked /\ Readable("sleep") /\ sleepSlot /\ Take
      /\ prepared' = TRUE
      /\ UNCHANGED << life, calls, sleepSlot, power, guarded >>
    BY DEF IInv, PrepareForSleep
<1>2. /\ Followed(Arrived) => Followed(Arrived)' /\ Has(Arrived, "wake")'
    BY <1>1, TakenSignal
<1>3. power # "asleep" /\ life = "running"
    BY <1>1 DEF Readable, InLoop, Up
<1>4. sleepLock' # "held"
    BY DEF PrepareForSleep, ReleaseInhibitorLock
<1> QED BY <1>1, <1>2, <1>3, <1>4 DEF Locked

LEMMA ResumeLocked ==
    ASSUME IInv, ResumeFromSleep PROVE Locked'
<1>1. /\ Typed /\ Locked /\ Readable("wake") /\ Take
      /\ UNCHANGED << life, sleepVars >>
    BY DEF IInv, ResumeFromSleep
<1>2. /\ Has(Arrived, "sleep") => Has(Arrived, "sleep")'
      /\ Followed(Arrived) => Followed(Arrived)'
    BY <1>1, TakenSignal
<1>3. power # "asleep"
    BY <1>1 DEF Readable, InLoop, Up
<1>4. Has(calls', "inhibit")
    <2> DEFINE b == IF HintCmd \in loaded THEN << "hint off" >> ELSE << >>
    <2>1. "inhibit" \in Calls /\ "hint off" \in Calls
        BY DEF Calls
    <2>2. << "inhibit" >> \in Seq(Calls) /\ b \in Seq(Calls)
        BY <2>1, OneSeq, EmptySeq
    <2>3. calls' = << "inhibit" >> \o b
        BY DEF ResumeFromSleep
    <2> HIDE DEF b
    <2>4. Has(<< "inhibit" >> \o b, "inhibit")
        BY <2>1, <2>2, HasConcat, HasOne
    <2> QED BY <2>3, <2>4
<1> QED BY <1>1, <1>2, <1>3, <1>4 DEF Locked, sleepVars

LEMMA IgnoreLocked ==
    ASSUME IInv, IgnoreMessage PROVE Locked'
<1>1. /\ Typed /\ Locked /\ InLoop /\ Take
      /\ UNCHANGED << life, calls, sleepVars >>
    BY DEF IInv, IgnoreMessage, Readable
<1>2. power # "asleep"
    BY <1>1 DEF InLoop, Up
<1>3. CASE sleepSlot
    <2>1. Readable("stale") \/ Readable("property")
        BY <1>3 DEF IgnoreMessage
    <2>2. /\ Has(Arrived, "wake") => Has(Arrived, "wake")'
          /\ Has(Arrived, "sleep") => Has(Arrived, "sleep")'
          /\ Followed(Arrived) => Followed(Arrived)'
        BY <1>1, <2>1, TakenSignal
    <2> QED BY <1>1, <1>2, <2>2, SameLocked
<1>4. CASE ~sleepSlot
    BY <1>1, <1>2, <1>4 DEF Locked, sleepVars
<1> QED BY <1>3, <1>4

LEMMA ReloadLocked ==
    ASSUME IInv, ReloadWorks PROVE Locked'
<1>1. Typed /\ Locked /\ InLoop /\ life' = life
    BY DEF IInv, ReloadWorks
<1>2. PICK cmds \in SUBSET Cmds, line \in BOOLEAN, other \in BOOLEAN :
          /\ Listeners(NeedLogind(cmds, line \/ other), line)
          /\ SleepListener(line)
          /\ calls' = LockCall(line)
                \o (IF HintCmd \in cmds THEN << "hint off" >> ELSE << >>)
                \o (IF cmds # {} THEN << "enable" >> ELSE << >>)
    BY DEF ReloadWorks
<1>3. Has(calls', "inhibit") <=> line /\ ~sleepSlot
    BY <1>2, ReloadCalls
<1>4. NeedLogind(cmds, line \/ other) \in BOOLEAN
      /\ (line => NeedLogind(cmds, line \/ other))
    BY DEF NeedLogind
<1>5. /\ line /\ ~sleepSlot => Followed(Arrived)'
      /\ line /\ sleepSlot =>
            /\ Has(Arrived, "wake")' <=> Has(Arrived, "wake")
            /\ Has(Arrived, "sleep")' <=> Has(Arrived, "sleep")
            /\ Followed(Arrived) => Followed(Arrived)'
    BY <1>1, <1>2, <1>4, ListenersQueue
<1>6. ~Has(calls, "inhibit") /\ life = "running" /\ power # "asleep"
    BY <1>1, HasNone DEF InLoop, Up
<1>7. /\ sleepSlot' = line /\ power' = power /\ prepared' = prepared
      /\ guarded' = (guarded /\ line)
      /\ line => sleepLock' = sleepLock /\ delays' = delays
      /\ ~line => sleepLock' = "none"
    BY <1>2 DEF SleepListener
<1>8. CASE ~line
    BY <1>1, <1>6, <1>7, <1>8 DEF Locked
<1>9. CASE line /\ sleepSlot
    BY <1>1, <1>5, <1>6, <1>7, <1>9 DEF Locked
<1>10. CASE line /\ ~sleepSlot
    BY <1>1, <1>3, <1>5, <1>6, <1>7, <1>10 DEF Locked
<1> QED BY <1>8, <1>9, <1>10

LEMMA PreparedLocked ==
    ASSUME IInv, SleepPrepared PROVE Locked'
<1>1. /\ Typed /\ Locked /\ power = "awake" /\ power' = "preparing"
      /\ guarded' = (InLoop /\ sleepSlot /\ Read)
      /\ UNCHANGED << life, calls, sleepSlot, sleepLock, delays, rqueue >>
    BY DEF IInv, SleepPrepared
<1>2. guarded' => /\ life = "running" /\ sleepSlot
                  /\ ~Has(calls, "inhibit") /\ ~Has(Arrived, "wake")
    BY <1>1, HasNone DEF InLoop, Up, Read
<1>3. sleepSlot => Has(Arrived, "sleep")'
    <2>1. ASSUME sleepSlot PROVE Has(Arrived, "sleep")'
        <3>1. "sleep" \in Signals /\ socket' = Append(socket, "sleep")
            BY <2>1 DEF SleepPrepared, Signal, Signals
        <3> QED BY <1>1, <3>1, SentHas
    <2> QED BY <2>1
<1> QED BY <1>1, <1>2, <1>3 DEF Locked

LEMMA SleepsLocked ==
    ASSUME IInv, Sleeps PROVE Locked'
<1>1. /\ Typed /\ Locked /\ power = "preparing" /\ power' = "asleep"
      /\ life = "running"
      /\ UNCHANGED << life, calls, rqueue, socket, sleepSlot, sleepLock, delays,
                      guarded, prepared >>
    BY DEF IInv, Sleeps, busVars
<1>2. CASE delays = 0
    BY <1>1, <1>2 DEF Locked, Typed
<1>3. CASE socket = << >>
    <2>1. Arrived = rqueue
        BY <1>1, <1>3, ConcatEmptySeq DEF Arrived, Typed
    <2> QED BY <1>1, <2>1 DEF Locked
<1> QED BY <1>2, <1>3 DEF Sleeps, Waits

LEMMA WakesLocked ==
    ASSUME IInv, Wakes PROVE Locked'
<1>1. /\ Typed /\ Locked /\ power' = "awake"
      /\ UNCHANGED << life, rqueue, sleepSlot, sleepLock, delays >>
    BY DEF IInv, Wakes
<1>2. ASSUME sleepSlot PROVE Has(Arrived, "wake")' /\ Followed(Arrived)'
    <2>1. "wake" \in Signals /\ socket' = Append(socket, "wake")
        BY <1>2 DEF Wakes, Signal, Signals
    <2> QED BY <1>1, <2>1, SentHas
<1> QED BY <1>1, <1>2 DEF Locked

LEMMA StepLocked == ASSUME IInv, Works PROVE Locked'
<1>1. Typed /\ Locked
    BY DEF IInv
<1>2. InLoop => power # "asleep" /\ ~Has(calls, "inhibit")
    BY HasNone DEF InLoop, Up
<1>3. ASSUME NEW c \in Cmds, HandleIdled(c) \/ HandleResumed(c) PROVE Locked'
    <2>1. InLoop /\ Arrived' = Arrived /\ UNCHANGED << life, sleepVars >>
        BY <1>3 DEF HandleIdled, HandleResumed, NextEvent, Arrived, busVars
    <2> QED BY <1>1, <1>2, <2>1, SameLocked
<1>4. CASE Sigusr1 \/ ReloadFails
    <2>1. InLoop /\ Arrived' = Arrived /\ UNCHANGED << life, sleepVars >>
        BY <1>4 DEF Sigusr1, ReloadFails, Arrived, busVars
    <2> QED BY <1>1, <1>2, <2>1, SameLocked
<1>5. CASE Terminate \/ ReloadExits
    BY <1>5 DEF Terminate, ReloadExits, Locked
<1>6. CASE InhibitorChanges
    <2>1. UNCHANGED << life, calls, rqueue, sleepVars >> /\ power # "asleep"
        BY <1>6 DEF InhibitorChanges, Up
    <2>2. CASE listening
        <3>1. "property" \in Signals /\ socket' = Append(socket, "property")
            BY <1>6, <2>2 DEF InhibitorChanges, Signals
        <3>2. /\ Has(Arrived, "wake") => Has(Arrived, "wake")'
              /\ Has(Arrived, "sleep") => Has(Arrived, "sleep")'
              /\ Followed(Arrived) => Followed(Arrived)'
            BY <1>1, <2>1, <3>1, SentHas
        <3> QED BY <1>1, <2>1, <3>2, SameLocked
    <2>3. CASE ~listening
        <3>1. Arrived' = Arrived
            BY <1>6, <2>3 DEF InhibitorChanges, Arrived
        <3> QED BY <1>1, <2>1, <3>1, SameLocked
    <2> QED BY <2>2, <2>3
<1> QED
    BY <1>3, <1>4, <1>5, <1>6, SyncCallsLocked, AcquireLocked, PropertyLocked,
       PrepareLocked, ResumeLocked, IgnoreLocked, ReloadLocked, PreparedLocked,
       SleepsLocked, WakesLocked
    DEF Works

-----------------------------------------------------------------------------
(* Theorems.                                                               *)

LEMMA Inductive == Spec => []IInv
<1>1. Init => IInv
    <2>1. Init => Watched
        BY DEF Init, Watched
    <2> QED BY <2>1, InitTyped, InitFollowing, InitOwed, InitLocked DEF IInv
<1>2. IInv /\ [Next]_vars => IInv'
    BY StepIsOne, QuietSteps, StepTyped, StepFollowing, StepWatched, StepOwed,
       StepLocked
    DEF IInv
<1> QED BY <1>1, <1>2, PTL DEF Spec

(* Once every message of logind is processed, the timeouts are enabled     *)
(* exactly when no idle inhibitor is in force: neither the signals that a  *)
(* blocking call leaves inside sd-bus, nor a reload of the configuration,  *)
(* nor an inhibitor that changes between two calls loses one.              *)
THEOREM TimeoutsFollowInhibitors == Spec => []EnabledAgrees
<1>1. IInv => EnabledAgrees
    <2> SUFFICES ASSUME IInv, Settled, ~cleared, loaded # {}
                 PROVE  enabled = ~inhibited
        BY DEF EnabledAgrees
    <2>1. ~Has(calls, "enable") /\ ~Has(Arrived, "property") /\ life = "running"
        BY HasNone DEF Settled, InLoop, Up, Read
    <2> QED BY <2>1 DEF IInv, Following, Settled
<1> QED BY <1>1, Inductive, PTL

(* Every timeout that is enabled has a live notification when the event    *)
(* loop is at rest, through SIGUSR1, resumes, inhibitors and reloads.      *)
THEOREM EveryTimerWatched == Spec => []NoTimerLost
<1>1. IInv => NoTimerLost
    BY DEF IInv, Watched, NoTimerLost, InLoop, Up
<1> QED BY <1>1, Inductive, PTL

(* The session is idle in logind only while the event that will take the   *)
(* hint back is owed to the daemon.                                        *)
THEOREM HintIsTakenBack == Spec => []HintIsOwed
<1>1. IInv => HintIsOwed
    <2> SUFFICES ASSUME IInv, InLoop, ~cleared, HintCmd \in loaded, idleHint
                 PROVE  resumePending[HintCmd]
        BY DEF HintIsOwed
    <2>1. ~Has(calls, "hint off") /\ life = "running"
        BY HasNone DEF InLoop, Up
    <2> QED BY <2>1 DEF IInv, Owed
<1> QED BY <1>1, Inductive, PTL

(* The computer never sleeps before a daemon that was at rest has run its  *)
(* before-sleep command, through any number of sleeps and reloads, unless  *)
(* a blocking call left the signal inside sd-bus until the delay was over. *)
THEOREM SleepWaitsForDaemon == Spec => []SleepIsGuarded
<1>1. IInv => SleepIsGuarded
    <2> SUFFICES ASSUME IInv, power = "asleep", guarded, life = "running"
                 PROVE  prepared \/ \E i \in DOMAIN rqueue : rqueue[i] = "sleep"
        BY DEF SleepIsGuarded
    <2>1. DOMAIN rqueue = 1 .. Len(rqueue)
        BY LenProperties DEF IInv, Typed
    <2> QED BY <2>1 DEF IInv, Locked, Has
<1> QED BY <1>1, Inductive, PTL
=============================================================================
