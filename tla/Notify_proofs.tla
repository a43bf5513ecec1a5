---------------------------- MODULE Notify_proofs ----------------------------
(***************************************************************************)
(* Theorems about Notify for any number of notifications, any length of    *)
(* the history and any budget: types, popups that are watched, a client    *)
(* that catches up, and the refinement of NotifyPromise.                   *)
(***************************************************************************)
EXTENDS Notify, SequenceTheorems, TLAPS

-----------------------------------------------------------------------------
(* The inductive invariant.                                                *)

Signals == {"history", "dnd on", "dnd off"}

Has(s, x) == \E i \in 1 .. Len(s) : s[i] = x

(* The signal about a value of do_not_disturb.                             *)
Word(b) == IF b THEN "dnd on" ELSE "dnd off"

(* The last signal about do_not_disturb is w.                              *)
LastSays(s, w) ==
    \A i \in 1 .. Len(s) :
        s[i] = "history" \/ s[i] = w
            \/ \E j \in i + 1 .. Len(s) : s[j] # "history"

Mute(s) == \A i \in 1 .. Len(s) : s[i] = "history"

(* A server that is down has nothing; a client that connects has heard     *)
(* nothing.                                                                *)
Fresh ==
    /\ ~up => history = << >> /\ doNotDisturb = FALSE
    /\ phase = "connecting" =>
          toClient = << >> /\ seenHistory = << >> /\ seenDnd = FALSE

(* The client has seen the history, or is about to fetch it, or a signal   *)
(* will make it fetch it; or it is an earlier server's that it saw.        *)
HistoryComes ==
    \/ "history" \in unsaid
    \/ seenHistory = history
    \/ up /\ (phase # "ready" \/ Has(toClient, "history"))

(* Likewise for do_not_disturb, whose signals carry the value: the last of *)
(* them counts.                                                            *)
DndComes ==
    \/ "dnd" \in unsaid
    \/ ~up /\ toClient = << >> /\ seenDnd = doNotDisturb
    \/ /\ up /\ LastSays(toClient, Word(doNotDisturb))
       /\ Mute(toClient) => phase \in {"connecting", "dnd"} \/ seenDnd = doNotDisturb

IInv ==
    /\ TypeOK
    /\ TimeoutOrPointer
    /\ Fresh
    /\ HistoryComes
    /\ DndComes

-----------------------------------------------------------------------------
(* Sequences.                                                              *)

LEMMA OneSeq == ASSUME NEW S, NEW x \in S PROVE << x >> \in Seq(S)
    OBVIOUS

LEMMA AppendedHas ==
    ASSUME NEW s \in Seq(Signals), NEW x \in Signals
    PROVE  \A y : Has(Append(s, x), y) <=> Has(s, y) \/ x = y
<1>1. /\ Len(s) \in Nat
      /\ Len(Append(s, x)) = Len(s) + 1
      /\ \A i \in 1 .. Len(s) : Append(s, x)[i] = s[i]
      /\ Append(s, x)[Len(s) + 1] = x
    BY AppendProperties, LenProperties
<1> QED BY <1>1 DEF Has

LEMMA AppendedSays ==
    ASSUME NEW s \in Seq(Signals), NEW x \in Signals, NEW w
    PROVE  /\ x = "history" =>
                 /\ LastSays(s, w) => LastSays(Append(s, x), w)
                 /\ Mute(Append(s, x)) => Mute(s)
           /\ x # "history" /\ x = w =>
                 LastSays(Append(s, x), w) /\ ~Mute(Append(s, x))
<1> DEFINE n == Len(s)
           t == Append(s, x)
<1>1. n \in Nat /\ Len(t) = n + 1 /\ t[n + 1] = x /\ \A i \in 1 .. n : t[i] = s[i]
    BY AppendProperties, LenProperties
<1> HIDE DEF n, t
<1>2. /\ \A i \in 1 .. n + 1 : i \in 1 .. n \/ i = n + 1
      /\ \A i \in 1 .. n : i \in 1 .. n + 1 /\ n + 1 \in i + 1 .. n + 1
      /\ \A i \in 1 .. n : \A j \in i + 1 .. n : j \in 1 .. n /\ j \in i + 1 .. n + 1
      /\ n + 1 \in 1 .. n + 1
    BY <1>1
<1>3. ASSUME LastSays(s, w), x = "history" PROVE LastSays(t, w)
    <2> SUFFICES ASSUME NEW i \in 1 .. n, ~(t[i] = "history"), ~(t[i] = w)
                 PROVE  \E j \in i + 1 .. n + 1 : t[j] # "history"
        BY <1>1, <1>2, <1>3 DEF LastSays
    <2>1. PICK j \in i + 1 .. n : s[j] # "history"
        BY <1>1, <1>3 DEF LastSays, n
    <2> QED BY <1>1, <1>2, <2>1
<1>4. Mute(t) => Mute(s)
    BY <1>1, <1>2 DEF Mute, n
<1>5. ASSUME x # "history", x = w PROVE LastSays(t, w) /\ ~Mute(t)
    BY <1>1, <1>2, <1>5 DEF LastSays, Mute
<1> QED BY <1>3, <1>4, <1>5 DEF t

LEMMA TailSays ==
    ASSUME NEW s \in Seq(Signals), s # << >>, NEW w, LastSays(s, w)
    PROVE  /\ LastSays(Tail(s), w)
           /\ Head(s) = "history" /\ Mute(Tail(s)) => Mute(s)
           /\ Head(s) # "history" /\ Mute(Tail(s)) => Head(s) = w
<1> DEFINE n == Len(s)
           t == Tail(s)
<1>1. n \in Nat \ {0} /\ Len(t) = n - 1 /\ Head(s) = s[1]
      /\ \A i \in 1 .. n - 1 : t[i] = s[i + 1]
    BY EmptySeq, HeadTailProperties
<1>2. /\ \A i \in 2 .. n : i - 1 \in 1 .. n - 1 /\ s[i] = t[i - 1]
      /\ \A i \in 1 .. n : i = 1 \/ i \in 2 .. n
      /\ 1 \in 1 .. n
    BY <1>1
<1> HIDE DEF n, t
<1>3. LastSays(t, w)
    <2> SUFFICES ASSUME NEW i \in 1 .. n - 1, ~(t[i] = "history"), ~(t[i] = w)
                 PROVE  \E j \in i + 1 .. n - 1 : t[j] # "history"
        BY <1>1 DEF LastSays
    <2>1. i + 1 \in 1 .. n /\ s[i + 1] = t[i]
        BY <1>1
    <2>2. PICK j \in i + 2 .. n : s[j] # "history"
        BY <1>1, <2>1 DEF LastSays, n
    <2>3. j - 1 \in i + 1 .. n - 1 /\ t[j - 1] = s[j]
        BY <1>1, <2>2
    <2> QED BY <2>2, <2>3
<1>4. Head(s) = "history" /\ Mute(t) => Mute(s)
    BY <1>1, <1>2 DEF Mute, n
<1>5. ASSUME Head(s) # "history", Mute(t) PROVE Head(s) = w
    <2>1. \A j \in 2 .. n : s[j] = "history"
        BY <1>1, <1>2, <1>5 DEF Mute
    <2> QED BY <1>1, <1>2, <1>5, <2>1 DEF LastSays, n
<1> QED BY <1>3, <1>4, <1>5 DEF t

LEMMA TailHas ==
    ASSUME NEW s \in Seq(Signals), s # << >>, NEW x, Has(s, x), Head(s) # x
    PROVE  Has(Tail(s), x)
<1>1. /\ Len(s) \in Nat \ {0} /\ Len(Tail(s)) = Len(s) - 1 /\ Head(s) = s[1]
      /\ \A i \in 1 .. Len(s) - 1 : Tail(s)[i] = s[i + 1]
    BY EmptySeq, HeadTailProperties
<1>2. PICK i \in 1 .. Len(s) : s[i] = x
    BY DEF Has
<1>3. i - 1 \in 1 .. Len(s) - 1 /\ Tail(s)[i - 1] = x
    BY <1>1, <1>2
<1> QED BY <1>1, <1>3 DEF Has

-----------------------------------------------------------------------------
(* What the client is sent.                                                *)

LEMMA Twofold ==
    ASSUME NEW s \in Seq(Signals)
    PROVE  s \o Twice = Append(Append(s, "history"), "history")
<1>1. "history" \in Signals
    BY DEF Signals
<1>2. << "history" >> \in Seq(Signals)
    BY <1>1, OneSeq
<1>3. Append(s, "history") = s \o << "history" >> /\ Append(s, "history") \in Seq(Signals)
    BY <1>1, AppendIsConcat, AppendProperties
<1>4. Append(Append(s, "history"), "history") = (s \o << "history" >>) \o << "history" >>
    BY <1>1, <1>3, AppendIsConcat
<1>5. (s \o << "history" >>) \o << "history" >> = s \o (<< "history" >> \o << "history" >>)
    BY <1>2, ConcatAssociative
<1> QED BY <1>4, <1>5 DEF Twice, HistoryUpdated

(* A change of the history is told once or twice.                          *)
LEMMA HistoryTold ==
    ASSUME toClient \in Seq(Signals), NEW w,
           Emit("history", HistoryUpdated) \/ Emit("history", Twice)
    PROVE  /\ toClient' \in Seq(Signals)
           /\ IF phase = "connecting" THEN toClient' = toClient
              ELSE /\ Has(toClient', "history")
                   /\ LastSays(toClient, w) => LastSays(toClient', w)
                   /\ Mute(toClient') => Mute(toClient)
<1> DEFINE one == Append(toClient, "history")
           two == Append(one, "history")
<1>1. "history" \in Signals
    BY DEF Signals
<1>2. one \in Seq(Signals) /\ two \in Seq(Signals)
    BY <1>1, AppendProperties
<1>3. one = toClient \o HistoryUpdated /\ two = toClient \o Twice
    BY <1>1, AppendIsConcat, Twofold DEF HistoryUpdated
<1>4. Has(one, "history") /\ Has(two, "history")
    BY <1>1, <1>2, AppendedHas
<1>5. /\ LastSays(toClient, w) => LastSays(one, w)
      /\ Mute(one) => Mute(toClient)
    BY <1>1, AppendedSays
<1>6. /\ LastSays(one, w) => LastSays(two, w)
      /\ Mute(two) => Mute(one)
    BY <1>1, <1>2, AppendedSays
<1> HIDE DEF one, two
<1>7. \/ phase = "connecting" /\ toClient' = toClient
      \/ phase # "connecting" /\ (toClient' = one \/ toClient' = two)
    BY <1>3 DEF Emit
<1> QED BY <1>2, <1>4, <1>5, <1>6, <1>7

LEMMA DndTold ==
    ASSUME toClient \in Seq(Signals), NEW b \in BOOLEAN, Emit("dnd", DndChanged(b))
    PROVE  /\ toClient' \in Seq(Signals)
           /\ IF phase = "connecting" THEN toClient' = toClient
              ELSE /\ Has(toClient, "history") => Has(toClient', "history")
                   /\ LastSays(toClient', Word(b))
                   /\ ~Mute(toClient')
<1> DEFINE x == Word(b)
<1>1. x \in Signals /\ x # "history"
    BY DEF Signals, Word
<1>2. DndChanged(b) = << x >>
    BY DEF DndChanged, Word
<1> HIDE DEF x
<1>3. Append(toClient, x) = toClient \o DndChanged(b) /\ Append(toClient, x) \in Seq(Signals)
    BY <1>1, <1>2, AppendIsConcat, AppendProperties
<1>4. /\ Has(toClient, "history") => Has(Append(toClient, x), "history")
      /\ LastSays(Append(toClient, x), x) /\ ~Mute(Append(toClient, x))
    BY <1>1, AppendedHas, AppendedSays
<1> QED BY <1>3, <1>4 DEF Emit, x

-----------------------------------------------------------------------------
(* Types.                                                                  *)

LEMMA AddedHistory ==
    ASSUME TypeOK, NEW item \in Item
    PROVE  AddToHistory(item) \in Seq(Item) /\ Len(AddToHistory(item)) <= MaxHistory
<1> DEFINE n == Len(history)
<1>1. history \in Seq(Item) /\ n \in Nat /\ n <= MaxHistory /\ MaxHistory \in Nat \ {0}
      /\ \A k \in 1 .. n : history[k] \in Item
    BY HistoryAssumption, LenProperties, ElementOfSeq DEF TypeOK
<1>2. << item >> \in Seq(Item) /\ Len(<< item >>) = 1
    BY OneSeq
<1>3. CASE n + 1 > MaxHistory
    <2>1. n \in Nat \ {0} /\ \A k \in 1 .. n - 1 : history[k] \in Item
        BY <1>1, <1>3
    <2>2. SubSeq(history, 1, n - 1) \in Seq(Item)
          /\ Len(SubSeq(history, 1, n - 1)) = n - 1
        <3> DEFINE m == n - 1
        <3>1. m \in Nat /\ \A k \in 1 .. m : history[k] \in Item
            BY <2>1
        <3> HIDE DEF m
        <3>2. SubSeq(history, 1, m) \in Seq(Item)
              /\ Len(SubSeq(history, 1, m)) = IF 1 <= m THEN m - 1 + 1 ELSE 0
            BY <3>1, SubSeqProperties
        <3>3. Len(SubSeq(history, 1, m)) = m
            BY <3>1, <3>2
        <3> QED BY <3>2, <3>3 DEF m
    <2>3. AddToHistory(item) = << item >> \o SubSeq(history, 1, n - 1)
        BY <1>3 DEF AddToHistory
    <2> HIDE DEF n
    <2>4. AddToHistory(item) \in Seq(Item) /\ Len(AddToHistory(item)) = 1 + (n - 1)
        BY <1>2, <2>2, <2>3, ConcatProperties
    <2> QED BY <1>1, <2>1, <2>4
<1>4. CASE ~(n + 1 > MaxHistory)
    <2>1. AddToHistory(item) = << item >> \o history
        BY <1>4 DEF AddToHistory
    <2>2. AddToHistory(item) \in Seq(Item) /\ Len(AddToHistory(item)) = 1 + n
        BY <1>1, <1>2, <2>1, ConcatProperties
    <2> HIDE DEF n
    <2> QED BY <1>1, <1>4, <2>2
<1> QED BY <1>3, <1>4

LEMMA RewrittenHistory ==
    ASSUME TypeOK, NEW i \in Ids, NEW content \in Contents
    PROVE  /\ SetContent(i, content) \in Seq(Item)
           /\ Len(SetContent(i, content)) <= MaxHistory
<1> DEFINE n == Len(history)
<1>1. /\ history \in Seq(Item) /\ n \in Nat /\ n <= MaxHistory
      /\ DOMAIN history = 1 .. n /\ \A k \in 1 .. n : history[k] \in Item
    BY LenProperties, ElementOfSeq DEF TypeOK
<1>2. [id |-> i, content |-> content] \in Item
    BY DEF Item
<1> HIDE DEF n
<1>3. SetContent(i, content) =
          [k \in 1 .. n |-> IF history[k].id = i THEN [id |-> i, content |-> content]
                                               ELSE history[k]]
    BY <1>1 DEF SetContent
<1>4. SetContent(i, content) \in Seq(Item) /\ Len(SetContent(i, content)) = n
    BY <1>1, <1>2, <1>3
<1> QED BY <1>1, <1>4

LEMMA Spent ==
    ASSUME TypeOK, NEW what, Spend(what)
    PROVE  \A w \in DOMAIN left' : left'[w] \in Nat
<1>1. \A w \in DOMAIN left : left[w] \in Nat
    BY DEF TypeOK
<1>2. left[what] > 0 /\ left' = [left EXCEPT ![what] = @ - 1]
    BY DEF Spend
<1>3. DOMAIN left' = DOMAIN left
    BY <1>2
<1>4. ASSUME NEW w \in DOMAIN left PROVE left'[w] \in Nat
    <2>1. CASE w = what
        <3>1. left'[w] = left[w] - 1 /\ left[w] \in Nat /\ left[w] > 0
            BY <1>1, <1>2, <2>1
        <3> QED BY <3>1
    <2>2. CASE w # what
        BY <1>1, <1>2, <2>2
    <2> QED BY <2>1, <2>2
<1> QED BY <1>3, <1>4

LEMMA InitTyped == Init => TypeOK
<1> SUFFICES ASSUME Init PROVE TypeOK
    OBVIOUS
<1>1. << >> \in Seq(Item) /\ Len(<< >>) = 0 /\ << >> \in Seq(Signals)
    BY EmptySeq
<1>2. \A what \in DOMAIN left : left[what] \in Nat
    BY BoundAssumption DEF Init
<1>3. told \in [Ids -> Nat]
    BY DEF Init
<1>4. 1 \in 1 .. MaxId + 1 /\ 0 <= MaxHistory
    BY BoundAssumption, HistoryAssumption
<1> QED BY <1>1, <1>2, <1>3, <1>4 DEF Init, TypeOK, Signals

(* The calls that change the history.                                      *)
LEMMA NotifyTyped == ASSUME TypeOK, NotifyCall PROVE TypeOK'
<1>1. PICK r \in 0 .. idCounter - 1, c \in Contents :
          \/ NotifySilentReplace(r, c) \/ NotifySilent(r, c)
          \/ NotifyReplace(r, c) \/ NotifyShow(r, c)
    BY DEF NotifyCall
<1>2. toClient \in Seq(Signals)
    BY DEF TypeOK, Signals
<1>3. Emit("history", Twice)
    BY <1>1 DEF NotifySilentReplace, NotifySilent, NotifyReplace, NotifyShow
<1>4. toClient' \in Seq(Signals) /\ unsaid' \subseteq {"history", "dnd"} /\ up' = up
    BY <1>2, <1>3, HistoryTold DEF Emit, TypeOK
<1>5. IdsOf(history) \subseteq Ids
    <2>1. \A k \in DOMAIN history : history[k] \in Item
        BY LenProperties, ElementOfSeq DEF TypeOK
    <2> QED BY <2>1 DEF IdsOf, Item
<1>6. UNCHANGED << doNotDisturb, pointer, told, phase, seenHistory, seenDnd >>
    BY <1>1
    DEF NotifySilentReplace, NotifySilent, NotifyReplace, NotifyShow, popupVars,
        clientVars
<1>7. history' \in Seq(Item) /\ Len(history') <= MaxHistory
    <2>1. CASE NotifySilentReplace(r, c) \/ NotifyReplace(r, c)
        <3>1. r \in Ids /\ history' = SetContent(r, c)
            BY <1>5, <2>1 DEF NotifySilentReplace, NotifyReplace, TypeOK
        <3> QED BY <3>1, RewrittenHistory
    <2>2. CASE NotifySilent(r, c) \/ NotifyShow(r, c)
        <3>1. idCounter \in Ids
            <4>1. idCounter \in 1 .. MaxId + 1 /\ idCounter <= MaxId
                BY <2>2 DEF NotifySilent, NotifyShow, TypeOK
            <4> QED BY <4>1, BoundAssumption DEF Ids
        <3>2. [id |-> idCounter, content |-> c] \in Item
            BY <3>1 DEF Item
        <3>3. history' = AddToHistory([id |-> idCounter, content |-> c])
            BY <2>2 DEF NotifySilent, NotifyShow
        <3> QED BY <3>2, <3>3, AddedHistory
    <2> QED BY <1>1, <2>1, <2>2
<1>8. /\ armed' \subseteq active' /\ active' \subseteq Ids
      /\ active \subseteq active' /\ idCounter' \in 1 .. MaxId + 1
    <2>1. /\ armed \subseteq active /\ active \subseteq Ids
          /\ idCounter \in 1 .. MaxId + 1 /\ MaxId \in Nat
        BY BoundAssumption DEF TypeOK
    <2>2. idCounter <= MaxId => idCounter \in Ids /\ idCounter + 1 \in 1 .. MaxId + 1
        BY <2>1 DEF Ids
    <2> QED
        BY <1>1, <2>1, <2>2
        DEF NotifySilentReplace, NotifySilent, NotifyReplace, NotifyShow, popupVars
<1>9. \A what \in DOMAIN left' : left'[what] \in Nat
    BY <1>1, Spent
    DEF NotifySilentReplace, NotifySilent, NotifyReplace, NotifyShow, TypeOK
<1> QED BY <1>4, <1>6, <1>7, <1>8, <1>9 DEF TypeOK, Signals

LEMMA ClientTyped == ASSUME TypeOK, Client PROVE TypeOK'
<1>1. UNCHANGED ServerVars
    BY DEF Client, ProxyReady, FetchDnd, FetchHistory, OnHistoryUpdated, OnDndChanged
<1>2. toClient' \in Seq(Signals)
    <2>1. toClient \in Seq(Signals)
        BY DEF TypeOK, Signals
    <2>2. toClient' = toClient \/ (toClient # << >> /\ toClient' = Tail(toClient))
        BY DEF Client, ProxyReady, FetchDnd, FetchHistory, OnHistoryUpdated,
           OnDndChanged
    <2> QED BY <2>1, <2>2, HeadTailProperties
<1>3. phase' \in {"connecting", "dnd", "history", "ready"}
    BY DEF Client, ProxyReady, FetchDnd, FetchHistory, OnHistoryUpdated,
       OnDndChanged, TypeOK
<1>4. seenHistory' \in Seq(Item)
    BY DEF Client, ProxyReady, FetchDnd, FetchHistory, OnHistoryUpdated,
       OnDndChanged, TypeOK
<1>5. seenDnd' \in BOOLEAN
    BY DEF Client, ProxyReady, FetchDnd, FetchHistory, OnHistoryUpdated,
       OnDndChanged, TypeOK
<1> QED BY <1>1, <1>2, <1>3, <1>4, <1>5 DEF TypeOK, ServerVars, popupVars, Signals

LEMMA StepTyped == ASSUME TypeOK, [Next]_vars PROVE TypeOK'
<1>1. CASE NotifyCall
    BY <1>1, NotifyTyped
<1>2. CASE Client
    BY <1>2, ClientTyped
<1>3. ASSUME NEW i \in Ids, Close(i) PROVE TypeOK'
    <2>1. told' \in [Ids -> Nat]
        <3>1. told \in [Ids -> Nat]
            BY DEF TypeOK
        <3> QED BY <1>3, <3>1 DEF Close
    <2>2. /\ armed' \subseteq active' /\ active' \subseteq Ids
          /\ pointer' \in {NoId} \cup active'
        BY <1>3 DEF Close, TypeOK
    <2>3. UNCHANGED << up, history, idCounter, doNotDisturb, toClient, unsaid,
                       clientVars, left >>
        BY <1>3 DEF Close
    <2> QED BY <2>1, <2>2, <2>3 DEF TypeOK, clientVars
<1>4. ASSUME NEW i \in Ids, Enter(i) \/ Leave(i) PROVE TypeOK'
    BY <1>4 DEF Enter, Leave, TypeOK, clientVars, NoId
<1>5. CASE ClearHistory
    <2>1. << >> \in Seq(Item) /\ Len(<< >>) = 0 /\ toClient \in Seq(Signals)
        BY EmptySeq DEF TypeOK, Signals
    <2>2. toClient' \in Seq(Signals)
        BY <1>5, <2>1, HistoryTold DEF ClearHistory
    <2>3. unsaid' \subseteq {"history", "dnd"} /\ up' = up /\ history' = << >>
        BY <1>5 DEF ClearHistory, Emit, TypeOK
    <2>4. \A what \in DOMAIN left' : left'[what] \in Nat
        BY <1>5, Spent DEF ClearHistory
    <2>5. UNCHANGED << popupVars, idCounter, doNotDisturb, clientVars >>
        BY <1>5 DEF ClearHistory
    <2>6. history' \in Seq(Item) /\ Len(history') <= MaxHistory
          /\ unsaid' \subseteq {"history", "dnd"} /\ up' = up
        BY <2>1, <2>3, HistoryAssumption
    <2> QED
        BY <2>2, <2>4, <2>5, <2>6 DEF TypeOK, popupVars, clientVars, Signals
<1>6. ASSUME NEW b \in BOOLEAN, SetDoNotDisturb(b) PROVE TypeOK'
    <2>1. toClient \in Seq(Signals)
        BY DEF TypeOK, Signals
    <2>2. toClient' \in Seq(Signals)
        BY <1>6, <2>1, DndTold DEF SetDoNotDisturb
    <2>3. unsaid' \subseteq {"history", "dnd"} /\ up' = up /\ doNotDisturb' = b
        BY <1>6 DEF SetDoNotDisturb, Emit, TypeOK
    <2>4. \A what \in DOMAIN left' : left'[what] \in Nat
        BY <1>6, Spent DEF SetDoNotDisturb
    <2>5. UNCHANGED << popupVars, history, idCounter, clientVars >>
        BY <1>6 DEF SetDoNotDisturb
    <2> QED
        BY <2>2, <2>3, <2>4, <2>5 DEF TypeOK, popupVars, clientVars, Signals
<1>7. CASE Ends
    <2>1. << >> \in Seq(Item) /\ Len(<< >>) = 0
        BY EmptySeq
    <2>2. \A what \in DOMAIN left' : left'[what] \in Nat
        BY <1>7, Spent DEF Ends
    <2>3. told' \in [Ids -> Nat]
        BY <1>7 DEF Ends
    <2>4. UNCHANGED << toClient, clientVars >> /\ up' = FALSE /\ active' = {}
          /\ armed' = {} /\ history' = << >> /\ idCounter' = 1
          /\ doNotDisturb' = FALSE /\ pointer' = NoId
          /\ unsaid' \subseteq {"history", "dnd"}
        BY <1>7 DEF Ends
    <2>5. history' \in Seq(Item) /\ Len(history') <= MaxHistory
          /\ idCounter' \in 1 .. MaxId + 1
        BY <2>1, <2>4, BoundAssumption, HistoryAssumption
    <2> QED BY <2>2, <2>3, <2>4, <2>5 DEF TypeOK, clientVars
<1>8. CASE Starts \/ UNCHANGED vars
    BY <1>8 DEF Starts, vars, TypeOK, popupVars, clientVars
<1> QED
    BY <1>1, <1>2, <1>3, <1>4, <1>5, <1>6, <1>7, <1>8
    DEF Next, Closing, Expire, Click, Invoke, CloseCall

-----------------------------------------------------------------------------
(* The popups.                                                             *)

LEMMA StepWatched ==
    ASSUME TypeOK, TimeoutOrPointer, [Next]_vars PROVE TimeoutOrPointer'
<1> USE DEF TimeoutOrPointer
<1>1. CASE NotifyCall
    BY <1>1
    DEF NotifyCall, NotifySilentReplace, NotifySilent, NotifyReplace, NotifyShow,
        popupVars
<1>2. ASSUME NEW i \in Ids, Close(i) PROVE TimeoutOrPointer'
    BY <1>2 DEF Close
<1>3. ASSUME NEW i \in Ids, Enter(i) PROVE TimeoutOrPointer'
    <2>1. \A j \in active : j # NoId
        <3>1. active \subseteq 1 .. MaxId /\ MaxId \in Nat
            BY BoundAssumption DEF TypeOK, Ids
        <3> QED BY <3>1 DEF NoId
    <2> QED BY <1>3, <2>1 DEF Enter
<1>4. ASSUME NEW i \in Ids, Leave(i) PROVE TimeoutOrPointer'
    BY <1>4 DEF Leave
<1>5. CASE ClearHistory \/ Starts \/ UNCHANGED vars
    BY <1>5 DEF ClearHistory, Starts, vars, popupVars
<1>6. ASSUME NEW b \in BOOLEAN, SetDoNotDisturb(b) PROVE TimeoutOrPointer'
    BY <1>6 DEF SetDoNotDisturb, popupVars
<1>7. CASE Ends
    BY <1>7 DEF Ends
<1>8. CASE Client
    BY <1>8
    DEF Client, ProxyReady, FetchDnd, FetchHistory, OnHistoryUpdated, OnDndChanged,
        ServerVars, popupVars
<1> QED
    BY <1>1, <1>2, <1>3, <1>4, <1>5, <1>6, <1>7, <1>8
    DEF Next, Closing, Expire, Click, Invoke, CloseCall

-----------------------------------------------------------------------------
(* The client.                                                             *)

Catching == Fresh /\ HistoryComes /\ DndComes

LEMMA InitCatching == Init => Catching
<1> SUFFICES ASSUME Init PROVE Catching
    OBVIOUS
<1>1. Len(toClient) = 0
    BY EmptySeq DEF Init
<1>2. LastSays(toClient, Word(doNotDisturb))
    BY <1>1 DEF LastSays
<1> QED BY <1>2 DEF Init, Catching, Fresh, HistoryComes, DndComes

(* Steps that concern neither the client nor what it is shown.             *)
LEMMA SameCatching ==
    ASSUME Catching,
           UNCHANGED << up, history, doNotDisturb, toClient, unsaid, clientVars >>
    PROVE  Catching'
    BY DEF Catching, Fresh, HistoryComes, DndComes, clientVars

LEMMA HistoryCatching ==
    ASSUME TypeOK, Catching, up,
           Emit("history", HistoryUpdated) \/ Emit("history", Twice),
           UNCHANGED << doNotDisturb, clientVars >>
    PROVE  Catching'
<1>1. toClient \in Seq(Signals)
    BY DEF TypeOK, Signals
<1>2. IF phase = "connecting" THEN toClient' = toClient
      ELSE /\ Has(toClient', "history")
           /\ LastSays(toClient, Word(doNotDisturb)) => LastSays(toClient', Word(doNotDisturb))
           /\ Mute(toClient') => Mute(toClient)
    BY <1>1, HistoryTold
<1>3. up' /\ unsaid' = unsaid \ {"history"}
    BY DEF Emit
<1>4. "history" # "dnd"
    OBVIOUS
<1>5. Fresh'
    BY <1>2, <1>3 DEF Catching, Fresh, clientVars
<1>6. HistoryComes'
    BY <1>2, <1>3 DEF HistoryComes, clientVars
<1>7. DndComes'
    BY <1>2, <1>3, <1>4 DEF Catching, DndComes, clientVars
<1> QED BY <1>5, <1>6, <1>7 DEF Catching

LEMMA DndCatching ==
    ASSUME TypeOK, Catching, NEW b \in BOOLEAN, SetDoNotDisturb(b) PROVE Catching'
<1>1. toClient \in Seq(Signals)
    BY DEF TypeOK, Signals
<1>2. IF phase = "connecting" THEN toClient' = toClient
      ELSE /\ Has(toClient, "history") => Has(toClient', "history")
           /\ LastSays(toClient', Word(b))
           /\ ~Mute(toClient')
    BY <1>1, DndTold DEF SetDoNotDisturb
<1>3. /\ up /\ up' /\ unsaid' = unsaid \ {"dnd"} /\ doNotDisturb' = b
      /\ UNCHANGED << history, clientVars >>
    BY DEF SetDoNotDisturb, Emit
<1>4. Fresh'
    BY <1>2, <1>3 DEF Catching, Fresh, clientVars
<1>5. HistoryComes'
    BY <1>2, <1>3 DEF Catching, HistoryComes, clientVars
<1>6. DndComes'
    <2>1. CASE phase = "connecting"
        <3>1. toClient' = << >> /\ Len(<< >>) = 0
            BY <1>2, <2>1, EmptySeq DEF Catching, Fresh
        <3>2. LastSays(toClient', Word(doNotDisturb'))
            BY <3>1 DEF LastSays
        <3> QED BY <1>3, <2>1, <3>2 DEF DndComes, clientVars
    <2>2. CASE phase # "connecting"
        BY <1>2, <1>3, <2>2 DEF DndComes
    <2> QED BY <2>1, <2>2
<1> QED BY <1>4, <1>5, <1>6 DEF Catching

LEMMA EndsCatching == ASSUME Catching, Ends PROVE Catching'
<1>1. CASE phase = "connecting"
    BY <1>1 DEF Ends, Catching, Fresh, HistoryComes, DndComes, clientVars
<1>2. CASE phase # "connecting"
    BY <1>2 DEF Ends, Catching, Fresh, HistoryComes, DndComes, clientVars
<1> QED BY <1>1, <1>2

LEMMA StartsCatching == ASSUME TypeOK, Catching, Starts PROVE Catching'
<1>1. /\ ~up /\ up'
      /\ UNCHANGED << history, doNotDisturb, toClient, unsaid, clientVars >>
    BY DEF Starts
<1>2. Fresh' /\ HistoryComes'
    BY <1>1 DEF Catching, Fresh, HistoryComes, clientVars
<1>3. toClient = << >> => LastSays(toClient, Word(doNotDisturb))
    BY EmptySeq DEF LastSays
<1>4. DndComes'
    BY <1>1, <1>3 DEF Catching, DndComes, clientVars
<1> QED BY <1>2, <1>4 DEF Catching

LEMMA ClientCatching == ASSUME TypeOK, Catching, Client PROVE Catching'
<1>1. toClient \in Seq(Signals)
    BY DEF TypeOK, Signals
<1> USE DEF Catching, Fresh, ServerVars
<1>2. CASE ProxyReady
    BY <1>2 DEF ProxyReady, HistoryComes, DndComes
<1>3. CASE FetchDnd
    BY <1>3 DEF FetchDnd, HistoryComes, DndComes
<1>4. CASE FetchHistory
    BY <1>4 DEF FetchHistory, HistoryComes, DndComes
<1>5. CASE OnHistoryUpdated
    <2>1. LastSays(toClient, Word(doNotDisturb)) =>
              /\ LastSays(toClient', Word(doNotDisturb))
              /\ Mute(toClient') => Mute(toClient)
        BY <1>1, <1>5, TailSays DEF OnHistoryUpdated
    <2>2. HistoryComes'
        BY <1>5 DEF OnHistoryUpdated, HistoryComes
    <2>3. DndComes'
        BY <1>5, <2>1 DEF OnHistoryUpdated, DndComes
    <2> QED BY <1>5, <2>2, <2>3 DEF OnHistoryUpdated
<1>6. CASE OnDndChanged
    <2>1. LastSays(toClient, Word(doNotDisturb)) =>
              /\ LastSays(toClient', Word(doNotDisturb))
              /\ Mute(toClient') => Head(toClient) = Word(doNotDisturb)
        BY <1>1, <1>6, TailSays DEF OnDndChanged
    <2>2. Has(toClient, "history") => Has(toClient', "history")
        BY <1>1, <1>6, TailHas DEF OnDndChanged
    <2>3. seenDnd' = (Head(toClient) = "dnd on") /\ doNotDisturb \in BOOLEAN
        BY <1>6 DEF OnDndChanged, TypeOK
    <2>4. Head(toClient) = Word(doNotDisturb) => seenDnd' = doNotDisturb
        BY <2>3 DEF Word
    <2>5. HistoryComes'
        BY <1>6, <2>2 DEF OnDndChanged, HistoryComes
    <2>6. DndComes'
        BY <1>6, <2>1, <2>4 DEF OnDndChanged, DndComes
    <2> QED BY <1>6, <2>5, <2>6 DEF OnDndChanged
<1> QED BY <1>2, <1>3, <1>4, <1>5, <1>6 DEF Client

LEMMA StepCatching == ASSUME TypeOK, Catching, [Next]_vars PROVE Catching'
<1>1. CASE NotifyCall
    <2>1. up /\ Emit("history", Twice) /\ UNCHANGED << doNotDisturb, clientVars >>
        BY <1>1
        DEF NotifyCall, NotifySilentReplace, NotifySilent, NotifyReplace, NotifyShow
    <2> QED BY <2>1, HistoryCatching
<1>2. CASE ClearHistory
    BY <1>2, HistoryCatching DEF ClearHistory
<1>3. ASSUME NEW i \in Ids, Close(i) \/ Enter(i) \/ Leave(i) PROVE Catching'
    BY <1>3, SameCatching DEF Close, Enter, Leave
<1>4. CASE UNCHANGED vars
    BY <1>4, SameCatching DEF vars
<1> QED
    BY <1>1, <1>2, <1>3, <1>4, DndCatching, EndsCatching, StartsCatching,
       ClientCatching
    DEF Next, Closing, Expire, Click, Invoke, CloseCall

-----------------------------------------------------------------------------
(* Theorems.                                                               *)

LEMMA Inductive == Spec => []IInv
<1>1. Init => IInv
    BY InitTyped, InitCatching DEF IInv, Catching, Init, TimeoutOrPointer
<1>2. IInv /\ [Next]_vars => IInv'
    BY StepTyped, StepWatched, StepCatching DEF IInv, Catching
<1> QED BY <1>1, <1>2, PTL DEF Spec

(* Every variable keeps its type; the history never outgrows MAX_HISTORY.  *)
THEOREM TypeCorrect == Spec => []TypeOK
<1>1. IInv => TypeOK
    BY DEF IInv
<1> QED BY <1>1, Inductive, PTL

(* No popup is left without a timeout, unless the pointer rests on it,     *)
(* whatever calls, replacements and pointer events come together.          *)
THEOREM NoPopupStuck == Spec => []TimeoutOrPointer
<1>1. IInv => TimeoutOrPointer
    BY DEF IInv
<1> QED BY <1>1, Inductive, PTL

(* A client that has handled its signals shows what the server has, but    *)
(* for what it saw of a server that ended and the next has not touched.    *)
THEOREM ClientCatchesUp == Spec => []ClientAgrees
<1>1. IInv => ClientAgrees
    <2> SUFFICES ASSUME IInv, up, phase = "ready", toClient = << >>
                 PROVE  /\ seenHistory = history \/ "history" \in unsaid
                        /\ seenDnd = doNotDisturb \/ "dnd" \in unsaid
        BY DEF ClientAgrees
    <2>1. Len(toClient) = 0
        BY EmptySeq
    <2>2. ~Has(toClient, "history") /\ Mute(toClient)
        BY <2>1 DEF Has, Mute
    <2> QED BY <2>2 DEF IInv, HistoryComes, DndComes
<1> QED BY <1>1, Inductive, PTL

LEMMA StepKeepsPromise ==
    ASSUME TypeOK, [Next]_vars PROVE [Promise!Next]_(Promise!vars)
<1> USE DEF Promise!Next, Promise!vars
<1>1. CASE NotifyCall
    <2>1. PICK r \in 0 .. idCounter - 1, c \in Contents :
              \/ NotifySilentReplace(r, c) \/ NotifySilent(r, c)
              \/ NotifyReplace(r, c) \/ NotifyShow(r, c)
        BY <1>1 DEF NotifyCall
    <2>2. CASE NotifySilentReplace(r, c) \/ NotifyReplace(r, c)
        BY <2>2 DEF NotifySilentReplace, NotifyReplace, popupVars
    <2>3. CASE NotifySilent(r, c) \/ NotifyShow(r, c)
        BY <2>3 DEF NotifySilent, NotifyShow, popupVars, Promise!Add
    <2> QED BY <2>1, <2>2, <2>3
<1>2. ASSUME NEW i \in Ids, i \in active, Close(i) PROVE Promise!Close
    BY <1>2 DEF Close, Promise!Close
<1>3. ASSUME NEW i \in Ids, Enter(i) \/ Leave(i) PROVE UNCHANGED Promise!vars
    BY <1>3 DEF Enter, Leave
<1>4. ASSUME NEW b \in BOOLEAN, SetDoNotDisturb(b) PROVE UNCHANGED Promise!vars
    BY <1>4 DEF SetDoNotDisturb, popupVars
<1>5. CASE ClearHistory \/ Starts \/ Client \/ UNCHANGED vars
    BY <1>5
    DEF ClearHistory, Starts, Client, ProxyReady, FetchDnd, FetchHistory,
        OnHistoryUpdated, OnDndChanged, ServerVars, vars, popupVars
<1>6. CASE Ends
    BY <1>6 DEF Ends, Promise!Restart, Promise!Init
<1> QED
    BY <1>1, <1>2, <1>3, <1>4, <1>5, <1>6
    DEF Next, Closing, Expire, Click, Invoke, CloseCall

(* The server keeps its promise: an id of its own for every notification,  *)
(* and exactly one NotificationClosed when it leaves the screen.           *)
THEOREM KeepsPromise == Spec => Implements
<1>1. Init => Promise!Init
    BY DEF Init, Promise!Init
<1>2. IInv /\ [Next]_vars => [Promise!Next]_(Promise!vars)
    BY StepKeepsPromise DEF IInv
<1> QED BY <1>1, <1>2, Inductive, PTL DEF Spec, Implements, Promise!Spec
=============================================================================
