--------------------------- MODULE SniTray_proofs ---------------------------
(***************************************************************************)
(* Theorems about SniTray for any number of applications: types, and a     *)
(* tray that agrees with the registered items once everything sent has     *)
(* been handled.                                                           *)
(***************************************************************************)
EXTENDS SniTray, SequenceTheorems, FiniteSetTheorems, TLAPS

-----------------------------------------------------------------------------
(* What is on its way.                                                     *)

Is(m, kind, a) == m[1] = kind /\ m[2] = a

Has(q, kind) == \E i \in 1 .. Len(q) : q[i][1] = kind

HasOf(q, kind, a) == \E i \in 1 .. Len(q) : Is(q[i], kind, a)

(* A list of items that has a.                                             *)
Lists(m, a) == m[1] = "ready" /\ a \in m[2]

Offers(q, a) == \E i \in 1 .. Len(q) : Lists(q[i], a)

(* A registration that is heard because the panel listens by then.         *)
HeardLater(q, a) ==
    \E i \in 1 .. Len(q) :
        Is(q[i], "registered", a) /\ \E j \in 1 .. i - 1 : q[j][1] = "ready"

(* What puts a into the queue of the tray, and what takes it out of the    *)
(* tray for good.                                                          *)
Brings(m, a) == Lists(m, a) \/ Is(m, "registered", a)
Ends(m, a)   == m[1] = "owner" \/ Is(m, "unregistered", a)

HasEnd(q, a) == \E i \in 1 .. Len(q) : Ends(q[i], a)

EndsAfter(q, a) ==
    \A i \in 1 .. Len(q) :
        Brings(q[i], a) => \E j \in i + 1 .. Len(q) : Ends(q[j], a)

-----------------------------------------------------------------------------
(* The inductive invariant.                                                *)

In(s, a) == \E i \in 1 .. Len(s) : s[i] = a

(* Who owns the name has the items; applications call no one else.         *)
Owned ==
    /\ owner = "other" =>
          /\ watcherItems = {}
          /\ \A a \in Apps : calledOwner[a] # "panel"
                             /\ ~HasOf(toPanel, "register", a)
    /\ owner = "panel" => otherItems = {}

(* What is said of an application is true of it.                           *)
Told ==
    \A a \in Apps :
        /\ HasOf(toPanel, "vanished", a) \/ HasOf(toPanel, "unregistered", a)
               => app[a] = "gone"
        /\ HasOf(toPanel, "register", a) \/ a \in watcherItems \/ a \in otherItems
               => app[a] # "new"
        /\ app[a] = "new" => calledOwner[a] = "none"

(* The watcher knows the panel, or will.                                   *)
HostComes ==
    hostKnown \/ opening
        \/ \E k \in {"owner", "getall", "ready", "host"} : Has(toPanel, k)

(* An item of the other watcher is in the tray, or will be.                *)
OtherComes ==
    /\ owner = "other" =>
          listening \/ opening \/ Has(toPanel, "owner") \/ Has(toPanel, "ready")
    /\ \A a \in Apps :
          /\ owner = "other" /\ app[a] = "up" /\ calledOwner[a] = "other"
                 => a \in otherItems
          /\ a \in otherItems /\ app[a] = "up"
                 => \/ opening \/ Has(toPanel, "owner")
                    \/ a \in tray \/ In(pending, a) \/ Offers(toPanel, a)
                    \/ listening /\ HasOf(toPanel, "registered", a)
                    \/ HeardLater(toPanel, a)

(* An item of the panel's own watcher is in the tray, or will be.          *)
PanelComes ==
    \A a \in Apps :
        /\ app[a] = "up" /\ calledOwner[a] = "panel"
               => HasOf(toPanel, "register", a) \/ a \in watcherItems
        /\ a \in watcherItems /\ app[a] = "up"
               => \/ Has(toPanel, "owner") \/ Has(toPanel, "getall")
                  \/ a \in tray \/ In(pending, a) \/ Offers(toPanel, a)

(* A watcher has the item, so that it will tell of its end, or the panel's *)
(* is about to.                                                            *)
Kept(a) ==
    a \in otherItems \/ a \in watcherItems \/ HasOf(toPanel, "vanished", a)

(* In the tray, or about to be, and not as a ghost.                        *)
Alive(a) == (a \in tray /\ ~(a \in late)) \/ (In(pending, a) /\ ~(a \in removed))

(* The end of every item that is alive is told after it has come.          *)
EndComes ==
    \A a \in Apps :
        /\ a \in watcherItems /\ app[a] = "gone" => HasOf(toPanel, "vanished", a)
        /\ Alive(a) /\ listening => Kept(a) \/ HasEnd(toPanel, a)
        /\ Alive(a) /\ ~listening => a \in watcherItems
        /\ Kept(a) \/ EndsAfter(toPanel, a)

IInv ==
    /\ TypeOK
    /\ Owned
    /\ Told
    /\ HostComes
    /\ OtherComes
    /\ PanelComes
    /\ EndComes

-----------------------------------------------------------------------------
(* Sequences of messages: p is q and then m.                               *)

Sent(q, p, m) ==
    /\ \A k : Has(p, k) <=> Has(q, k) \/ Has(m, k)
    /\ \A k, a : HasOf(p, k, a) <=> HasOf(q, k, a) \/ HasOf(m, k, a)
    /\ \A a : Offers(p, a) <=> Offers(q, a) \/ Offers(m, a)
    /\ \A a : HasEnd(p, a) <=> HasEnd(q, a) \/ HasEnd(m, a)
    /\ \A a : EndsAfter(m, a) /\ (EndsAfter(q, a) \/ HasEnd(m, a))
                  => EndsAfter(p, a)
    /\ \A a : HeardLater(q, a) => HeardLater(p, a)
    /\ \A a : Has(q, "ready") /\ HasOf(m, "registered", a) => HeardLater(p, a)

LEMMA ConcatIndex ==
    ASSUME NEW S, NEW q \in Seq(S), NEW m \in Seq(S)
    PROVE  /\ Len(q) \in Nat /\ Len(m) \in Nat
           /\ Len(q \o m) = Len(q) + Len(m)
           /\ \A i \in 1 .. Len(q) : i \in 1 .. Len(q) + Len(m) /\ (q \o m)[i] = q[i]
           /\ \A i \in 1 .. Len(m) :
                 Len(q) + i \in 1 .. Len(q) + Len(m) /\ (q \o m)[Len(q) + i] = m[i]
           /\ \A i \in 1 .. Len(q) + Len(m) :
                 i \in 1 .. Len(q) \/ \E j \in 1 .. Len(m) : i = Len(q) + j
<1>1. /\ Len(q) \in Nat /\ Len(m) \in Nat
      /\ Len(q \o m) = Len(q) + Len(m)
      /\ \A i \in 1 .. Len(q) + Len(m) :
            (q \o m)[i] = IF i <= Len(q) THEN q[i] ELSE m[i - Len(q)]
    BY ConcatProperties, LenProperties
<1> DEFINE n == Len(q)
           l == Len(m)
           p == q \o m
<1>2. /\ n \in Nat /\ l \in Nat
      /\ \A i \in 1 .. n + l : p[i] = IF i <= n THEN q[i] ELSE m[i - n]
    BY <1>1
<1> HIDE DEF n, l, p
<1>3. \A i \in 1 .. n : i \in 1 .. n + l /\ p[i] = q[i]
    BY <1>2
<1>4. \A i \in 1 .. l : n + i \in 1 .. n + l /\ p[n + i] = m[i]
    <2> TAKE i \in 1 .. l
    <2>1. n + i \in 1 .. n + l /\ ~(n + i <= n) /\ n + i - n = i
        BY <1>2
    <2> QED BY <1>2, <2>1
<1>5. \A i \in 1 .. n + l : i \in 1 .. n \/ \E j \in 1 .. l : i = n + j
    <2> TAKE i \in 1 .. n + l
    <2>1. CASE i > n
        <3>1. i - n \in 1 .. l /\ i = n + (i - n)
            BY <1>2, <2>1
        <3> QED BY <3>1
    <2> QED BY <1>2, <2>1
<1> QED BY <1>1, <1>3, <1>4, <1>5 DEF n, l, p

LEMMA SentAll ==
    ASSUME NEW S, NEW q \in Seq(S), NEW m \in Seq(S)
    PROVE  Sent(q, q \o m, m)
<1> DEFINE n == Len(q)
           l == Len(m)
           p == q \o m
<1>1. /\ n \in Nat /\ l \in Nat
      /\ Len(p) = n + l
      /\ \A i \in 1 .. n : i \in 1 .. n + l /\ p[i] = q[i]
      /\ \A i \in 1 .. l : n + i \in 1 .. n + l /\ p[n + i] = m[i]
      /\ \A i \in 1 .. n + l : i \in 1 .. n \/ \E j \in 1 .. l : i = n + j
    BY ConcatIndex
<1> HIDE DEF n, l, p
<1> DEFINE N == 1 .. n
           L == 1 .. l
           P == 1 .. n + l
<1>0. /\ Len(q) = n /\ Len(m) = l /\ Len(p) = n + l
      /\ \A i \in P : (\E j \in N : p[i] = q[j]) \/ (\E j \in L : p[i] = m[j])
      /\ \A j \in N : \E i \in P : p[i] = q[j]
      /\ \A j \in L : \E i \in P : p[i] = m[j]
    BY <1>1 DEF n, l
<1> HIDE DEF N, L, P
<1>2. \A k : Has(p, k) <=> Has(q, k) \/ Has(m, k)
    <2>1. /\ \A k : Has(p, k) <=> \E i \in P : p[i][1] = k
          /\ \A k : Has(q, k) <=> \E i \in N : q[i][1] = k
          /\ \A k : Has(m, k) <=> \E i \in L : m[i][1] = k
        BY <1>0 DEF Has, N, L, P
    <2> QED BY <1>0, <2>1
<1>3. \A k, a : HasOf(p, k, a) <=> HasOf(q, k, a) \/ HasOf(m, k, a)
    <2>1. /\ \A k, a : HasOf(p, k, a) <=> \E i \in P : Is(p[i], k, a)
          /\ \A k, a : HasOf(q, k, a) <=> \E i \in N : Is(q[i], k, a)
          /\ \A k, a : HasOf(m, k, a) <=> \E i \in L : Is(m[i], k, a)
        BY <1>0 DEF HasOf, N, L, P
    <2> QED BY <1>0, <2>1
<1>4. \A a : Offers(p, a) <=> Offers(q, a) \/ Offers(m, a)
    <2>1. /\ \A a : Offers(p, a) <=> \E i \in P : Lists(p[i], a)
          /\ \A a : Offers(q, a) <=> \E i \in N : Lists(q[i], a)
          /\ \A a : Offers(m, a) <=> \E i \in L : Lists(m[i], a)
        BY <1>0 DEF Offers, N, L, P
    <2> QED BY <1>0, <2>1
<1>5. \A a : HasEnd(p, a) <=> HasEnd(q, a) \/ HasEnd(m, a)
    <2>1. /\ \A a : HasEnd(p, a) <=> \E i \in P : Ends(p[i], a)
          /\ \A a : HasEnd(q, a) <=> \E i \in N : Ends(q[i], a)
          /\ \A a : HasEnd(m, a) <=> \E i \in L : Ends(m[i], a)
        BY <1>0 DEF HasEnd, N, L, P
    <2> QED BY <1>0, <2>1
<1>6. ASSUME NEW a, EndsAfter(m, a), EndsAfter(q, a) \/ HasEnd(m, a)
      PROVE  EndsAfter(p, a)
    <2> SUFFICES ASSUME NEW i \in 1 .. n + l, Brings(p[i], a)
                 PROVE  \E j \in i + 1 .. n + l : Ends(p[j], a)
        BY <1>1 DEF EndsAfter
    <2>1. ASSUME NEW h \in 1 .. l, i = n + h
          PROVE  \E j \in i + 1 .. n + l : Ends(p[j], a)
        <3>1. Brings(m[h], a)
            BY <1>1, <2>1
        <3>2. PICK j \in h + 1 .. l : Ends(m[j], a)
            BY <1>6, <3>1 DEF EndsAfter, l
        <3>3. j \in 1 .. l /\ n + j \in i + 1 .. n + l
            BY <1>1, <2>1
        <3>4. Ends(p[n + j], a)
            BY <1>1, <3>2, <3>3
        <3> QED BY <3>3, <3>4
    <2>2. ASSUME i \in 1 .. n, EndsAfter(q, a)
          PROVE  \E j \in i + 1 .. n + l : Ends(p[j], a)
        <3>1. Brings(q[i], a)
            BY <1>1, <2>2
        <3>2. PICK j \in i + 1 .. n : Ends(q[j], a)
            BY <2>2, <3>1 DEF EndsAfter, n
        <3>3. j \in 1 .. n /\ j \in i + 1 .. n + l
            BY <1>1, <2>2
        <3>4. Ends(p[j], a)
            BY <1>1, <3>2, <3>3
        <3> QED BY <3>3, <3>4
    <2>3. ASSUME i \in 1 .. n, HasEnd(m, a)
          PROVE  \E j \in i + 1 .. n + l : Ends(p[j], a)
        <3>1. PICK j \in 1 .. l : Ends(m[j], a)
            BY <2>3 DEF HasEnd, l
        <3>2. n + j \in i + 1 .. n + l
            BY <1>1, <2>3
        <3>3. Ends(p[n + j], a)
            BY <1>1, <3>1
        <3> QED BY <3>2, <3>3
    <2> QED BY <1>1, <1>6, <2>1, <2>2, <2>3
<1>7. ASSUME NEW a, HeardLater(q, a) PROVE HeardLater(p, a)
    <2>1. PICK i \in 1 .. n : Is(q[i], "registered", a)
                              /\ \E j \in 1 .. i - 1 : q[j][1] = "ready"
        BY <1>7 DEF HeardLater, n
    <2>2. PICK j \in 1 .. i - 1 : q[j][1] = "ready"
        BY <2>1
    <2>3. j \in 1 .. n
        BY <1>1
    <2>4. i \in 1 .. n + l /\ Is(p[i], "registered", a) /\ p[j][1] = "ready"
        BY <1>1, <2>1, <2>2, <2>3
    <2> QED BY <1>1, <2>4 DEF HeardLater
<1>8. ASSUME NEW a, Has(q, "ready"), HasOf(m, "registered", a)
      PROVE  HeardLater(p, a)
    <2>1. PICK j \in 1 .. n : q[j][1] = "ready"
        BY <1>8 DEF Has, n
    <2>2. PICK i \in 1 .. l : Is(m[i], "registered", a)
        BY <1>8 DEF HasOf, l
    <2>3. j \in 1 .. n + i - 1
        BY <1>1
    <2>4. n + i \in 1 .. n + l /\ Is(p[n + i], "registered", a) /\ p[j][1] = "ready"
        BY <1>1, <2>1, <2>2
    <2> QED BY <1>1, <2>3, <2>4 DEF HeardLater
<1> QED BY <1>2, <1>3, <1>4, <1>5, <1>6, <1>7, <1>8 DEF Sent, p

(* x is the first of q, r the rest.                                        *)
Taken(q, x, r) ==
    /\ \A k : Has(q, k) <=> x[1] = k \/ Has(r, k)
    /\ \A k, a : HasOf(q, k, a) <=> Is(x, k, a) \/ HasOf(r, k, a)
    /\ \A a : Offers(q, a) <=> Lists(x, a) \/ Offers(r, a)
    /\ \A a : HasEnd(q, a) <=> Ends(x, a) \/ HasEnd(r, a)
    /\ \A a : EndsAfter(q, a) =>
                  EndsAfter(r, a) /\ (Brings(x, a) => HasEnd(r, a))
    /\ \A a : HeardLater(q, a) =>
                  \/ HeardLater(r, a)
                  \/ x[1] = "ready" /\ HasOf(r, "registered", a)

LEMMA HeadIndex ==
    ASSUME NEW S, NEW q \in Seq(S), q # << >>
    PROVE  /\ Len(q) \in Nat \ {0} /\ Len(Tail(q)) = Len(q) - 1
           /\ Head(q) = q[1] /\ 1 \in 1 .. Len(q)
           /\ \A i \in 1 .. Len(q) - 1 :
                 i + 1 \in 1 .. Len(q) /\ Tail(q)[i] = q[i + 1]
           /\ \A i \in 1 .. Len(q) :
                 i = 1 \/ (i - 1 \in 1 .. Len(q) - 1 /\ q[i] = Tail(q)[i - 1])
<1>1. /\ Len(q) \in Nat \ {0} /\ Len(Tail(q)) = Len(q) - 1 /\ Head(q) = q[1]
      /\ \A i \in 1 .. Len(q) - 1 : Tail(q)[i] = q[i + 1]
    BY EmptySeq, HeadTailProperties
<1> DEFINE n == Len(q)
           r == Tail(q)
<1>2. n \in Nat \ {0} /\ \A i \in 1 .. n - 1 : r[i] = q[i + 1]
    BY <1>1
<1> HIDE DEF n, r
<1>3. 1 \in 1 .. n /\ \A i \in 1 .. n - 1 : i + 1 \in 1 .. n
    BY <1>2
<1>4. \A i \in 1 .. n : i = 1 \/ (i - 1 \in 1 .. n - 1 /\ q[i] = r[i - 1])
    <2> TAKE i \in 1 .. n
    <2>1. CASE i # 1
        <3>1. i - 1 \in 1 .. n - 1 /\ (i - 1) + 1 = i
            BY <1>2, <2>1
        <3> QED BY <1>2, <3>1
    <2> QED BY <2>1
<1> QED BY <1>1, <1>3, <1>4 DEF n, r

LEMMA TakenOne ==
    ASSUME NEW S, NEW q \in Seq(S), q # << >>
    PROVE  Taken(q, Head(q), Tail(q))
<1> DEFINE n == Len(q)
           r == Tail(q)
           x == Head(q)
<1>1. /\ n \in Nat \ {0} /\ Len(r) = n - 1
      /\ x = q[1] /\ 1 \in 1 .. n
      /\ \A i \in 1 .. n - 1 : i + 1 \in 1 .. n /\ r[i] = q[i + 1]
      /\ \A i \in 1 .. n : i = 1 \/ (i - 1 \in 1 .. n - 1 /\ q[i] = r[i - 1])
    BY HeadIndex
<1> HIDE DEF n, r, x
<1>2. \A k : Has(q, k) <=> x[1] = k \/ Has(r, k)
    BY <1>1 DEF Has, n
<1>3. \A k, a : HasOf(q, k, a) <=> Is(x, k, a) \/ HasOf(r, k, a)
    BY <1>1 DEF HasOf, n
<1>4. \A a : Offers(q, a) <=> Lists(x, a) \/ Offers(r, a)
    BY <1>1 DEF Offers, n
<1>5. \A a : HasEnd(q, a) <=> Ends(x, a) \/ HasEnd(r, a)
    BY <1>1 DEF HasEnd, n
<1>6. ASSUME NEW a, EndsAfter(q, a)
      PROVE  EndsAfter(r, a) /\ (Brings(x, a) => HasEnd(r, a))
    <2>1. ASSUME NEW i \in 1 .. n, Brings(q[i], a)
          PROVE  \E j \in i .. n - 1 : Ends(r[j], a)
        <3>1. PICK j \in i + 1 .. n : Ends(q[j], a)
            BY <1>6, <2>1 DEF EndsAfter, n
        <3>2. j \in 1 .. n /\ j # 1 /\ j - 1 \in i .. n - 1
            BY <1>1
        <3>3. q[j] = r[j - 1]
            BY <1>1, <3>2
        <3> QED BY <3>1, <3>2, <3>3
    <2>2. EndsAfter(r, a)
        <3> SUFFICES ASSUME NEW i \in 1 .. n - 1, Brings(r[i], a)
                     PROVE  \E j \in i + 1 .. n - 1 : Ends(r[j], a)
            BY <1>1 DEF EndsAfter
        <3>1. i + 1 \in 1 .. n /\ Brings(q[i + 1], a)
            BY <1>1
        <3> QED BY <2>1, <3>1
    <2>3. Brings(x, a) => HasEnd(r, a)
        BY <1>1, <2>1 DEF HasEnd
    <2> QED BY <2>2, <2>3
<1>7. ASSUME NEW a, HeardLater(q, a)
      PROVE  \/ HeardLater(r, a)
             \/ x[1] = "ready" /\ HasOf(r, "registered", a)
    <2>1. PICK i \in 1 .. n : Is(q[i], "registered", a)
                              /\ \E j \in 1 .. i - 1 : q[j][1] = "ready"
        BY <1>7 DEF HeardLater, n
    <2>2. PICK j \in 1 .. i - 1 : q[j][1] = "ready"
        BY <2>1
    <2>3. i # 1 /\ j \in 1 .. n
        BY <1>1
    <2>4. i - 1 \in 1 .. n - 1 /\ Is(r[i - 1], "registered", a)
        BY <1>1, <2>1, <2>3
    <2>5. CASE j = 1
        BY <1>1, <2>2, <2>4, <2>5 DEF HasOf
    <2>6. CASE j # 1
        <3>1. j - 1 \in 1 .. (i - 1) - 1 /\ r[j - 1][1] = "ready"
            BY <1>1, <2>2, <2>3, <2>6
        <3> QED BY <1>1, <2>4, <3>1 DEF HeardLater
    <2> QED BY <2>5, <2>6
<1> QED BY <1>2, <1>3, <1>4, <1>5, <1>6, <1>7 DEF Taken, n, r, x

(* m is empty; m is the message x.                                         *)
Nothing(m) ==
    /\ \A k : ~Has(m, k)
    /\ \A k, a : ~HasOf(m, k, a)
    /\ \A a : ~Offers(m, a) /\ ~HasEnd(m, a) /\ EndsAfter(m, a)

One(m, x) ==
    /\ \A k : Has(m, k) <=> x[1] = k
    /\ \A k, a : HasOf(m, k, a) <=> Is(x, k, a)
    /\ \A a : Offers(m, a) <=> Lists(x, a)
    /\ \A a : HasEnd(m, a) <=> Ends(x, a)
    /\ \A a : EndsAfter(m, a) <=> ~Brings(x, a)

LEMMA NothingEmpty == Nothing(<< >>)
    BY DEF Nothing, Has, HasOf, Offers, HasEnd, EndsAfter

LEMMA OneSingle == ASSUME NEW x PROVE One(<< x >>, x)
<1> DEFINE m == << x >>
<1>1. Len(m) = 1 /\ m[1] = x /\ (\A i \in 1 .. 1 : i = 1) /\ 1 \in 1 .. 1
      /\ \A i \in 1 .. 1 : \A j \in i + 1 .. 1 : FALSE
    OBVIOUS
<1> HIDE DEF m
<1>2. /\ \A k : Has(m, k) <=> x[1] = k
      /\ \A k, a : HasOf(m, k, a) <=> Is(x, k, a)
    BY <1>1 DEF Has, HasOf
<1>3. /\ \A a : Offers(m, a) <=> Lists(x, a)
      /\ \A a : HasEnd(m, a) <=> Ends(x, a)
      /\ \A a : EndsAfter(m, a) <=> ~Brings(x, a)
    BY <1>1 DEF Offers, HasEnd, EndsAfter
<1> QED BY <1>2, <1>3 DEF One, m

-----------------------------------------------------------------------------
(* The queue of the tray.                                                  *)

LEMMA Orders ==
    ASSUME NEW S \in SUBSET Apps, NEW f \in SetToSeqs(S)
    PROVE  /\ f \in Seq(S) /\ f \in Seq(Apps)
           /\ \A a : In(f, a) <=> a \in S
<1> DEFINE n == Cardinality(S)
           D == 1 .. n
<1>1. IsFiniteSet(S) /\ n \in Nat
    BY AppsAssumption, FS_Subset, FS_CardinalityType
<1>2. f \in [D -> S] /\ \A i, j \in D : i # j => f[i] # f[j]
    BY DEF SetToSeqs
<1>3. f \in Injection(D, S)
    BY <1>2 DEF Injection, IsInjective
<1>4. Cardinality(D) = n
    <2>1. 1 \in Int /\ n \in Int
        BY <1>1
    <2>2. Cardinality(D) = IF 1 > n THEN 0 ELSE n - 1 + 1
        BY <2>1, FS_Interval
    <2> HIDE DEF n, D
    <2> QED BY <1>1, <2>2
<1>5. f \in Surjection(D, S)
    BY <1>1, <1>3, <1>4, FS_Injection
<1>6. \A a \in S : \E i \in D : f[i] = a
    BY <1>5 DEF Surjection
<1> HIDE DEF n
<1>7. f \in Seq(S) /\ Len(f) = n
    BY <1>1, <1>2
<1>8. f \in Seq(Apps)
    BY <1>1, <1>2
<1>9. \A a : In(f, a) <=> a \in S
    BY <1>2, <1>6, <1>7 DEF In
<1> QED BY <1>7, <1>8, <1>9

LEMMA ConcatIn ==
    ASSUME NEW S, NEW q \in Seq(S), NEW m \in Seq(S)
    PROVE  \A a : In(q \o m, a) <=> In(q, a) \/ In(m, a)
<1> DEFINE n == Len(q)
           l == Len(m)
           p == q \o m
<1>1. /\ n \in Nat /\ l \in Nat
      /\ Len(p) = n + l
      /\ \A i \in 1 .. n : i \in 1 .. n + l /\ p[i] = q[i]
      /\ \A i \in 1 .. l : n + i \in 1 .. n + l /\ p[n + i] = m[i]
      /\ \A i \in 1 .. n + l : i \in 1 .. n \/ \E j \in 1 .. l : i = n + j
    BY ConcatIndex
<1> HIDE DEF n, l, p
<1> DEFINE N == 1 .. n
           L == 1 .. l
           P == 1 .. n + l
<1>2. /\ Len(q) = n /\ Len(m) = l /\ Len(p) = n + l
      /\ \A i \in P : (\E j \in N : p[i] = q[j]) \/ (\E j \in L : p[i] = m[j])
      /\ \A j \in N : \E i \in P : p[i] = q[j]
      /\ \A j \in L : \E i \in P : p[i] = m[j]
    BY <1>1 DEF n, l
<1> HIDE DEF N, L, P
<1>3. /\ \A a : In(p, a) <=> \E i \in P : p[i] = a
      /\ \A a : In(q, a) <=> \E i \in N : q[i] = a
      /\ \A a : In(m, a) <=> \E i \in L : m[i] = a
    BY <1>2 DEF In, N, L, P
<1>4. \A a : In(p, a) <=> In(q, a) \/ In(m, a)
    BY <1>2, <1>3
<1> QED BY <1>4 DEF p

LEMMA Enqueued ==
    ASSUME pending \in Seq(Apps), NEW items \in SUBSET Apps, Enqueue(items)
    PROVE  /\ pending' \in Seq(Apps)
           /\ \A a : In(pending', a) <=>
                         In(pending, a) \/ (a \in items /\ ~(a \in tray))
<1> DEFINE S == items \ (ToSet(pending) \cup tray)
<1>1. PICK new \in SetToSeqs(S) : pending' = pending \o new
    BY DEF Enqueue
<1>2. \A a : a \in ToSet(pending) <=> In(pending, a)
    <2>1. DOMAIN pending = 1 .. Len(pending)
        BY LenProperties
    <2> QED BY <2>1 DEF ToSet, In
<1>3. S \in SUBSET Apps
    OBVIOUS
<1>4. \A a : a \in S <=> a \in items /\ ~In(pending, a) /\ ~(a \in tray)
    BY <1>2
<1> HIDE DEF S
<1>5. new \in Seq(Apps) /\ \A a : In(new, a) <=> a \in S
    BY <1>3, Orders
<1>6. pending' \in Seq(Apps)
    BY <1>1, <1>5, ConcatProperties
<1>7. \A a : In(pending \o new, a) <=> In(pending, a) \/ In(new, a)
    BY <1>5, ConcatIn
<1> QED BY <1>1, <1>4, <1>5, <1>6, <1>7

LEMMA Dequeued ==
    ASSUME pending \in Seq(Apps), pending # << >>, pending' = Tail(pending)
    PROVE  /\ pending' \in Seq(Apps) /\ Head(pending) \in Apps
           /\ \A a : In(pending, a) <=> a = Head(pending) \/ In(pending', a)
<1>1. /\ Len(pending) \in Nat \ {0}
      /\ Len(Tail(pending)) = Len(pending) - 1
      /\ Head(pending) = pending[1] /\ 1 \in 1 .. Len(pending)
      /\ \A i \in 1 .. Len(pending) - 1 :
            i + 1 \in 1 .. Len(pending) /\ Tail(pending)[i] = pending[i + 1]
      /\ \A i \in 1 .. Len(pending) :
            i = 1 \/ ( /\ i - 1 \in 1 .. Len(pending) - 1
                      /\ pending[i] = Tail(pending)[i - 1] )
    BY HeadIndex
<1>2. \A a : In(pending, a) <=> a = Head(pending) \/ In(Tail(pending), a)
    BY <1>1 DEF In
<1> QED BY <1>2, HeadTailProperties


-----------------------------------------------------------------------------
(* One message more, one message less.                                     *)

Plus(q, p, kind, v) ==
    /\ \A k : Has(p, k) <=> Has(q, k) \/ kind = k
    /\ \A k, a : HasOf(p, k, a) <=> HasOf(q, k, a) \/ (kind = k /\ v = a)
    /\ \A a : Offers(p, a) <=> Offers(q, a) \/ (kind = "ready" /\ a \in v)
    /\ \A a : HasEnd(p, a) <=>
                  HasEnd(q, a) \/ kind = "owner" \/ (kind = "unregistered" /\ v = a)
    /\ \A a : kind = "owner" \/ (kind = "unregistered" /\ v = a) => EndsAfter(p, a)
    /\ \A a : EndsAfter(q, a) /\ ~(kind = "ready" /\ a \in v)
                  /\ ~(kind = "registered" /\ v = a) => EndsAfter(p, a)
    /\ \A a : HeardLater(q, a) => HeardLater(p, a)
    /\ \A a : Has(q, "ready") /\ kind = "registered" /\ v = a => HeardLater(p, a)

LEMMA PlusOne ==
    ASSUME NEW q \in Seq(Messages), NEW kind, NEW v, << kind, v >> \in Messages
    PROVE  LET p == q \o << << kind, v >> >>
           IN  p \in Seq(Messages) /\ Plus(q, p, kind, v)
<1> DEFINE x == << kind, v >>
           m == << x >>
           p == q \o m
<1>1. m \in Seq(Messages)
    OBVIOUS
<1>2. x[1] = kind /\ x[2] = v
    OBVIOUS
<1>3. One(m, x)
    BY OneSingle
<1> HIDE DEF m, x
<1>4. p \in Seq(Messages)
    BY <1>1, ConcatProperties
<1>5. Sent(q, p, m)
    BY <1>1, SentAll
<1> HIDE DEF p
<1>6. /\ \A k : Has(p, k) <=> Has(q, k) \/ kind = k
      /\ \A k, a : HasOf(p, k, a) <=> HasOf(q, k, a) \/ (kind = k /\ v = a)
      /\ \A a : Offers(p, a) <=> Offers(q, a) \/ (kind = "ready" /\ a \in v)
    BY <1>2, <1>3, <1>5 DEF Sent, One, Is, Lists
<1>7. \A a : HasEnd(p, a) <=>
                HasEnd(q, a) \/ kind = "owner" \/ (kind = "unregistered" /\ v = a)
    BY <1>2, <1>3, <1>5 DEF Sent, One, Is, Ends
<1>8. \A a : kind = "owner" \/ (kind = "unregistered" /\ v = a) => EndsAfter(p, a)
    <2> TAKE a
    <2> HAVE kind = "owner" \/ (kind = "unregistered" /\ v = a)
    <2>1. Ends(x, a) /\ ~Brings(x, a)
        BY <1>2 DEF Is, Lists, Ends, Brings
    <2>2. EndsAfter(m, a) /\ HasEnd(m, a)
        BY <1>3, <2>1 DEF One
    <2> QED BY <1>5, <2>2 DEF Sent
<1>9. \A a : EndsAfter(q, a) /\ ~(kind = "ready" /\ a \in v)
                /\ ~(kind = "registered" /\ v = a) => EndsAfter(p, a)
    <2> TAKE a
    <2> HAVE EndsAfter(q, a) /\ ~(kind = "ready" /\ a \in v)
                /\ ~(kind = "registered" /\ v = a)
    <2>1. ~Brings(x, a)
        BY <1>2 DEF Is, Lists, Brings
    <2>2. EndsAfter(m, a)
        BY <1>3, <2>1 DEF One
    <2> QED BY <1>5, <2>2 DEF Sent
<1>10. /\ \A a : HeardLater(q, a) => HeardLater(p, a)
       /\ \A a : Has(q, "ready") /\ kind = "registered" /\ v = a => HeardLater(p, a)
    BY <1>2, <1>3, <1>5 DEF Sent, One, Is
<1>11. Plus(q, p, kind, v)
    BY <1>6, <1>7, <1>8, <1>9, <1>10 DEF Plus
<1> QED BY <1>4, <1>11 DEF p, m, x

Minus(q, r, kind, v) ==
    /\ \A k : Has(q, k) <=> kind = k \/ Has(r, k)
    /\ \A k, a : HasOf(q, k, a) <=> (kind = k /\ v = a) \/ HasOf(r, k, a)
    /\ \A a : Offers(q, a) <=> (kind = "ready" /\ a \in v) \/ Offers(r, a)
    /\ \A a : HasEnd(q, a) <=>
                  kind = "owner" \/ (kind = "unregistered" /\ v = a) \/ HasEnd(r, a)
    /\ \A a : EndsAfter(q, a) => EndsAfter(r, a)
    /\ \A a : EndsAfter(q, a) /\ kind = "ready" /\ a \in v => HasEnd(r, a)
    /\ \A a : EndsAfter(q, a) /\ kind = "registered" /\ v = a => HasEnd(r, a)
    /\ \A a : HeardLater(q, a) =>
                  \/ HeardLater(r, a)
                  \/ kind = "ready" /\ HasOf(r, "registered", a)

LEMMA Gotten ==
    ASSUME toPanel \in Seq(Messages), NEW kind, Gets(kind)
    PROVE  /\ Tail(toPanel) \in Seq(Messages)
           /\ Minus(toPanel, Tail(toPanel), kind, Item)
           /\ kind \in {"register", "vanished", "registered", "unregistered"}
                  => Item \in Apps
           /\ kind = "ready" => Item \in SUBSET Apps
<1> DEFINE q == toPanel
           x == Head(q)
           r == Tail(q)
<1>1. q # << >> /\ x[1] = kind
    BY DEF Gets
<1>2. x \in Messages /\ r \in Seq(Messages)
    BY <1>1, HeadTailProperties
<1>3. Taken(q, x, r)
    BY <1>1, TakenOne
<1>4. x[2] = Item
    BY DEF Item
<1> HIDE DEF x, r
<1>5. /\ kind \in {"register", "vanished", "registered", "unregistered"}
             => x[2] \in Apps
      /\ kind = "ready" => x[2] \in SUBSET Apps
    BY <1>1, <1>2 DEF Messages
<1> DEFINE v == Item
<1> HIDE DEF v
<1>6. x[2] = v
    BY <1>4 DEF v
<1>7. /\ \A k : Has(q, k) <=> kind = k \/ Has(r, k)
      /\ \A k, a : HasOf(q, k, a) <=> (kind = k /\ v = a) \/ HasOf(r, k, a)
      /\ \A a : Offers(q, a) <=> (kind = "ready" /\ a \in v) \/ Offers(r, a)
    BY <1>1, <1>3, <1>6 DEF Taken, Is, Lists
<1>8. \A a : HasEnd(q, a) <=>
                kind = "owner" \/ (kind = "unregistered" /\ v = a) \/ HasEnd(r, a)
    BY <1>1, <1>3, <1>6 DEF Taken, Is, Ends
<1>9. /\ \A a : EndsAfter(q, a) => EndsAfter(r, a)
      /\ \A a : EndsAfter(q, a) /\ kind = "ready" /\ a \in v => HasEnd(r, a)
      /\ \A a : EndsAfter(q, a) /\ kind = "registered" /\ v = a => HasEnd(r, a)
    BY <1>1, <1>3, <1>6 DEF Taken, Is, Lists, Brings
<1>10. \A a : HeardLater(q, a) =>
                  \/ HeardLater(r, a)
                  \/ kind = "ready" /\ HasOf(r, "registered", a)
    BY <1>1, <1>3 DEF Taken
<1>11. Minus(q, r, kind, v)
    BY <1>7, <1>8, <1>9, <1>10 DEF Minus
<1> QED BY <1>2, <1>4, <1>5, <1>6, <1>11 DEF r


-----------------------------------------------------------------------------
(* Applications and the other watcher.                                     *)

LEMMA StopsKeep ==
    ASSUME IInv, NEW b \in Apps, AppStops(b)
    PROVE  IInv'
<1>1. /\ app \in [Apps -> {"new", "up", "gone"}] /\ toPanel \in Seq(Messages)
      /\ Owned /\ Told /\ HostComes /\ OtherComes /\ PanelComes /\ EndComes
    BY DEF IInv, TypeOK
<1>2. /\ app[b] = "up" /\ app' \in [Apps -> {"new", "up", "gone"}]
      /\ app'[b] = "gone" /\ \A a \in Apps : a # b => app'[a] = app[a]
    BY <1>1 DEF AppStops
<1>3. UNCHANGED << calledOwner, owner, otherItems, opening, watcherItems, hostKnown,
                   listening, pending, tray, removed, late >>
    BY DEF AppStops, panelVars
<1>4. CASE b \in watcherItems
    <2>1. toPanel' = toPanel \o << << "vanished", b >> >>
        BY <1>4 DEF AppStops, Send
    <2>2. << "vanished", b >> \in Messages
        BY DEF Messages
    <2>3. toPanel' \in Seq(Messages) /\ Plus(toPanel, toPanel', "vanished", b)
        BY <1>1, <2>1, <2>2, PlusOne
    <2>4. TypeOK'
        BY <1>2, <1>3, <2>3 DEF IInv, TypeOK
    <2>5. Owned' /\ Told' /\ HostComes'
        BY <1>1, <1>2, <1>3, <2>3 DEF Owned, Told, HostComes, Plus
    <2>6. OtherComes' /\ PanelComes'
        BY <1>1, <1>2, <1>3, <2>3 DEF OtherComes, PanelComes, Plus
    <2>7. EndComes'
        BY <1>1, <1>2, <1>3, <2>3 DEF EndComes, Alive, Kept, Plus
    <2> QED BY <2>4, <2>5, <2>6, <2>7 DEF IInv
<1>5. CASE ~(b \in watcherItems)
    <2>1. toPanel' = toPanel
        BY <1>1, <1>5, ConcatEmptySeq DEF AppStops, Send
    <2>2. TypeOK'
        BY <1>2, <1>3, <2>1 DEF IInv, TypeOK
    <2>3. Owned' /\ Told' /\ HostComes' /\ OtherComes' /\ PanelComes' /\ EndComes'
        BY <1>1, <1>2, <1>3, <1>5, <2>1
           DEF Owned, Told, HostComes, OtherComes, PanelComes, EndComes, Alive, Kept
    <2> QED BY <2>2, <2>3 DEF IInv
<1> QED BY <1>4, <1>5

LEMMA ReadyKeeps ==
    ASSUME IInv, ProxyReady
    PROVE  IInv'
<1>1. /\ toPanel \in Seq(Messages) /\ pending \in Seq(Apps)
      /\ owner \in {"other", "panel"}
      /\ Owned /\ Told /\ HostComes /\ OtherComes /\ PanelComes /\ EndComes
    BY DEF IInv, TypeOK
<1> DEFINE r == Tail(toPanel)
           S == Item
<1>2. r \in Seq(Messages) /\ Minus(toPanel, r, "ready", S) /\ S \in SUBSET Apps
    BY <1>1, Gotten DEF ProxyReady
<1>3. /\ pending' \in Seq(Apps)
      /\ \A a : In(pending', a) <=> In(pending, a) \/ (a \in S /\ ~(a \in tray))
    BY <1>1, <1>2, Enqueued DEF ProxyReady
<1>4. /\ UNCHANGED << app, calledOwner, owner, otherItems, opening, watcherItems,
                      tray, late >>
      /\ listening' = TRUE /\ removed' = removed \ S
    BY DEF ProxyReady, busVars
<1>5. /\ toPanel' \in Seq(Messages)
      /\ hostKnown' \in BOOLEAN
      /\ \/ hostKnown' = TRUE /\ toPanel' = r
         \/ hostKnown' = hostKnown /\ Plus(r, toPanel', "host", {})
    <2>1. CASE owner = "other"
        <3>1. toPanel' = r \o << >> /\ hostKnown' = TRUE
            BY <2>1 DEF ProxyReady, Reply
        <3> QED BY <1>2, <3>1, ConcatEmptySeq
    <2>2. CASE owner = "panel"
        <3>1. toPanel' = r \o << << "host", {} >> >> /\ hostKnown' = hostKnown
            BY <2>2 DEF ProxyReady, Reply
        <3>2. << "host", {} >> \in Messages /\ hostKnown \in BOOLEAN
            BY DEF Messages, IInv, TypeOK
        <3> QED BY <1>2, <3>1, <3>2, PlusOne
    <2> QED BY <1>1, <2>1, <2>2
<1> HIDE DEF r, S
<1>6. TypeOK'
    BY <1>2, <1>3, <1>4, <1>5 DEF IInv, TypeOK
<1>7. Owned' /\ Told' /\ HostComes'
    BY <1>1, <1>2, <1>4, <1>5 DEF Owned, Told, HostComes, Plus, Minus
<1>8. OtherComes'
    BY <1>1, <1>2, <1>3, <1>4, <1>5 DEF OtherComes, Plus, Minus
<1>9. PanelComes'
    BY <1>1, <1>2, <1>3, <1>4, <1>5 DEF PanelComes, Plus, Minus
<1>10. EndComes'
    BY <1>1, <1>2, <1>3, <1>4, <1>5 DEF EndComes, Alive, Kept, Plus, Minus
<1> QED BY <1>6, <1>7, <1>8, <1>9, <1>10 DEF IInv


LEMMA StartsKeep ==
    ASSUME IInv, NEW b \in Apps, AppStarts(b)
    PROVE  IInv'
<1>1. /\ toPanel \in Seq(Messages) /\ pending \in Seq(Apps)
      /\ owner \in {"other", "panel"}
      /\ Owned /\ Told /\ HostComes /\ OtherComes /\ PanelComes /\ EndComes
    BY DEF IInv, TypeOK
<1>2. /\ app \in [Apps -> {"new", "up", "gone"}] /\ app[b] = "new"
      /\ app' \in [Apps -> {"new", "up", "gone"}]
      /\ app'[b] = "up" /\ \A a \in Apps : a # b => app'[a] = app[a]
    BY DEF AppStarts, IInv, TypeOK
<1>3. UNCHANGED << calledOwner, owner, otherItems, opening, watcherItems, hostKnown,
                   listening, pending, tray, removed, late, toPanel >>
    BY DEF AppStarts, panelVars
<1>4. /\ calledOwner[b] = "none"
      /\ ~(b \in watcherItems) /\ ~(b \in otherItems)
    BY <1>1, <1>2 DEF Told
<1>5. TypeOK'
    BY <1>1, <1>2, <1>3, <1>4 DEF IInv, TypeOK
<1>6. Owned' /\ Told' /\ HostComes'
    BY <1>1, <1>2, <1>3, <1>4 DEF Owned, Told, HostComes
<1>7. OtherComes' /\ PanelComes'
    BY <1>1, <1>2, <1>3, <1>4 DEF OtherComes, PanelComes
<1>8. EndComes'
    BY <1>1, <1>2, <1>3, <1>4 DEF EndComes, Alive, Kept
<1> QED BY <1>5, <1>6, <1>7, <1>8 DEF IInv

LEMMA RegistersOther ==
    ASSUME IInv, NEW b \in Apps, AppRegisters(b), owner = "other"
    PROVE  IInv'
<1>1. /\ toPanel \in Seq(Messages) /\ pending \in Seq(Apps)
      /\ owner \in {"other", "panel"}
      /\ Owned /\ Told /\ HostComes /\ OtherComes /\ PanelComes /\ EndComes
    BY DEF IInv, TypeOK
<1>2. /\ app[b] = "up" /\ otherItems' = otherItems \cup {b}
      /\ calledOwner' = [calledOwner EXCEPT ![b] = "other"]
    BY DEF AppRegisters
<1>3. /\ calledOwner' \in [Apps -> {"none", "other", "panel"}]
      /\ calledOwner'[b] = "other"
      /\ \A a \in Apps : a # b => calledOwner'[a] = calledOwner[a]
    BY <1>2 DEF IInv, TypeOK
<1>4. UNCHANGED << app, owner, opening, watcherItems, hostKnown, listening, pending,
                   tray, removed, late >>
    BY DEF AppRegisters, panelVars
<1>5. toPanel' \in Seq(Messages) /\ Plus(toPanel, toPanel', "registered", b)
    <2>1. toPanel' = toPanel \o << << "registered", b >> >>
        BY DEF AppRegisters, Send
    <2>2. << "registered", b >> \in Messages
        BY DEF Messages
    <2> QED BY <1>1, <2>1, <2>2, PlusOne
<1>6. TypeOK'
    BY <1>1, <1>2, <1>3, <1>4, <1>5 DEF IInv, TypeOK
<1>7. Owned' /\ Told' /\ HostComes'
    BY <1>1, <1>2, <1>3, <1>4, <1>5 DEF Owned, Told, HostComes, Plus
<1>8. OtherComes' /\ PanelComes'
    BY <1>1, <1>2, <1>3, <1>4, <1>5 DEF OtherComes, PanelComes, Plus
<1>9. EndComes'
    BY <1>1, <1>2, <1>3, <1>4, <1>5 DEF EndComes, Alive, Kept, Plus
<1> QED BY <1>6, <1>7, <1>8, <1>9 DEF IInv

LEMMA RegistersPanel ==
    ASSUME IInv, NEW b \in Apps, AppRegisters(b), owner = "panel"
    PROVE  IInv'
<1>1. /\ toPanel \in Seq(Messages) /\ pending \in Seq(Apps)
      /\ owner \in {"other", "panel"}
      /\ Owned /\ Told /\ HostComes /\ OtherComes /\ PanelComes /\ EndComes
    BY DEF IInv, TypeOK
<1>2. /\ app[b] = "up" /\ otherItems' = otherItems
      /\ calledOwner' = [calledOwner EXCEPT ![b] = "panel"]
    BY DEF AppRegisters
<1>3. /\ calledOwner' \in [Apps -> {"none", "other", "panel"}]
      /\ calledOwner'[b] = "panel"
      /\ \A a \in Apps : a # b => calledOwner'[a] = calledOwner[a]
    BY <1>2 DEF IInv, TypeOK
<1>4. UNCHANGED << app, owner, opening, watcherItems, hostKnown, listening, pending,
                   tray, removed, late >>
    BY DEF AppRegisters, panelVars
<1>5. toPanel' \in Seq(Messages) /\ Plus(toPanel, toPanel', "register", b)
    <2>1. toPanel' = toPanel \o << << "register", b >> >>
        BY DEF AppRegisters, Send
    <2>2. << "register", b >> \in Messages
        BY DEF Messages
    <2> QED BY <1>1, <2>1, <2>2, PlusOne
<1>6. TypeOK'
    BY <1>1, <1>2, <1>3, <1>4, <1>5 DEF IInv, TypeOK
<1>7. Owned' /\ Told' /\ HostComes'
    BY <1>1, <1>2, <1>3, <1>4, <1>5 DEF Owned, Told, HostComes, Plus
<1>8. OtherComes' /\ PanelComes'
    BY <1>1, <1>2, <1>3, <1>4, <1>5 DEF OtherComes, PanelComes, Plus
<1>9. EndComes'
    BY <1>1, <1>2, <1>3, <1>4, <1>5 DEF EndComes, Alive, Kept, Plus
<1> QED BY <1>6, <1>7, <1>8, <1>9 DEF IInv

LEMMA NoticesKeep ==
    ASSUME IInv, NEW b \in Apps, OtherNotices(b)
    PROVE  IInv'
<1>1. /\ toPanel \in Seq(Messages) /\ pending \in Seq(Apps)
      /\ owner \in {"other", "panel"}
      /\ Owned /\ Told /\ HostComes /\ OtherComes /\ PanelComes /\ EndComes
    BY DEF IInv, TypeOK
<1>2. b \in otherItems /\ app[b] = "gone" /\ otherItems' = otherItems \ {b}
    BY DEF OtherNotices
<1>3. UNCHANGED << app, calledOwner, owner, opening, watcherItems, hostKnown,
                   listening, pending, tray, removed, late >>
    BY DEF OtherNotices, panelVars
<1>4. toPanel' \in Seq(Messages) /\ Plus(toPanel, toPanel', "unregistered", b)
    <2>1. toPanel' = toPanel \o << << "unregistered", b >> >>
        BY DEF OtherNotices, Send
    <2>2. << "unregistered", b >> \in Messages
        BY DEF Messages
    <2> QED BY <1>1, <2>1, <2>2, PlusOne
<1>5. TypeOK'
    BY <1>1, <1>2, <1>3, <1>4 DEF IInv, TypeOK
<1>6. Owned' /\ Told' /\ HostComes'
    BY <1>1, <1>2, <1>3, <1>4 DEF Owned, Told, HostComes, Plus
<1>7. OtherComes' /\ PanelComes'
    BY <1>1, <1>2, <1>3, <1>4 DEF OtherComes, PanelComes, Plus
<1>8. EndComes'
    BY <1>1, <1>2, <1>3, <1>4 DEF EndComes, Alive, Kept, Plus
<1> QED BY <1>5, <1>6, <1>7, <1>8 DEF IInv

LEMMA AnswersKeep ==
    ASSUME IInv, OtherAnswers
    PROVE  IInv'
<1>1. /\ toPanel \in Seq(Messages) /\ pending \in Seq(Apps)
      /\ owner \in {"other", "panel"}
      /\ Owned /\ Told /\ HostComes /\ OtherComes /\ PanelComes /\ EndComes
    BY DEF IInv, TypeOK
<1>2. opening' = FALSE /\ otherItems \in SUBSET Apps
    BY DEF OtherAnswers, IInv, TypeOK
<1>3. UNCHANGED << app, calledOwner, owner, otherItems, watcherItems, hostKnown,
                   listening, pending, tray, removed, late >>
    BY DEF OtherAnswers, panelVars
<1>4. toPanel' \in Seq(Messages) /\ Plus(toPanel, toPanel', "ready", otherItems)
    <2>1. toPanel' = toPanel \o << << "ready", otherItems >> >>
        BY DEF OtherAnswers, Send
    <2>2. << "ready", otherItems >> \in Messages
        BY <1>2 DEF Messages
    <2> QED BY <1>1, <2>1, <2>2, PlusOne
<1>5. TypeOK'
    BY <1>1, <1>2, <1>3, <1>4 DEF IInv, TypeOK
<1>6. Owned' /\ Told' /\ HostComes'
    BY <1>1, <1>2, <1>3, <1>4 DEF Owned, Told, HostComes, Plus
<1>7. OtherComes' /\ PanelComes'
    BY <1>1, <1>2, <1>3, <1>4 DEF OtherComes, PanelComes, Plus
<1>8. EndComes'
    BY <1>1, <1>2, <1>3, <1>4 DEF EndComes, Alive, Kept, Plus
<1> QED BY <1>5, <1>6, <1>7, <1>8 DEF IInv

LEMMA DiesKeeps ==
    ASSUME IInv, OtherDies
    PROVE  IInv'
<1>1. /\ toPanel \in Seq(Messages) /\ pending \in Seq(Apps)
      /\ owner \in {"other", "panel"}
      /\ Owned /\ Told /\ HostComes /\ OtherComes /\ PanelComes /\ EndComes
    BY DEF IInv, TypeOK
<1>2. /\ owner = "other" /\ owner' = "panel" /\ otherItems' = {}
      /\ hostKnown' = FALSE /\ opening' = FALSE
    BY DEF OtherDies
<1>3. UNCHANGED << app, calledOwner, watcherItems, listening, pending, tray, removed,
                   late >>
    BY DEF OtherDies
<1>4. /\ << "owner", {} >> \in Messages /\ << "ready", {} >> \in Messages
      /\ << << "owner", {} >> >> \in Seq(Messages)
      /\ << << "ready", {} >> >> \in Seq(Messages)
      /\ << >> \in Seq(Messages)
    <2>1. << "owner", {} >> \in Messages /\ << "ready", {} >> \in Messages
        BY DEF Messages
    <2> QED BY <2>1
<1>5. PICK p \in Seq(Messages) :
          /\ p = toPanel \/ Plus(toPanel, p, "ready", {})
          /\ toPanel' = p \o << << "owner", {} >> >>
    <2>1. CASE opening
        <3> DEFINE p == toPanel \o << << "ready", {} >> >>
        <3>1. p \in Seq(Messages) /\ Plus(toPanel, p, "ready", {})
            BY <1>1, <1>4, PlusOne
        <3>2. toPanel' = toPanel \o (<< << "ready", {} >> >> \o << << "owner", {} >> >>)
            BY <2>1 DEF OtherDies, Send
        <3>3. toPanel' = p \o << << "owner", {} >> >>
            BY <1>1, <1>4, <3>2, ConcatAssociative
        <3> HIDE DEF p
        <3> QED BY <3>1, <3>3
    <2>2. CASE ~opening
        <3>1. toPanel' = toPanel \o (<< >> \o << << "owner", {} >> >>)
            BY <2>2 DEF OtherDies, Send
        <3>2. toPanel' = toPanel \o << << "owner", {} >> >>
            BY <1>4, <3>1, ConcatEmptySeq
        <3> QED BY <1>1, <3>2
    <2> QED BY <2>1, <2>2
<1>6. toPanel' \in Seq(Messages) /\ Plus(p, toPanel', "owner", {})
    BY <1>4, <1>5, PlusOne
<1>7. p = toPanel \/ Plus(toPanel, p, "ready", {})
    BY <1>5
<1>8. TypeOK'
    BY <1>1, <1>2, <1>3, <1>6, <1>7 DEF IInv, TypeOK
<1>9. Owned' /\ Told' /\ HostComes'
    BY <1>1, <1>2, <1>3, <1>6, <1>7 DEF Owned, Told, HostComes, Plus
<1>10. OtherComes' /\ PanelComes'
    BY <1>1, <1>2, <1>3, <1>6, <1>7 DEF OtherComes, PanelComes, Plus
<1>11. EndComes'
    BY <1>1, <1>2, <1>3, <1>6, <1>7 DEF EndComes, Alive, Kept, Plus
<1> QED BY <1>8, <1>9, <1>10, <1>11 DEF IInv


-----------------------------------------------------------------------------
(* The panel.                                                              *)

LEMMA RegistersKeep ==
    ASSUME IInv, RegisterItem
    PROVE  IInv'
<1>1. /\ toPanel \in Seq(Messages) /\ pending \in Seq(Apps)
      /\ owner \in {"other", "panel"}
      /\ Owned /\ Told /\ HostComes /\ OtherComes /\ PanelComes /\ EndComes
    BY DEF IInv, TypeOK
<1> DEFINE r == Tail(toPanel)
           b == Item
<1>2. r \in Seq(Messages) /\ Minus(toPanel, r, "register", b) /\ b \in Apps
    BY <1>1, Gotten DEF RegisterItem
<1>3. UNCHANGED << app, calledOwner, owner, otherItems, opening, hostKnown, listening,
                   tray, late >>
    BY DEF RegisterItem, busVars
<1>4. owner = "panel"
    BY <1>1, <1>2 DEF Owned, Minus
<1>5. CASE b \in watcherItems
    <2>1. UNCHANGED << watcherItems, pending, removed >>
        BY <1>5 DEF RegisterItem
    <2>2. toPanel' = r
        <3>1. toPanel' = r \o << >>
            BY <1>5 DEF RegisterItem, Reply
        <3> QED BY <1>2, <3>1, ConcatEmptySeq
    <2> HIDE DEF r, b
    <2>3. TypeOK'
        BY <1>1, <1>2, <1>3, <2>1, <2>2 DEF IInv, TypeOK
    <2>4. Owned' /\ Told' /\ HostComes'
        BY <1>1, <1>2, <1>3, <2>1, <2>2 DEF Owned, Told, HostComes, Minus
    <2>5. OtherComes' /\ PanelComes'
        BY <1>1, <1>2, <1>3, <1>5, <2>1, <2>2 DEF OtherComes, PanelComes, Minus
    <2>6. EndComes'
        BY <1>1, <1>2, <1>3, <2>1, <2>2 DEF EndComes, Alive, Kept, Minus
    <2> QED BY <2>3, <2>4, <2>5, <2>6 DEF IInv
<1>6. CASE ~(b \in watcherItems)
    <2>1. watcherItems' = watcherItems \cup {b} /\ removed' = removed \ {b}
        BY <1>6 DEF RegisterItem
    <2>2. /\ pending' \in Seq(Apps)
          /\ \A a : In(pending', a) <=> In(pending, a) \/ (a = b /\ ~(a \in tray))
        <3>1. {b} \in SUBSET Apps /\ Enqueue({b})
            BY <1>2, <1>6 DEF RegisterItem
        <3> HIDE DEF b
        <3>2. /\ pending' \in Seq(Apps)
              /\ \A a : In(pending', a) <=>
                           In(pending, a) \/ (a \in {b} /\ ~(a \in tray))
            BY <1>1, <3>1, Enqueued
        <3> QED BY <3>2
    <2>3. /\ << "vanished", b >> \in Messages /\ << "registered", b >> \in Messages
          /\ << << "vanished", b >> >> \in Seq(Messages)
          /\ << << "registered", b >> >> \in Seq(Messages)
        <3>1. << "vanished", b >> \in Messages /\ << "registered", b >> \in Messages
            BY <1>2 DEF Messages
        <3> HIDE DEF b
        <3> QED BY <3>1
    <2>4. PICK p \in Seq(Messages) :
              /\ \/ app[b] = "gone" /\ Plus(r, p, "vanished", b)
                 \/ app[b] # "gone" /\ p = r
              /\ toPanel' = p \o << << "registered", b >> >>
        <3>1. CASE app[b] = "gone"
            <4> DEFINE p == r \o << << "vanished", b >> >>
            <4>1. p \in Seq(Messages) /\ Plus(r, p, "vanished", b)
                BY <1>2, <2>3, PlusOne
            <4>2. toPanel' =
                     r \o (<< << "vanished", b >> >> \o << << "registered", b >> >>)
                BY <1>6, <3>1 DEF RegisterItem, Reply
            <4>3. toPanel' = p \o << << "registered", b >> >>
                BY <1>2, <2>3, <4>2, ConcatAssociative
            <4> HIDE DEF p
            <4> QED BY <3>1, <4>1, <4>3
        <3>2. CASE app[b] # "gone"
            <4>1. toPanel' = r \o (<< >> \o << << "registered", b >> >>)
                BY <1>6, <3>2 DEF RegisterItem, Reply
            <4>2. toPanel' = r \o << << "registered", b >> >>
                BY <2>3, <4>1, ConcatEmptySeq
            <4> QED BY <1>2, <3>2, <4>2
        <3> QED BY <3>1, <3>2
    <2>5. toPanel' \in Seq(Messages) /\ Plus(p, toPanel', "registered", b)
        BY <2>3, <2>4, PlusOne
    <2>6. (app[b] = "gone" /\ Plus(r, p, "vanished", b)) \/ (app[b] # "gone" /\ p = r)
        BY <2>4
    <2>7. app[b] # "new"
        BY <1>1, <1>2 DEF Told, Minus
    <2> HIDE DEF r, b
    <2>8. TypeOK'
        BY <1>1, <1>2, <1>3, <2>1, <2>2, <2>5 DEF IInv, TypeOK
    <2>9. Owned' /\ Told' /\ HostComes'
        BY <1>1, <1>2, <1>3, <1>4, <2>1, <2>5, <2>6, <2>7
           DEF Owned, Told, HostComes, Plus, Minus
    <2>10. OtherComes' /\ PanelComes'
        BY <1>1, <1>2, <1>3, <1>4, <2>1, <2>2, <2>5, <2>6
           DEF Owned, OtherComes, PanelComes, Plus, Minus
    <2>11. EndComes'
        BY <1>1, <1>2, <1>3, <2>1, <2>2, <2>5, <2>6
           DEF EndComes, Alive, Kept, Plus, Minus
    <2> QED BY <2>8, <2>9, <2>10, <2>11 DEF IInv
<1> QED BY <1>5, <1>6

LEMMA VanishedKeeps ==
    ASSUME IInv, ItemVanished
    PROVE  IInv'
<1>1. /\ toPanel \in Seq(Messages) /\ pending \in Seq(Apps)
      /\ owner \in {"other", "panel"}
      /\ Owned /\ Told /\ HostComes /\ OtherComes /\ PanelComes /\ EndComes
    BY DEF IInv, TypeOK
<1> DEFINE r == Tail(toPanel)
           b == Item
<1>2. r \in Seq(Messages) /\ Minus(toPanel, r, "vanished", b) /\ b \in Apps
    BY <1>1, Gotten DEF ItemVanished
<1>3. /\ watcherItems' = watcherItems \ {b} /\ tray' = tray \ {b}
      /\ late' = late \ {b} /\ removed' = removed \cup {b}
      /\ UNCHANGED << app, calledOwner, owner, otherItems, opening, hostKnown,
                      listening, pending >>
    BY DEF ItemVanished, TrayRemove, busVars
<1>4. toPanel' \in Seq(Messages) /\ Plus(r, toPanel', "unregistered", b)
    <2>1. toPanel' = r \o << << "unregistered", b >> >>
        BY DEF ItemVanished, Reply
    <2>2. << "unregistered", b >> \in Messages
        BY <1>2 DEF Messages, IInv, TypeOK
    <2> QED BY <1>2, <2>1, <2>2, PlusOne
<1>5. app[b] = "gone"
    BY <1>1, <1>2 DEF Told, Minus
<1> HIDE DEF r, b
<1>6. TypeOK'
    BY <1>1, <1>2, <1>3, <1>4, <1>5 DEF IInv, TypeOK
<1>7. Owned' /\ Told' /\ HostComes'
    BY <1>1, <1>2, <1>3, <1>4, <1>5 DEF Owned, Told, HostComes, Plus, Minus
<1>8. OtherComes' /\ PanelComes'
    BY <1>1, <1>2, <1>3, <1>4, <1>5 DEF OtherComes, PanelComes, Plus, Minus
<1>9. EndComes'
    BY <1>1, <1>2, <1>3, <1>4, <1>5 DEF EndComes, Alive, Kept, Plus, Minus
<1> QED BY <1>6, <1>7, <1>8, <1>9 DEF IInv

LEMMA HostKeeps ==
    ASSUME IInv, RegisterHost
    PROVE  IInv'
<1>1. /\ toPanel \in Seq(Messages) /\ pending \in Seq(Apps)
      /\ owner \in {"other", "panel"}
      /\ Owned /\ Told /\ HostComes /\ OtherComes /\ PanelComes /\ EndComes
    BY DEF IInv, TypeOK
<1> DEFINE r == Tail(toPanel)
           b == Item
<1>2. r \in Seq(Messages) /\ Minus(toPanel, r, "host", b)
    BY <1>1, Gotten DEF RegisterHost
<1>3. /\ hostKnown' = TRUE
      /\ UNCHANGED << app, calledOwner, owner, otherItems, opening, watcherItems,
                      listening, pending, tray, removed, late >>
    BY DEF RegisterHost, busVars
<1>4. toPanel' = r
    <2>1. toPanel' = r \o << >>
        BY DEF RegisterHost, Reply
    <2> QED BY <1>2, <2>1, ConcatEmptySeq
<1> HIDE DEF r, b
<1>5. TypeOK'
    BY <1>1, <1>2, <1>3, <1>4 DEF IInv, TypeOK
<1>6. Owned' /\ Told' /\ HostComes'
    BY <1>1, <1>2, <1>3, <1>4 DEF Owned, Told, HostComes, Minus
<1>7. OtherComes' /\ PanelComes'
    BY <1>1, <1>2, <1>3, <1>4 DEF OtherComes, PanelComes, Minus
<1>8. EndComes'
    BY <1>1, <1>2, <1>3, <1>4 DEF EndComes, Alive, Kept, Minus
<1> QED BY <1>5, <1>6, <1>7, <1>8 DEF IInv

LEMMA PropertyKeeps ==
    ASSUME IInv, GetProperty
    PROVE  IInv'
<1>1. /\ toPanel \in Seq(Messages) /\ pending \in Seq(Apps)
      /\ owner \in {"other", "panel"}
      /\ Owned /\ Told /\ HostComes /\ OtherComes /\ PanelComes /\ EndComes
    BY DEF IInv, TypeOK
<1> DEFINE r == Tail(toPanel)
           b == Item
<1>2. r \in Seq(Messages) /\ Minus(toPanel, r, "getall", b)
    BY <1>1, Gotten DEF GetProperty
<1>3. UNCHANGED << app, calledOwner, owner, otherItems, opening, watcherItems, hostKnown,
                   listening, pending, tray, removed, late >>
    BY DEF GetProperty, busVars, panelVars
<1>4. toPanel' \in Seq(Messages) /\ Plus(r, toPanel', "ready", watcherItems)
    <2>1. toPanel' = r \o << << "ready", watcherItems >> >>
        BY DEF GetProperty, Reply
    <2>2. << "ready", watcherItems >> \in Messages
        BY <1>2 DEF Messages, IInv, TypeOK
    <2> QED BY <1>2, <2>1, <2>2, PlusOne
<1> HIDE DEF r, b
<1>5. TypeOK'
    BY <1>1, <1>2, <1>3, <1>4 DEF IInv, TypeOK
<1>6. Owned' /\ Told' /\ HostComes'
    BY <1>1, <1>2, <1>3, <1>4 DEF Owned, Told, HostComes, Plus, Minus
<1>7. OtherComes' /\ PanelComes'
    BY <1>1, <1>2, <1>3, <1>4 DEF OtherComes, PanelComes, Plus, Minus
<1>8. EndComes'
    BY <1>1, <1>2, <1>3, <1>4 DEF EndComes, Alive, Kept, Plus, Minus
<1> QED BY <1>5, <1>6, <1>7, <1>8 DEF IInv

LEMMA OwnerKeeps ==
    ASSUME IInv, OwnerChanged
    PROVE  IInv'
<1>1. /\ toPanel \in Seq(Messages) /\ pending \in Seq(Apps)
      /\ owner \in {"other", "panel"}
      /\ Owned /\ Told /\ HostComes /\ OtherComes /\ PanelComes /\ EndComes
    BY DEF IInv, TypeOK
<1> DEFINE r == Tail(toPanel)
           b == Item
<1>2. r \in Seq(Messages) /\ Minus(toPanel, r, "owner", b)
    BY <1>1, Gotten DEF OwnerChanged
<1>3. /\ listening' = FALSE /\ opening' = (owner = "other")
      /\ tray' = tray \ Apps /\ late' = late \ Apps /\ removed' = removed \cup Apps
      /\ UNCHANGED << app, calledOwner, owner, otherItems, watcherItems, hostKnown,
                      pending >>
    BY DEF OwnerChanged, TrayRemove
<1>4. /\ tray' = {} /\ late' = {} /\ removed' = Apps
      /\ opening' \in BOOLEAN /\ \A a : In(pending', a) => a \in removed'
    <2>1. \A a : In(pending, a) => a \in Apps
        BY <1>1, ElementOfSeq DEF In
    <2> QED BY <1>3, <2>1 DEF IInv, TypeOK
<1>5. /\ toPanel' \in Seq(Messages)
      /\ \/ owner = "other" /\ opening' = TRUE /\ toPanel' = r
         \/ owner = "panel" /\ opening' = FALSE /\ Plus(r, toPanel', "getall", {})
    <2>1. CASE owner = "other"
        <3>1. toPanel' = r \o << >> /\ opening' = TRUE
            BY <1>3, <2>1 DEF OwnerChanged, Reply
        <3> QED BY <1>2, <2>1, <3>1, ConcatEmptySeq
    <2>2. CASE owner = "panel"
        <3>1. toPanel' = r \o << << "getall", {} >> >> /\ opening' = FALSE
            BY <1>3, <2>2 DEF OwnerChanged, Reply
        <3>2. << "getall", {} >> \in Messages
            BY DEF Messages
        <3> QED BY <1>2, <2>2, <3>1, <3>2, PlusOne
    <2> QED BY <1>1, <2>1, <2>2
<1>6. UNCHANGED << app, calledOwner, owner, otherItems, watcherItems, hostKnown,
                   pending >>
    BY <1>3
<1>7. listening' = FALSE
    BY <1>3
<1> HIDE DEF r, b
<1>8. TypeOK'
    BY <1>1, <1>2, <1>4, <1>5, <1>6, <1>7 DEF IInv, TypeOK
<1>9. Owned' /\ Told' /\ HostComes'
    BY <1>1, <1>2, <1>4, <1>5, <1>6, <1>7 DEF Owned, Told, HostComes, Plus, Minus
<1>10. OtherComes' /\ PanelComes'
    BY <1>1, <1>2, <1>4, <1>5, <1>6, <1>7 DEF OtherComes, PanelComes, Owned, Plus, Minus
<1>11. EndComes'
    BY <1>1, <1>2, <1>4, <1>5, <1>6, <1>7 DEF EndComes, Alive, Kept, Owned, Plus, Minus
<1> QED BY <1>8, <1>9, <1>10, <1>11 DEF IInv

LEMMA RegisteredKeeps ==
    ASSUME IInv, ItemRegistered
    PROVE  IInv'
<1>1. /\ toPanel \in Seq(Messages) /\ pending \in Seq(Apps)
      /\ owner \in {"other", "panel"}
      /\ Owned /\ Told /\ HostComes /\ OtherComes /\ PanelComes /\ EndComes
    BY DEF IInv, TypeOK
<1> DEFINE r == Tail(toPanel)
           b == Item
<1>2. r \in Seq(Messages) /\ Minus(toPanel, r, "registered", b) /\ b \in Apps
    BY <1>1, Gotten DEF ItemRegistered
<1>3. UNCHANGED << app, calledOwner, owner, otherItems, opening, watcherItems, hostKnown,
                   listening, tray, late >>
    BY DEF ItemRegistered, busVars
<1>4. toPanel' = r
    <2>1. toPanel' = r \o << >>
        BY DEF ItemRegistered, Reply
    <2> QED BY <1>2, <2>1, ConcatEmptySeq
<1>5. \/ ~listening /\ UNCHANGED << pending, removed >>
      \/ /\ listening /\ removed' = removed \ {b} /\ pending' \in Seq(Apps)
         /\ \A a : In(pending', a) <=> In(pending, a) \/ (a = b /\ ~(a \in tray))
    <2>1. CASE listening
        <3>1. {b} \in SUBSET Apps /\ Enqueue({b}) /\ removed' = removed \ {b}
            BY <1>2, <2>1 DEF ItemRegistered
        <3> HIDE DEF b
        <3>2. /\ pending' \in Seq(Apps)
              /\ \A a : In(pending', a) <=>
                           In(pending, a) \/ (a \in {b} /\ ~(a \in tray))
            BY <1>1, <3>1, Enqueued
        <3> QED BY <2>1, <3>1, <3>2
    <2>2. CASE ~listening
        BY <2>2 DEF ItemRegistered
    <2> QED BY <2>1, <2>2
<1> HIDE DEF r, b
<1>6. TypeOK'
    BY <1>1, <1>2, <1>3, <1>4, <1>5 DEF IInv, TypeOK
<1>7. Owned' /\ Told' /\ HostComes'
    BY <1>1, <1>2, <1>3, <1>4, <1>5 DEF Owned, Told, HostComes, Minus
<1>8. OtherComes' /\ PanelComes'
    BY <1>1, <1>2, <1>3, <1>4, <1>5 DEF OtherComes, PanelComes, Minus
<1>9. EndComes'
    BY <1>1, <1>2, <1>3, <1>4, <1>5 DEF EndComes, Alive, Kept, Minus
<1> QED BY <1>6, <1>7, <1>8, <1>9 DEF IInv

LEMMA UnregisteredKeeps ==
    ASSUME IInv, ItemUnregistered
    PROVE  IInv'
<1>1. /\ toPanel \in Seq(Messages) /\ pending \in Seq(Apps)
      /\ owner \in {"other", "panel"}
      /\ Owned /\ Told /\ HostComes /\ OtherComes /\ PanelComes /\ EndComes
    BY DEF IInv, TypeOK
<1> DEFINE r == Tail(toPanel)
           b == Item
<1>2. r \in Seq(Messages) /\ Minus(toPanel, r, "unregistered", b) /\ b \in Apps
    BY <1>1, Gotten DEF ItemUnregistered
<1>3. /\ UNCHANGED << app, calledOwner, owner, otherItems, opening, watcherItems,
                      hostKnown, listening, pending >>
      /\ \/ ~listening /\ UNCHANGED << tray, removed, late >>
         \/ /\ listening /\ tray' = tray \ {b}
            /\ late' = late \ {b} /\ removed' = removed \cup {b}
    BY DEF ItemUnregistered, TrayRemove, busVars
<1>4. toPanel' = r
    <2>1. toPanel' = r \o << >>
        BY DEF ItemUnregistered, Reply
    <2> QED BY <1>2, <2>1, ConcatEmptySeq
<1>5. app[b] = "gone"
    BY <1>1, <1>2 DEF Told, Minus
<1> HIDE DEF r, b
<1>6. TypeOK'
    BY <1>1, <1>2, <1>3, <1>4, <1>5 DEF IInv, TypeOK
<1>7. Owned' /\ Told' /\ HostComes'
    BY <1>1, <1>2, <1>3, <1>4, <1>5 DEF Owned, Told, HostComes, Minus
<1>8. OtherComes' /\ PanelComes'
    BY <1>1, <1>2, <1>3, <1>4, <1>5 DEF OtherComes, PanelComes, Minus
<1>9. EndComes'
    BY <1>1, <1>2, <1>3, <1>4, <1>5 DEF EndComes, Alive, Kept, Minus
<1> QED BY <1>6, <1>7, <1>8, <1>9 DEF IInv

LEMMA PendingKeeps ==
    ASSUME IInv, ProcessPending
    PROVE  IInv'
<1>1. /\ toPanel \in Seq(Messages) /\ pending \in Seq(Apps)
      /\ owner \in {"other", "panel"}
      /\ Owned /\ Told /\ HostComes /\ OtherComes /\ PanelComes /\ EndComes
    BY DEF IInv, TypeOK
<1> DEFINE b == Head(pending)
<1>2. /\ pending' \in Seq(Apps) /\ b \in Apps
      /\ \A a : In(pending, a) <=> a = b \/ In(pending', a)
    BY <1>1, Dequeued DEF ProcessPending
<1>3. /\ tray' = tray \cup {b} /\ late' = late \cup ({b} \cap removed)
      /\ UNCHANGED << app, calledOwner, owner, otherItems, opening, toPanel,
                      watcherItems, hostKnown, listening, removed >>
    BY DEF ProcessPending, busVars
<1> HIDE DEF b
<1>4. TypeOK'
    BY <1>1, <1>2, <1>3 DEF IInv, TypeOK
<1>5. Owned' /\ Told' /\ HostComes'
    BY <1>1, <1>2, <1>3 DEF Owned, Told, HostComes
<1>6. OtherComes' /\ PanelComes'
    BY <1>1, <1>2, <1>3 DEF OtherComes, PanelComes
<1>7. EndComes'
    BY <1>1, <1>2, <1>3 DEF EndComes, Alive, Kept
<1> QED BY <1>4, <1>5, <1>6, <1>7 DEF IInv

-----------------------------------------------------------------------------
(* The theorems.                                                           *)

LEMMA StepKeeps == IInv /\ [Next]_vars => IInv'
<1> SUFFICES ASSUME IInv, [Next]_vars PROVE IInv'
    OBVIOUS
<1>1. ASSUME NEW a \in Apps, App(a) PROVE IInv'
    <2>1. CASE AppRegisters(a)
        <3>1. owner \in {"other", "panel"}
            BY DEF IInv, TypeOK
        <3> QED BY <2>1, <3>1, RegistersOther, RegistersPanel
    <2> QED BY <1>1, <2>1, StartsKeep, StopsKeep, NoticesKeep DEF App
<1>2. CASE Receive
    BY <1>2, RegistersKeep, VanishedKeeps, HostKeeps, PropertyKeeps, OwnerKeeps,
       ReadyKeeps, RegisteredKeeps, UnregisteredKeeps DEF Receive
<1>3. CASE UNCHANGED vars
    <2>1. UNCHANGED << app, calledOwner, owner, otherItems, opening, toPanel,
                       watcherItems, hostKnown, listening, pending, tray,
                       removed, late >>
        BY <1>3 DEF vars, busVars, panelVars
    <2>2. TypeOK'
        BY <2>1 DEF IInv, TypeOK
    <2>3. Owned' /\ Told' /\ HostComes' /\ OtherComes' /\ PanelComes' /\ EndComes'
        BY <2>1 DEF IInv, Owned, Told, HostComes, OtherComes, PanelComes, EndComes,
                    Alive, Kept
    <2> QED BY <2>2, <2>3 DEF IInv
<1> QED BY <1>1, <1>2, <1>3, AnswersKeep, DiesKeeps, PendingKeeps DEF Next

LEMMA InitHolds == Init => IInv
<1> SUFFICES ASSUME Init PROVE IInv
    OBVIOUS
<1> DEFINE x == << "owner", {} >>
<1>1. toPanel = << x >> /\ x \in Messages
    BY DEF Init, Messages
<1>2. One(toPanel, x) /\ x[1] = "owner"
    BY <1>1, OneSingle
<1>3. toPanel \in Seq(Messages)
    <2> HIDE DEF x
    <2> QED BY <1>1
<1>4. \A a : ~In(pending, a)
    BY DEF Init, In
<1>5. /\ app \in [Apps -> {"new", "up"}] /\ owner \in {"other", "panel"}
      /\ calledOwner \in [Apps -> {"none", "other", "panel"}]
      /\ \A a \in Apps : calledOwner[a] =
             IF owner = "other" /\ app[a] = "up" THEN "other" ELSE "none"
      /\ otherItems = {a \in Apps : calledOwner[a] = "other"}
      /\ opening = FALSE /\ watcherItems = {} /\ hostKnown = FALSE
      /\ listening = FALSE /\ tray = {} /\ removed = {} /\ late = {}
    BY DEF Init
<1>6. TypeOK
    <2>1. pending \in Seq(Apps)
        BY DEF Init
    <2>2. app \in [Apps -> {"new", "up", "gone"}]
        BY <1>5
    <2> QED BY <1>3, <1>5, <2>1, <2>2 DEF TypeOK
<1>7. /\ \A k : Has(toPanel, k) <=> k = "owner"
      /\ \A k, a : HasOf(toPanel, k, a) => k = "owner"
      /\ \A a : EndsAfter(toPanel, a)
    BY <1>2 DEF One, Is, Lists, Brings
<1>8. Owned /\ Told /\ HostComes
    BY <1>5, <1>7 DEF Owned, Told, HostComes
<1>9. OtherComes /\ PanelComes
    BY <1>5, <1>7 DEF OtherComes, PanelComes
<1>10. EndComes
    BY <1>4, <1>5, <1>7 DEF EndComes, Alive, Kept
<1> QED BY <1>6, <1>8, <1>9, <1>10 DEF IInv

LEMMA Inductive == Spec => []IInv
    BY InitHolds, StepKeeps, PTL DEF Spec

(* Types: of the messages on the bus, of the queue, of the tray.           *)
THEOREM TypeCorrect == Spec => []TypeOK
<1>1. IInv => TypeOK
    BY DEF IInv
<1> QED BY <1>1, Inductive, PTL

(* When everything sent has been handled the tray shows the registered     *)
(* items and the watcher knows the panel, whoever owns the watcher's name  *)
(* and whenever that changed (sni_backend.c); an item of an application    *)
(* that is gone is shown only if it was queued when its removal was        *)
(* handled.                                                                *)
THEOREM TrayCatchesUp == Spec => []TrayAgrees
<1>1. IInv => TrayAgrees
    <2> SUFFICES ASSUME IInv, Quiet PROVE TrayAgrees
        BY DEF TrayAgrees
    <2>1. Nothing(toPanel) /\ ~opening /\ (\A a \in otherItems : app[a] = "up")
        BY NothingEmpty DEF Quiet
    <2>2. \A a : ~In(pending, a)
        BY DEF Quiet, In
    <2>3. \A a : ~HeardLater(toPanel, a)
        BY DEF Quiet, HeardLater
    <2>4. hostKnown
        BY <2>1 DEF IInv, HostComes, Nothing
    <2>5. ASSUME NEW a \in Apps, Registered(a) PROVE a \in tray
        <3>1. CASE owner = "other"
            BY <2>1, <2>2, <2>3, <2>5, <3>1
               DEF Registered, IInv, OtherComes, Nothing
        <3>2. CASE owner = "panel"
            BY <2>1, <2>2, <2>5, <3>2 DEF Registered, IInv, PanelComes, Nothing
        <3> QED BY <3>1, <3>2 DEF IInv, TypeOK
    <2>6. ASSUME NEW a \in tray, ~(a \in late) PROVE app[a] = "up"
        <3>1. a \in Apps /\ app[a] \in {"new", "up", "gone"}
            BY DEF IInv, TypeOK
        <3>2. a \in otherItems \/ a \in watcherItems
            BY <2>1, <2>6, <3>1 DEF IInv, EndComes, Alive, Kept, Nothing
        <3>3. a \in watcherItems => app[a] # "gone" /\ app[a] # "new"
            BY <2>1, <3>1 DEF IInv, EndComes, Told, Nothing
        <3> QED BY <2>1, <3>1, <3>2, <3>3
    <2> QED BY <2>4, <2>5, <2>6 DEF TrayAgrees
<1> QED BY <1>1, Inductive, PTL
=============================================================================
