--------------------------- MODULE LockSeat_proofs ---------------------------
(***************************************************************************)
(* Theorems about LockSeat for any number of outputs, any scale factors    *)
(* and sizes, any keys and any number of failed allocations: types, a      *)
(* commit that fits, a repeat that is held, updates that stay.             *)
(***************************************************************************)
EXTENDS LockSeat, TLAPS

-----------------------------------------------------------------------------
(* The inductive invariant.                                                *)

(* A clean surface fits, and the locker's note of the last buffer is of    *)
(* the one that is attached.                                               *)
Fits(s) ==
    /\ s.last = s.attached
    /\ ~s.dirty /\ s.width # 0 /\ s.atScale # 0
           => s.attached = s.width * s.atScale

IInv ==
    /\ TypeOK
    /\ \A o \in Outputs : Fits(surf[o])
    /\ RepeatIsHeld

Good(s) == s \in Surface /\ Fits(s)

(* What no step does to a surface that has a buffer left, unless there is  *)
(* no memory or no main loop yet: lose what it had to draw.                *)
Drops(s, t) == ShownOrDue(s) /\ ~ShownOrDue(t) /\ s.busy # Slots

(* What is drawn now need only be marked before.                           *)
Marked(s) == BufferSize(s) # 0 /\ s.stale => s.dirty

-----------------------------------------------------------------------------
(* Render.                                                                 *)

LEMMA NextBufferFree ==
    ASSUME NEW s \in Surface, NEW room \in Nat
    PROVE  /\ NextBuffer(s, room) \in {0, 1, 2}
           /\ NextBuffer(s, room) # 0
                  => NextBuffer(s, room) \in Slots \ s.busy
           /\ Preferred(FreeBuffers(s)) \in Slots
    BY DEF NextBuffer, FreeBuffers, Preferred, Slots, Surface

(* render_frame changes the two buffers and what is shown, nothing else.   *)
SameBut(s, t) ==
    /\ t.stage = s.stage /\ t.created = s.created /\ t.scale = s.scale
    /\ t.width = s.width /\ t.dirty = s.dirty /\ t.frame = s.frame
    /\ t.last = s.last /\ t.attached = s.attached /\ t.atScale = s.atScale
    /\ t.early = s.early

LEMMA RenderFrameDraws ==
    ASSUME NEW s \in Surface, NEW room \in Nat
    PROVE  LET t == RenderFrame(s, room)
           IN  /\ t \in Surface /\ SameBut(s, t)
               /\ t.stale => s.stale
               /\ room > 0 /\ s.busy # Slots => ~t.stale
<1> DEFINE i == NextBuffer(s, room)
           j == Preferred(FreeBuffers(s))
<1>1. i \in {0, 1, 2} /\ (i # 0 => i \in Slots \ s.busy) /\ j \in Slots
    BY NextBufferFree
<1>2. s.scale \in Nat /\ s.made \in [Slots -> Nat]
    BY DEF Surface
<1>3. CASE i # 0
    <2> DEFINE m == [s.made EXCEPT ![i] = s.scale]
               t == [s EXCEPT !.made = m, !.busy = @ \cup {i},
                              !.stale = FALSE]
    <2>1. RenderFrame(s, room) = t
        BY <1>3 DEF RenderFrame
    <2>2. m \in [Slots -> Nat]
        BY <1>1, <1>2, <1>3
    <2> HIDE DEF m, i, j
    <2>3. t \in Surface /\ SameBut(s, t)
        BY <1>1, <1>3, <2>2 DEF Surface, SameBut
    <2>4. ~t.stale
        BY DEF Surface
    <2> QED BY <2>1, <2>3, <2>4
<1>4. CASE i = 0 /\ FreeBuffers(s) # {}
    <2> DEFINE m == [s.made EXCEPT ![j] = 0]
               t == [s EXCEPT !.made = m]
    <2>1. RenderFrame(s, room) = t
        BY <1>4 DEF RenderFrame
    <2>2. m \in [Slots -> Nat]
        BY <1>1, <1>2
    <2> HIDE DEF m, i, j
    <2>3. t \in Surface /\ SameBut(s, t)
        BY <2>2 DEF Surface, SameBut
    <2>4. t.stale = s.stale
        BY <2>2 DEF Surface
    <2>5. room = 0
        BY <1>4 DEF NextBuffer, Preferred, i
    <2> QED BY <2>1, <2>3, <2>4, <2>5
<1>5. CASE i = 0 /\ FreeBuffers(s) = {}
    <2>1. RenderFrame(s, room) = s
        BY <1>5 DEF RenderFrame
    <2>2. s.busy = Slots
        BY <1>5 DEF FreeBuffers, Surface
    <2> QED BY <2>1, <2>2 DEF SameBut
<1> QED BY <1>3, <1>4, <1>5

LEMMA SizeNat ==
    ASSUME NEW s \in Surface
    PROVE  BufferSize(s) \in Nat
<1>1. s.width \in Nat /\ s.scale \in Nat
    BY DEF Surface
<1> QED BY <1>1 DEF BufferSize

(* render leaves a surface that fits: it is clean only with a buffer of    *)
(* its size.  With memory and a buffer left it draws what is marked, or    *)
(* leaves it to the frame callback.                                        *)
LEMMA RenderFits ==
    ASSUME NEW s \in Surface, NEW room \in Nat, Good(s)
    PROVE  /\ Good(Render(s, room))
           /\ Marked(s) /\ room > 1 /\ s.busy # Slots => ShownOrDue(Render(s, room))
<1> DEFINE z == BufferSize(s)
<1>1. z \in Nat
    BY SizeNat
<1>2. CASE MustWait(s)
    <2>1. Render(s, room) = s
        BY <1>2 DEF Render
    <2>2. Marked(s) => ShownOrDue(s)
        BY <1>2 DEF MustWait, Marked, ShownOrDue
    <2> QED BY <2>1, <2>2
<1>3. CASE ~MustWait(s) /\ NewParent(s) /\ room = 0
    <2>1. Render(s, room) = s
        BY <1>3 DEF Render
    <2> QED BY <1>3, <2>1
<1>4. CASE ~MustWait(s) /\ ~(NewParent(s) /\ room = 0)
    <2> DEFINE grown == IF NewParent(s)
                        THEN [s EXCEPT !.last = z, !.attached = z]
                        ELSE s
               left  == IF NewParent(s) THEN room - 1 ELSE room
               drawn == RenderFrame(grown, left)
               t     == [drawn EXCEPT !.dirty = FALSE, !.frame = TRUE,
                                      !.atScale = s.scale]
    <2>1. Render(s, room) = t
        BY <1>4 DEF Render
    <2>2. left \in Nat /\ (room > 1 => left > 0)
        BY <1>4
    <2>3. /\ grown \in Surface /\ grown.last = z /\ grown.attached = z
          /\ grown.width = s.width /\ grown.scale = s.scale
          /\ grown.busy = s.busy
        <3> HIDE DEF z
        <3>1. CASE NewParent(s)
            <4> DEFINE g == [s EXCEPT !.last = z, !.attached = z]
            <4>1. grown = g
                BY <3>1
            <4>2. g \in Surface /\ g.last = z /\ g.attached = z
                BY <1>1 DEF Surface
            <4>3. /\ g.width = s.width /\ g.scale = s.scale
                  /\ g.busy = s.busy
                BY <1>1 DEF Surface
            <4> HIDE DEF g, grown
            <4> QED BY <4>1, <4>2, <4>3
        <3>2. CASE ~NewParent(s)
            <4>1. grown = s /\ s.last = z /\ s.attached = z
                BY <3>2 DEF NewParent, Good, Fits, z
            <4> HIDE DEF grown
            <4> QED BY <4>1
        <3> QED BY <3>1, <3>2
    <2> HIDE DEF grown, left, z
    <2>4. /\ drawn \in Surface /\ SameBut(grown, drawn)
          /\ left > 0 /\ grown.busy # Slots => ~drawn.stale
        BY <2>2, <2>3, RenderFrameDraws
    <2> HIDE DEF drawn
    <2>5. /\ t \in Surface /\ t.last = drawn.last
          /\ t.attached = drawn.attached /\ t.width = drawn.width
          /\ t.atScale = s.scale /\ t.stale = drawn.stale
        BY <2>4 DEF Surface
    <2> HIDE DEF t
    <2>6. t.last = z /\ t.attached = z /\ t.width = s.width
        BY <2>3, <2>4, <2>5 DEF SameBut
    <2>7. z = t.width * t.atScale
        BY <2>5, <2>6 DEF z, BufferSize
    <2>8. Fits(t)
        BY <2>6, <2>7 DEF Fits
    <2>9. room > 1 /\ s.busy # Slots => ShownOrDue(t)
        BY <2>2, <2>3, <2>4, <2>5 DEF ShownOrDue
    <2> QED BY <2>1, <2>5, <2>8, <2>9 DEF Good
<1> QED BY <1>2, <1>3, <1>4

LEMMA DamagedFits ==
    ASSUME NEW s \in Surface, NEW room \in Nat, Good(s)
    PROVE  /\ Good(Damaged(s, room))
           /\ room > 1 /\ s.busy # Slots => ShownOrDue(Damaged(s, room))
<1> DEFINE d == [s EXCEPT !.dirty = TRUE, !.stale = TRUE]
<1>1. /\ d \in Surface /\ d.dirty = TRUE
      /\ d.last = s.last /\ d.attached = s.attached /\ d.busy = s.busy
    BY DEF Surface
<1>2. Good(d) /\ Marked(d)
    BY <1>1 DEF Good, Fits, Marked
<1>3. Damaged(s, room) = Render(d, room)
    BY DEF Damaged
<1> HIDE DEF d
<1> QED BY <1>1, <1>2, <1>3, RenderFits

-----------------------------------------------------------------------------
(* Steps of the surfaces.                                                  *)

AllGood == surf \in [Outputs -> Surface] /\ \A o \in Outputs : Good(surf[o])

(* Memory ran out, or a scale came before the main loop.                   *)
Short == failures' # failures
TooSoon(o, t) == ~Running /\ t.scale # surf[o].scale

NoneDrops ==
    \A o \in Outputs :
        Drops(surf[o], surf'[o]) => Short \/ TooSoon(o, surf'[o])

Counted == failures \in Nat

(* With memory for everyone, or short of it.                               *)
LEMMA RoomEnough ==
    ASSUME Counted, NEW room \in Rooms, Room(room), NEW o \in Outputs
    PROVE  room[o] \in Nat /\ (Short \/ room[o] > 1)
<1>1. CASE room = [p \in Outputs |-> 2]
    BY <1>1
<1>2. CASE failures' = failures + 1
    BY <1>2 DEF Short, Counted, Rooms
<1> QED BY <1>1, <1>2 DEF Room

(* An event that changes one surface.                                      *)
LEMMA PutGood ==
    ASSUME AllGood, NEW o \in Outputs, NEW t, Good(t), Put(o, t),
           Drops(surf[o], t) => Short \/ TooSoon(o, t)
    PROVE  AllGood' /\ NoneDrops
<1>1. t \in Surface
    BY DEF Good
<1>2. surf' = [surf EXCEPT ![o] = t]
    BY DEF Put
<1>3. surf' \in [Outputs -> Surface] /\ surf'[o] = t
    BY <1>1, <1>2 DEF AllGood
<1>4. \A p \in Outputs : p # o => surf'[p] = surf[p]
    BY <1>2 DEF AllGood
<1>5. \A p \in Outputs : Good(surf'[p])
    BY <1>3, <1>4 DEF AllGood
<1>6. \A p \in Outputs : p # o => ~Drops(surf[p], surf'[p])
    BY <1>4 DEF Drops
<1> QED BY <1>3, <1>5, <1>6 DEF AllGood, NoneDrops

LEMMA SameGood == ASSUME AllGood, UNCHANGED surf PROVE AllGood' /\ NoneDrops
    BY DEF AllGood, NoneDrops, Drops

LEMMA NewGood ==
    ASSUME NEW stage \in {"absent", "bound"}
    PROVE  Good(NewSurface(stage)) /\ ShownOrDue(NewSurface(stage))
<1> DEFINE n == NewSurface(stage)
<1>1. [i \in Slots |-> 0] \in [Slots -> Nat]
    OBVIOUS
<1>2. n \in Surface
    BY <1>1 DEF NewSurface, Surface
<1>3. n.last = 0 /\ n.attached = 0 /\ n.width = 0 /\ n.scale = 0
    BY DEF NewSurface
<1> HIDE DEF n
<1>4. Good(n) /\ ShownOrDue(n)
    BY <1>2, <1>3 DEF Good, Fits, ShownOrDue, BufferSize
<1> QED BY <1>4 DEF n

LEMMA DamageGood ==
    ASSUME AllGood, Counted, NEW room \in Rooms, DamageState(room)
    PROVE  AllGood' /\ NoneDrops
<1>1. Room(room) /\ surf' = [o \in Outputs |->
                  IF o \in Known THEN Damaged(surf[o], room[o]) ELSE surf[o]]
    BY DEF DamageState
<1>2. \A o \in Outputs : Good(surf'[o]) /\ (Drops(surf[o], surf'[o]) => Short)
    <2> TAKE o \in Outputs
    <2>1. /\ surf[o] \in Surface /\ Good(surf[o])
          /\ room[o] \in Nat /\ (Short \/ room[o] > 1)
        BY <1>1, RoomEnough DEF AllGood
    <2>2. CASE o \in Known
        <3>1. surf'[o] = Damaged(surf[o], room[o])
            BY <1>1, <2>2
        <3> QED BY <2>1, <3>1, DamagedFits DEF Drops
    <2>3. CASE ~(o \in Known)
        BY <1>1, <2>1, <2>3 DEF Drops
    <2> QED BY <2>2, <2>3
<1>3. surf' \in [Outputs -> Surface]
    <2>1. \A o \in Outputs : surf'[o] \in Surface
        BY <1>2 DEF Good
    <2> QED BY <1>1, <2>1
<1> QED BY <1>2, <1>3 DEF AllGood, NoneDrops

LEMMA OutputGood ==
    ASSUME AllGood, Counted, NEW o \in Outputs, OutputEvent(o)
    PROVE  AllGood' /\ NoneDrops
<1> DEFINE s == surf[o]
<1>1. s \in Surface /\ Good(s)
    BY DEF AllGood
<1>2. CASE OutputAdded(o)
    <2>1. Put(o, NewSurface("bound"))
        BY <1>2 DEF OutputAdded
    <2> QED BY <2>1, NewGood, PutGood DEF Drops
<1>3. CASE OutputRemoved(o)
    <2>1. Put(o, NewSurface("absent"))
        BY <1>3 DEF OutputRemoved, Absent
    <2> QED BY <2>1, NewGood, PutGood DEF Drops
<1>4. CASE OutputDone(o)
    <2> DEFINE c == s.created \/ Running
               e == phase = "waiting" /\ ~s.created
               t == [s EXCEPT !.stage = "done", !.created = c, !.early = e]
    <2>1. Put(o, t)
        BY <1>4 DEF OutputDone
    <2>2. c \in BOOLEAN /\ e \in BOOLEAN
        BY <1>1 DEF Surface
    <2> HIDE DEF c, e, s
    <2>3. /\ t \in Surface /\ t.last = s.last /\ t.attached = s.attached
          /\ t.dirty = s.dirty /\ t.width = s.width /\ t.atScale = s.atScale
          /\ t.scale = s.scale /\ t.frame = s.frame /\ t.stale = s.stale
        BY <1>1, <2>2 DEF Surface
    <2> HIDE DEF t
    <2>4. Good(t) /\ ~Drops(s, t)
        BY <1>1, <2>3 DEF Good, Fits, Drops, ShownOrDue, BufferSize
    <2> QED BY <2>1, <2>4, PutGood DEF s
<1>5. CASE \E room \in Rooms : OutputGeometry(o, room)
    <2>1. PICK room \in Rooms : OutputGeometry(o, room)
        BY <1>5
    <2>2. Room(room) /\ Put(o, Damaged(s, room[o]))
        BY <2>1 DEF OutputGeometry
    <2>3. room[o] \in Nat /\ (Short \/ room[o] > 1)
        BY <2>2, RoomEnough
    <2>4. /\ Good(Damaged(s, room[o]))
          /\ Drops(s, Damaged(s, room[o])) => Short
        BY <1>1, <2>3, DamagedFits DEF Drops
    <2> QED BY <2>2, <2>4, PutGood
<1>6. CASE \E room \in Rooms, factor \in Scales[o] : OutputScale(o, factor, room)
    <2>1. PICK room \in Rooms, factor \in Scales[o] : OutputScale(o, factor, room)
        BY <1>6
    <2> DEFINE g == IF s.stage = "bound" THEN "scaled" ELSE s.stage
               t == [s EXCEPT !.scale = factor, !.stage = g, !.stale = TRUE]
    <2>2. /\ factor # s.scale
          /\ \/ Room(room) /\ Put(o, Damaged(t, room[o]))
             \/ ~Running /\ Put(o, t)
        BY <2>1 DEF OutputScale
    <2>3. factor \in Nat
        BY SizeAssumption
    <2>4. g \in {"absent", "bound", "scaled", "done"}
        BY <1>1 DEF Surface
    <2> HIDE DEF g, s
    <2>5. /\ t \in Surface /\ t.last = s.last /\ t.attached = s.attached
          /\ t.dirty = s.dirty /\ t.width = s.width /\ t.atScale = s.atScale
          /\ t.scale = factor /\ t.busy = s.busy
        BY <1>1, <2>3, <2>4 DEF Surface
    <2> HIDE DEF t
    <2>6. Good(t)
        BY <1>1, <2>5 DEF Good, Fits
    <2>7. CASE ~Running /\ Put(o, t)
        <3>1. TooSoon(o, t)
            BY <2>2, <2>5, <2>7 DEF TooSoon, s
        <3> QED BY <2>6, <2>7, <3>1, PutGood
    <2>8. CASE Room(room) /\ Put(o, Damaged(t, room[o]))
        <3>1. room[o] \in Nat /\ (Short \/ room[o] > 1)
            BY <2>8, RoomEnough
        <3>2. /\ Good(Damaged(t, room[o]))
              /\ Drops(s, Damaged(t, room[o])) => Short
            BY <2>5, <2>6, <3>1, DamagedFits DEF Drops
        <3> QED BY <2>8, <3>2, PutGood DEF s
    <2> QED BY <2>2, <2>7, <2>8
<1> QED BY <1>2, <1>3, <1>4, <1>5, <1>6 DEF OutputEvent

LEMMA SurfaceGood ==
    ASSUME AllGood, Counted, NEW o \in Outputs, SurfaceEvent(o)
    PROVE  AllGood' /\ NoneDrops
<1> DEFINE s == surf[o]
<1>1. s \in Surface /\ Good(s)
    BY DEF AllGood
<1>2. CASE \E room \in Rooms, width \in Widths[o] : Configure(o, width, room)
    <2>1. PICK room \in Rooms, width \in Widths[o] : Configure(o, width, room)
        BY <1>2
    <2> DEFINE d == [s EXCEPT !.width = width, !.dirty = TRUE, !.stale = TRUE]
               t == [s EXCEPT !.width = width]
    <2>2. Room(room) /\ Put(o, Damaged(t, room[o]))
        BY <2>1 DEF Configure
    <2>3. width \in Nat
        BY SizeAssumption
    <2> HIDE DEF s
    <2>4. [t EXCEPT !.dirty = TRUE, !.stale = TRUE] = d
        BY <1>1, <2>3 DEF Surface
    <2>5. /\ d \in Surface /\ d.last = s.last /\ d.attached = s.attached
          /\ d.dirty = TRUE /\ d.busy = s.busy
        BY <1>1, <2>3 DEF Surface
    <2>6. Damaged(t, room[o]) = Render(d, room[o])
        BY <2>4 DEF Damaged
    <2> HIDE DEF d, t
    <2>7. Good(d) /\ Marked(d)
        BY <1>1, <2>5 DEF Good, Fits, Marked
    <2>8. room[o] \in Nat /\ (Short \/ room[o] > 1)
        BY <2>2, RoomEnough
    <2>9. /\ Good(Render(d, room[o]))
          /\ Drops(s, Render(d, room[o])) => Short
        BY <2>5, <2>7, <2>8, RenderFits DEF Drops
    <2> QED BY <2>2, <2>6, <2>9, PutGood DEF s
<1>3. CASE \E room \in Rooms : FrameDone(o, room)
    <2>1. PICK room \in Rooms : FrameDone(o, room)
        BY <1>3
    <2> DEFINE t == [s EXCEPT !.frame = FALSE]
    <2>2. Room(room) /\ Put(o, Render(t, room[o]))
        BY <2>1 DEF FrameDone
    <2> HIDE DEF s
    <2>3. /\ t \in Surface /\ t.last = s.last /\ t.attached = s.attached
          /\ t.dirty = s.dirty /\ t.width = s.width /\ t.atScale = s.atScale
          /\ t.scale = s.scale /\ t.busy = s.busy /\ t.stale = s.stale
        BY <1>1 DEF Surface
    <2> HIDE DEF t
    <2>4. Good(t) /\ (ShownOrDue(s) => Marked(t))
        BY <1>1, <2>3 DEF Good, Fits, ShownOrDue, Marked, BufferSize
    <2>5. room[o] \in Nat /\ (Short \/ room[o] > 1)
        BY <2>2, RoomEnough
    <2>6. /\ Good(Render(t, room[o]))
          /\ Drops(s, Render(t, room[o])) => Short
        BY <2>3, <2>4, <2>5, RenderFits DEF Drops
    <2> QED BY <2>2, <2>6, PutGood DEF s
<1>4. CASE \E i \in Slots : BufferRelease(o, i)
    <2>1. PICK i \in Slots : BufferRelease(o, i)
        BY <1>4
    <2> DEFINE t == [s EXCEPT !.busy = @ \ {i}]
    <2>2. Put(o, t)
        BY <2>1 DEF BufferRelease
    <2> HIDE DEF s
    <2>3. /\ t \in Surface /\ t.last = s.last /\ t.attached = s.attached
          /\ t.dirty = s.dirty /\ t.width = s.width /\ t.atScale = s.atScale
          /\ t.scale = s.scale /\ t.frame = s.frame /\ t.stale = s.stale
        BY <1>1 DEF Surface
    <2> HIDE DEF t
    <2>4. Good(t) /\ ~Drops(s, t)
        BY <1>1, <2>3 DEF Good, Fits, Drops, ShownOrDue, BufferSize
    <2> QED BY <2>2, <2>4, PutGood DEF s
<1> QED BY <1>2, <1>3, <1>4 DEF SurfaceEvent

LEMMA CreateGood == ASSUME AllGood, CreateSurfaces PROVE AllGood' /\ NoneDrops
<1>1. surf' = [o \in Outputs |->
                  IF o \in Known THEN [surf[o] EXCEPT !.created = TRUE]
                                 ELSE surf[o]]
    BY DEF CreateSurfaces
<1>2. \A o \in Outputs : Good(surf'[o]) /\ ~Drops(surf[o], surf'[o])
    <2> TAKE o \in Outputs
    <2> DEFINE s == surf[o]
               t == [s EXCEPT !.created = TRUE]
    <2>1. s \in Surface /\ Good(s)
        BY DEF AllGood
    <2>2. surf'[o] = t \/ surf'[o] = s
        BY <1>1
    <2> HIDE DEF s
    <2>3. /\ t \in Surface /\ t.last = s.last /\ t.attached = s.attached
          /\ t.dirty = s.dirty /\ t.width = s.width /\ t.atScale = s.atScale
          /\ t.scale = s.scale /\ t.frame = s.frame /\ t.stale = s.stale
        BY <2>1 DEF Surface
    <2> HIDE DEF t
    <2>4. Good(t) /\ ~Drops(s, t)
        BY <2>1, <2>3 DEF Good, Fits, Drops, ShownOrDue, BufferSize
    <2>5. Good(s) /\ ~Drops(s, s)
        BY <2>1 DEF Drops
    <2> QED BY <2>2, <2>4, <2>5 DEF s
<1>3. surf' \in [Outputs -> Surface]
    <2>1. \A o \in Outputs : surf'[o] \in Surface
        BY <1>2 DEF Good
    <2> QED BY <1>1, <2>1
<1> QED BY <1>2, <1>3 DEF AllGood, NoneDrops

LEMMA LeaveGood == ASSUME AllGood, Leave PROVE AllGood' /\ NoneDrops
<1>1. surf' = [o \in Outputs |-> NewSurface("absent")]
    BY DEF Leave, Absent
<1>2. Good(NewSurface("absent")) /\ ShownOrDue(NewSurface("absent"))
    BY NewGood
<1>3. NewSurface("absent") \in Surface
    BY <1>2 DEF Good
<1> QED BY <1>1, <1>2, <1>3 DEF AllGood, NoneDrops, Drops

LEMMA StepGood == ASSUME AllGood, Counted, [Next]_vars PROVE AllGood' /\ NoneDrops
<1>1. CASE SurfaceNext
    <2>1. ASSUME NEW o \in Outputs, OutputEvent(o) PROVE AllGood' /\ NoneDrops
        BY <2>1, OutputGood
    <2>2. ASSUME NEW o \in Outputs, SurfaceEvent(o) PROVE AllGood' /\ NoneDrops
        BY <2>2, SurfaceGood
    <2>3. CASE Locked
        BY <2>3, SameGood DEF Locked
    <2>4. ASSUME NEW room \in Rooms, Tick(room) PROVE AllGood' /\ NoneDrops
        BY <2>4, DamageGood DEF Tick
    <2> QED BY <1>1, <2>1, <2>2, <2>3, <2>4, CreateGood, LeaveGood
            DEF SurfaceNext
<1>2. CASE SeatNext
    <2>1. ASSUME NEW k \in Keys, NEW room \in Rooms, KeyPress(k, room)
          PROVE  AllGood' /\ NoneDrops
        BY <2>1, DamageGood, SameGood DEF KeyPress
    <2>2. ASSUME NEW room \in Rooms, KeyRepeat(room)
          PROVE  AllGood' /\ NoneDrops
        BY <2>2, DamageGood DEF KeyRepeat
    <2>3. CASE KeyRelease
        BY <2>3, SameGood DEF KeyRelease, surfaceVars
    <2>4. ASSUME NEW o \in Outputs \cup {None}, FocusMoves(o)
          PROVE  AllGood' /\ NoneDrops
        BY <2>4, SameGood DEF FocusMoves, surfaceVars
    <2>5. CASE Capabilities
        BY <2>5, SameGood DEF Capabilities, surfaceVars
    <2>6. CASE RepeatInfo
        BY <2>6, SameGood DEF RepeatInfo, surfaceVars
    <2> QED BY <1>2, <2>1, <2>2, <2>3, <2>4, <2>5, <2>6 DEF SeatNext
<1>3. CASE UNCHANGED vars
    BY <1>3, SameGood DEF vars, surfaceVars
<1> QED BY <1>1, <1>2, <1>3 DEF Next

-----------------------------------------------------------------------------
(* The seat.                                                               *)

SeatTyped ==
    /\ phase \in {"locking", "waiting", "running", "over"}
    /\ failures \in 0 .. MaxFailures
    /\ keyboard \in BOOLEAN /\ repeats \in BOOLEAN /\ missed \in BOOLEAN
    /\ {repeating, down} \subseteq Keys \cup {None}
    /\ focus \in Outputs \cup {None}

LEMMA RoomTyped ==
    ASSUME failures \in 0 .. MaxFailures, NEW room, Room(room)
    PROVE  failures' \in 0 .. MaxFailures
    BY BoundAssumption DEF Room

LEMMA DamageTyped ==
    ASSUME SeatTyped, NEW room, DamageState(room)
    PROVE  failures' \in 0 .. MaxFailures
    BY RoomTyped DEF DamageState, SeatTyped

(* No event of an output or of a surface disturbs the seat, except that    *)
(* the focus goes with its surface.                                        *)
LEMMA SurfaceTyped ==
    ASSUME SeatTyped, SurfaceNext, FocusFollows
    PROVE  SeatTyped'
<1>1. /\ keyboard' \in BOOLEAN /\ repeats' \in BOOLEAN /\ missed' \in BOOLEAN
      /\ {repeating', down'} \subseteq Keys \cup {None}
      /\ focus' \in Outputs \cup {None}
    BY DEF SeatTyped, FocusFollows
<1>2. /\ phase' \in {"locking", "waiting", "running", "over"}
      /\ failures' \in 0 .. MaxFailures
    <2> USE DEF SeatTyped
    <2>1. ASSUME NEW o \in Outputs, OutputEvent(o)
          PROVE  phase' = phase /\ failures' \in 0 .. MaxFailures
        BY <2>1, RoomTyped
           DEF OutputEvent, OutputAdded, OutputRemoved, OutputDone,
               OutputGeometry, OutputScale
    <2>2. ASSUME NEW o \in Outputs, SurfaceEvent(o)
          PROVE  phase' = phase /\ failures' \in 0 .. MaxFailures
        BY <2>2, RoomTyped
           DEF SurfaceEvent, Configure, FrameDone, BufferRelease
    <2>3. CASE CreateSurfaces \/ Locked \/ Leave
        BY <2>3 DEF CreateSurfaces, Locked, Leave
    <2>4. ASSUME NEW room \in Rooms, Tick(room)
          PROVE  phase' = phase /\ failures' \in 0 .. MaxFailures
        BY <2>4, DamageTyped DEF Tick
    <2> QED BY <2>1, <2>2, <2>3, <2>4 DEF SurfaceNext
<1> QED BY <1>1, <1>2 DEF SeatTyped

LEMMA StepTyped == ASSUME SeatTyped, [Next]_vars PROVE SeatTyped'
<1>1. CASE SurfaceNext /\ FocusFollows
    BY <1>1, SurfaceTyped
<1>2. ASSUME NEW k \in Keys, NEW room \in Rooms, KeyPress(k, room)
      PROVE  SeatTyped'
    <2>1. failures' \in 0 .. MaxFailures
        BY <1>2, DamageTyped DEF KeyPress, SeatTyped
    <2>2. repeating' \in Keys \cup {None} /\ missed' \in BOOLEAN
        BY <1>2 DEF KeyPress, SeatTyped
    <2> QED BY <1>2, <2>1, <2>2 DEF KeyPress, SeatTyped, UserVars
<1>3. CASE KeyRelease
    BY <1>3 DEF KeyRelease, SeatTyped, UserVars, surfaceVars
<1>4. ASSUME NEW room \in Rooms, KeyRepeat(room) PROVE SeatTyped'
    BY <1>4, DamageTyped DEF KeyRepeat, SeatTyped, seatVars
<1>5. ASSUME NEW o \in Outputs \cup {None}, FocusMoves(o) PROVE SeatTyped'
    BY <1>5 DEF FocusMoves, SeatTyped, surfaceVars
<1>6. CASE Capabilities
    BY <1>6 DEF Capabilities, SeatTyped, surfaceVars
<1>7. CASE RepeatInfo
    BY <1>7 DEF RepeatInfo, SeatTyped, surfaceVars
<1>8. CASE UNCHANGED vars
    BY <1>8 DEF vars, seatVars, surfaceVars, SeatTyped
<1> QED BY <1>1, <1>2, <1>3, <1>4, <1>5, <1>6, <1>7, <1>8
        DEF Next, SeatNext

(* A key that goes up unheard is noted before another can be pressed.      *)
LEMMA StepHeld ==
    ASSUME SeatTyped, RepeatIsHeld, [Next]_vars
    PROVE  RepeatIsHeld'
<1> USE DEF RepeatIsHeld
<1>1. CASE SurfaceNext /\ FocusFollows
    BY <1>1 DEF FocusFollows
<1>2. ASSUME NEW k \in Keys, NEW room \in Rooms, KeyPress(k, room)
      PROVE  RepeatIsHeld'
    <2>1. CASE Listens
        BY <1>2, <2>1 DEF KeyPress
    <2>2. CASE ~Listens
        BY <1>2, <2>2 DEF KeyPress
    <2> QED BY <2>1, <2>2
<1>3. CASE KeyRelease
    BY <1>3 DEF KeyRelease
<1>4. ASSUME NEW room \in Rooms, KeyRepeat(room) PROVE RepeatIsHeld'
    BY <1>4 DEF KeyRepeat, seatVars
<1>5. ASSUME NEW o \in Outputs \cup {None}, FocusMoves(o) PROVE RepeatIsHeld'
    BY <1>5 DEF FocusMoves
<1>6. CASE Capabilities \/ RepeatInfo
    BY <1>6 DEF Capabilities, RepeatInfo
<1>7. CASE UNCHANGED vars
    BY <1>7 DEF vars, seatVars
<1> QED BY <1>1, <1>2, <1>3, <1>4, <1>5, <1>6, <1>7 DEF Next, SeatNext

-----------------------------------------------------------------------------
(* The theorems.                                                           *)

LEMMA Parts == IInv <=> SeatTyped /\ AllGood /\ RepeatIsHeld
    BY DEF IInv, TypeOK, SeatTyped, AllGood, Good

LEMMA InitHolds == Init => IInv
<1> SUFFICES ASSUME Init PROVE IInv
    OBVIOUS
<1>1. PICK known \in SUBSET Outputs :
          surf = [o \in Outputs |->
                     IF o \in known THEN NewSurface("bound") ELSE Absent]
    BY DEF Init, SurfaceInit
<1>2. Good(NewSurface("bound")) /\ Good(NewSurface("absent"))
    BY NewGood
<1>3. \A o \in Outputs : Good(surf[o])
    BY <1>1, <1>2 DEF Absent
<1>4. AllGood
    BY <1>1, <1>3 DEF AllGood, Good
<1>5. SeatTyped
    <2>1. failures \in 0 .. MaxFailures
        BY BoundAssumption DEF Init, SurfaceInit
    <2> QED BY <2>1 DEF Init, SurfaceInit, SeatTyped
<1>6. RepeatIsHeld
    BY DEF Init, RepeatIsHeld
<1> QED BY <1>4, <1>5, <1>6, Parts

LEMMA StepHolds == IInv /\ [Next]_vars => IInv' /\ NoneDrops
<1> SUFFICES ASSUME IInv, [Next]_vars PROVE IInv' /\ NoneDrops
    OBVIOUS
<1>1. SeatTyped /\ AllGood /\ RepeatIsHeld
    BY Parts
<1>2. SeatTyped' /\ RepeatIsHeld'
    BY <1>1, StepTyped, StepHeld
<1>3. AllGood' /\ NoneDrops
    <2>1. Counted
        BY <1>1, BoundAssumption DEF SeatTyped, Counted
    <2> QED BY <1>1, <2>1, StepGood
<1>4. IInv'
    BY <1>2, <1>3 DEF IInv, TypeOK, SeatTyped, AllGood, Good
<1> QED BY <1>3, <1>4

LEMMA Inductive == Spec => []IInv
<1>1. IInv /\ [Next]_vars => IInv'
    BY StepHolds
<1> QED BY <1>1, InitHolds, PTL DEF Spec

(* Types: of the surfaces, of the two buffers of each, of the seat.        *)
THEOREM TypeCorrect == Spec => []TypeOK
<1>1. IInv => TypeOK
    BY DEF IInv
<1> QED BY <1>1, Inductive, PTL

(* A clean lock surface has a buffer of the size that it was configured    *)
(* to, whatever the order of configure events, scale changes, frames and   *)
(* failed allocations (main.c, render.c).                                  *)
THEOREM CommitsAreSized == Spec => []CommitsFit
<1>1. IInv => CommitsFit
    BY DEF IInv, CommitsFit, Fits, Known
<1> QED BY <1>1, Inductive, PTL

(* A key repeats only while it is held, unless it went up while the locker *)
(* had no keyboard or no focus (seat.c).                                   *)
THEOREM RepeatsAreHeld == Spec => []RepeatIsHeld
<1>1. IInv => RepeatIsHeld
    BY DEF IInv
<1> QED BY <1>1, Inductive, PTL

(* While there is a buffer and memory, no change of the state is lost      *)
(* between render, damage_state and the frame callbacks, for any number of *)
(* outputs: it is shown, or marked with a callback pending that draws it   *)
(* (render.c, main.c).                                                     *)
THEOREM NoneForgotten == Spec => UpdatesStay
<1> DEFINE Stays == \A o \in Outputs :
               ShownOrDue(surf[o]) =>
                   \/ ShownOrDue(surf'[o])
                   \/ surf[o].busy = Slots
                   \/ failures' # failures
                   \/ ~Running /\ surf'[o].scale # surf[o].scale
<1>1. IInv /\ [Next]_vars => [Stays]_surf
    <2> SUFFICES ASSUME IInv, [Next]_vars PROVE Stays
        OBVIOUS
    <2>1. NoneDrops
        BY StepHolds
    <2> QED BY <2>1 DEF NoneDrops, Drops, Short, TooSoon
<1> QED BY <1>1, Inductive, PTL DEF Spec, UpdatesStay
=============================================================================
