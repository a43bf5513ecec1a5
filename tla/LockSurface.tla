----------------------------- MODULE LockSurface -----------------------------
(***************************************************************************)
(* aetherlock: outputs, lock surfaces, frame callbacks and buffers (main.c,*)
(* render.c, pool-buffer.c).                                               *)
(*                                                                         *)
(* The compositor is the environment: each event it sends is one action,   *)
(* taken when the locker's wl_display_dispatch handles it.  It sends an    *)
(* event only when the protocol allows it.                                 *)
(***************************************************************************)
EXTENDS Naturals

CONSTANTS
    Outputs,     \* the outputs that can be plugged in
    Scales,      \* Scales[o]: the scale factors the compositor may give to o
    Widths,      \* Widths[o]: the sizes a lock surface on o may get
    MaxFailures  \* model bound: how often shared memory runs out

ASSUME SizeAssumption ==
    Scales \in [Outputs -> SUBSET (Nat \ {0})]
    /\ Widths \in [Outputs -> SUBSET (Nat \ {0})]
ASSUME BoundAssumption == MaxFailures \in Nat

VARIABLES
    phase,    \* main: "locking" up to create_surface for every output,
              \* "waiting" for locked, "running" (run_display), "over"
    surf,     \* state.surfaces: a record per output, see NewSurface
    failures  \* shared memory that was refused

surfaceVars == << phase, surf, failures >>

(* The two indicator buffers of a surface.                                 *)
Slots == {1, 2}

(* What handle_global allocates.  The last four fields are the display's:  *)
(* what the compositor has of the surface.  A busy buffer is one that the  *)
(* compositor may read, until it releases it.                              *)
NewSurface(stage) ==
    [stage    |-> stage,  \* events of the output: "absent", "bound",
                          \* "scaled", "done"
     created  |-> FALSE,
     scale    |-> 0,
     width    |-> 0,
     dirty    |-> FALSE,
     frame    |-> FALSE,  \* a frame callback is pending
     last     |-> 0,      \* last_buffer_width (and height)
     made     |-> [i \in Slots |-> 0],  \* scale of each buffer, 0: none
     busy     |-> {},     \* the buffers whose pool_buffer.busy is set
     attached |-> 0,      \* size of the buffer of the surface
     atScale  |-> 0,      \* buffer scale of the last commit
     stale    |-> TRUE,   \* what is shown is older than the state, or nothing
     early    |-> FALSE]  \* announced between create_surface and locked

Absent  == NewSurface("absent")
Known   == {o \in Outputs : surf[o].stage # "absent"}
Running == phase = "running"

-----------------------------------------------------------------------------
(* Buffers.  "room" is how many more buffers shared memory has room for.   *)

FreeBuffers(s) == Slots \ s.busy

(* The one that get_next_buffer picks: the last of the two.                *)
Preferred(free) == IF 2 \in free THEN 2 ELSE 1

(* get_next_buffer: the last of the two that is not busy; one of another   *)
(* size is destroyed and made anew.  0: there is none.                     *)
NextBuffer(s, room) ==
    LET free == FreeBuffers(s)
        i    == Preferred(free)
    IN  IF free = {} \/ (s.made[i] # s.scale /\ room = 0) THEN 0 ELSE i

(* render_frame: draw the state into a buffer and commit the subsurface.   *)
(* Without a buffer what is shown stays as it is; one that did not fit is  *)
(* gone by then.                                                           *)
RenderFrame(s, room) ==
    LET i    == NextBuffer(s, room)
        free == FreeBuffers(s)
    IN  CASE i # 0 ->
               [s EXCEPT !.made = [s.made EXCEPT ![i] = s.scale],
                         !.busy = @ \cup {i},
                         !.stale = FALSE]
          [] i = 0 /\ free # {} ->
               [s EXCEPT !.made = [s.made EXCEPT ![Preferred(free)] = 0]]
          [] OTHER -> s

BufferSize(s) == s.width * s.scale
NewParent(s)  == BufferSize(s) # s.last
MustWait(s)   == BufferSize(s) = 0 \/ ~s.dirty \/ s.frame

(* Mutant: the size is noted before the buffer is there.                   *)
RenderNotesEarly(s, room) ==
    CASE MustWait(s) -> s
      [] ~MustWait(s) /\ NewParent(s) /\ room = 0 ->
            [s EXCEPT !.last = BufferSize(s)]
      [] OTHER ->
            LET grown == IF NewParent(s)
                         THEN [s EXCEPT !.last = BufferSize(s),
                                        !.attached = BufferSize(s)]
                         ELSE s
                left  == IF NewParent(s) THEN room - 1 ELSE room
            IN  [RenderFrame(grown, left) EXCEPT
                    !.dirty = FALSE, !.frame = TRUE, !.atScale = s.scale]

(* render: nothing before the size is known, nothing while a frame is      *)
(* pending.  A background of a new size needs a buffer; when there is none *)
(* the surface stays dirty.  The result of render_frame is ignored.        *)
Render(s, room) ==
    CASE MustWait(s) -> s
      [] ~MustWait(s) /\ NewParent(s) /\ room = 0 -> s
      [] OTHER ->
            LET grown == IF NewParent(s)
                         THEN [s EXCEPT !.last = BufferSize(s),
                                        !.attached = BufferSize(s)]
                         ELSE s
                left  == IF NewParent(s) THEN room - 1 ELSE room
            IN  [RenderFrame(grown, left) EXCEPT
                    !.dirty = FALSE, !.frame = TRUE, !.atScale = s.scale]

(* surface->dirty = true; render(surface);                                 *)
Damaged(s, room) == Render([s EXCEPT !.dirty = TRUE, !.stale = TRUE], room)

(* Shared memory: enough for everyone, or a failure for some of them.      *)
Room(room) ==
    \/ /\ room = [o \in Outputs |-> 2]
       /\ UNCHANGED failures
    \/ /\ room # [o \in Outputs |-> 2]
       /\ failures < MaxFailures
       /\ failures' = failures + 1

Rooms == [Outputs -> 0 .. 2]

(* damage_state, and the handlers that end in one render.                  *)
DamageState(room) ==
    /\ Room(room)
    /\ surf' = [o \in Outputs |->
                   IF o \in Known THEN Damaged(surf[o], room[o]) ELSE surf[o]]

Put(o, s) == surf' = [surf EXCEPT ![o] = s]

-----------------------------------------------------------------------------
(* Events of the outputs.                                                  *)

(* handle_global.                                                          *)
OutputAdded(o) ==
    /\ phase # "over" /\ surf[o].stage = "absent"
    /\ Put(o, NewSurface("bound"))
    /\ UNCHANGED << phase, failures >>

(* handle_global_remove: destroy_surface.                                  *)
OutputRemoved(o) ==
    /\ phase # "over" /\ o \in Known
    /\ Put(o, Absent)
    /\ UNCHANGED << phase, failures >>

(* handle_wl_output_geometry.                                              *)
OutputGeometry(o, room) ==
    /\ o \in Known
    /\ Running
    /\ Room(room)
    /\ Put(o, Damaged(surf[o], room[o]))
    /\ UNCHANGED phase

(* handle_wl_output_scale: the new scale is shown by the next render, and  *)
(* only in the main loop is there one now.                                 *)
OutputScale(o, factor, room) ==
    /\ o \in Known /\ phase # "over"
    /\ factor # surf[o].scale
    /\ LET s == [surf[o] EXCEPT
                    !.scale = factor,
                    !.stage = IF @ = "bound" THEN "scaled" ELSE @,
                    !.stale = TRUE]
       IN  IF Running
           THEN Room(room) /\ Put(o, Damaged(s, room[o]))
           ELSE room = [p \in Outputs |-> 2] /\ Put(o, s)
                /\ UNCHANGED failures
    /\ UNCHANGED phase

(* Mutant: the surface of an output is made only once, at the start.       *)
OutputDoneNothing(o) ==
    /\ surf[o].stage = "scaled" /\ phase # "over"
    /\ Put(o, [surf[o] EXCEPT !.stage = "done",
                              !.early = ~@ /\ phase = "waiting" /\ ~surf[o].created])
    /\ UNCHANGED << phase, failures >>

(* handle_wl_output_done: before the main loop it makes no surface.        *)
OutputDone(o) ==
    /\ surf[o].stage \in {"scaled", "done"} /\ phase # "over"
    /\ Put(o, [surf[o] EXCEPT
                  !.stage = "done",
                  !.created = @ \/ Running,
                  !.early = phase = "waiting" /\ ~surf[o].created])
    /\ UNCHANGED << phase, failures >>

-----------------------------------------------------------------------------
(* Events of the surfaces.                                                 *)

(* ext_session_lock_surface_v1_handle_configure.                           *)
Configure(o, width, room) ==
    /\ surf[o].created /\ phase # "over"
    /\ Room(room)
    /\ Put(o, Damaged([surf[o] EXCEPT !.width = width], room[o]))
    /\ UNCHANGED phase

(* Mutant: what changed while the frame was pending is not drawn after it. *)
FrameDoneForgets(o, room) ==
    /\ surf[o].frame /\ phase # "over"
    /\ Room(room)
    /\ Put(o, [surf[o] EXCEPT !.frame = FALSE])
    /\ UNCHANGED phase

(* surface_frame_handle_done.                                              *)
FrameDone(o, room) ==
    /\ surf[o].frame /\ phase # "over"
    /\ Room(room)
    /\ Put(o, Render([surf[o] EXCEPT !.frame = FALSE], room[o]))
    /\ UNCHANGED phase

(* buffer_release: the compositor reads the buffer no longer.              *)
BufferRelease(o, i) ==
    /\ i \in surf[o].busy /\ phase # "over"
    /\ Put(o, [surf[o] EXCEPT !.busy = @ \ {i}])
    /\ UNCHANGED << phase, failures >>

-----------------------------------------------------------------------------
(* main.                                                                   *)

(* The roundtrip after the lock request is over.  An output that came      *)
(* during it may not have said its scale yet.                              *)
CreateSurfaces ==
    /\ phase = "locking"
    /\ phase' = "waiting"
    /\ surf' = [o \in Outputs |->
                   IF o \in Known THEN [surf[o] EXCEPT !.created = TRUE]
                                  ELSE surf[o]]
    /\ UNCHANGED failures

(* ext_session_lock_v1_handle_locked ends the wait; the main loop starts.  *)
Locked ==
    /\ phase = "waiting"
    /\ phase' = "running"
    /\ UNCHANGED << surf, failures >>

(* ext_session_lock_v1_handle_finished: exit(2).  Later the main loop ends *)
(* for the reasons of LockAuth.                                            *)
Leave ==
    /\ phase \in {"waiting", "running"}
    /\ phase' = "over"
    /\ surf' = [o \in Outputs |-> Absent]
    /\ UNCHANGED failures

(* sysstats_timer_cb, clock_tick, and the callbacks of the player and of   *)
(* notifications: the state changed, damage_state.                         *)
Tick(room) == Running /\ DamageState(room) /\ UNCHANGED phase

SurfaceInit ==
    /\ phase = "locking" /\ failures = 0
    /\ \E known \in SUBSET Outputs :
          surf = [o \in Outputs |->
                     IF o \in known THEN NewSurface("bound") ELSE Absent]

OutputEvent(o) ==
    \/ OutputAdded(o) \/ OutputRemoved(o) \/ OutputDone(o)
    \/ \E room \in Rooms : OutputGeometry(o, room)
    \/ \E room \in Rooms, factor \in Scales[o] : OutputScale(o, factor, room)

SurfaceEvent(o) ==
    \/ \E room \in Rooms, width \in Widths[o] : Configure(o, width, room)
    \/ \E room \in Rooms : FrameDone(o, room)
    \/ \E i \in Slots : BufferRelease(o, i)

SurfaceNext ==
    \/ \E o \in Outputs : OutputEvent(o) \/ SurfaceEvent(o)
    \/ CreateSurfaces \/ Locked \/ Leave
    \/ \E room \in Rooms : Tick(room)
=============================================================================
