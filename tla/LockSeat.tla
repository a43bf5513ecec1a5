------------------------------ MODULE LockSeat ------------------------------
(***************************************************************************)
(* aetherlock: the keyboard of the seat and its repeat timer (seat.c),     *)
(* composed with the lock surfaces, which hold the keyboard focus and are  *)
(* drawn again after every key.  What a key does to the password is in     *)
(* LockAuth.                                                               *)
(***************************************************************************)
EXTENDS LockSurface

CONSTANTS
    Keys,   \* the keys of the keyboard
    None    \* no key, no output

ASSUME NoneAssumption == None \notin Keys \cup Outputs

VARIABLES
    keyboard,   \* seat->keyboard is set
    repeats,    \* repeat_period_ms > 0
    repeating,  \* repeat_sym while repeat_timer is set, else None
    down,       \* the key that the user holds down, or None
    focus,      \* the output whose lock surface has the keyboard focus
    missed      \* a key went up and no one told the locker

seatVars == << keyboard, repeats, repeating, down, focus, missed >>
vars     == << surfaceVars, seatVars >>

UserVars == << keyboard, repeats, focus >>

(* Key events go to the surface with the focus.                            *)
Listens == keyboard /\ focus # None

(* keyboard_key, pressed: the key is handled and its repeat armed; one     *)
(* that was armed before is not.                                           *)
KeyPress(k, room) ==
    /\ down = None
    /\ down' = k
    /\ IF Listens
       THEN /\ DamageState(room)
            /\ repeating' = IF repeats THEN k ELSE None
            /\ missed' = FALSE
       ELSE /\ room = [o \in Outputs |-> 2]
            /\ UNCHANGED << repeating, missed, surf, failures >>
    /\ UNCHANGED << UserVars, phase >>

(* Mutant: only a press ends the repeat of the key before.                 *)
KeyReleaseKeeps ==
    /\ down # None
    /\ down' = None
    /\ missed' = (repeating # None /\ ~Listens)
    /\ UNCHANGED << UserVars, repeating, surfaceVars >>

(* keyboard_key, released.  Without the focus, or without a keyboard, the  *)
(* locker does not hear of it.                                             *)
KeyRelease ==
    /\ down # None
    /\ down' = None
    /\ repeating' = IF Listens THEN None ELSE repeating
    /\ missed' = (repeating # None /\ ~Listens)
    /\ UNCHANGED << UserVars, surfaceVars >>

(* keyboard_repeat: the timer is armed again, then the key handled.        *)
KeyRepeat(room) ==
    /\ Running /\ repeating # None
    /\ DamageState(room)
    /\ UNCHANGED << seatVars, phase >>

(* keyboard_leave and keyboard_enter: "Who cares".                         *)
FocusMoves(o) ==
    /\ keyboard /\ focus # o
    /\ o = None \/ (o \in Known /\ surf[o].created /\ surf[o].attached # 0)
    /\ focus' = o
    /\ UNCHANGED << keyboard, repeats, repeating, down, missed,
                    surfaceVars >>

(* seat_handle_capabilities: the keyboard comes or goes; the timer stays.  *)
Capabilities ==
    /\ phase # "over"
    /\ keyboard' = ~keyboard
    /\ focus' = None
    /\ UNCHANGED << repeats, repeating, down, missed, surfaceVars >>

(* keyboard_repeat_info: the armed timer keeps its time.                   *)
RepeatInfo ==
    /\ keyboard /\ phase # "over"
    /\ repeats' = ~repeats
    /\ UNCHANGED << keyboard, repeating, down, focus, missed,
                    surfaceVars >>

Init ==
    /\ SurfaceInit
    /\ keyboard \in BOOLEAN /\ repeats = FALSE
    /\ repeating = None /\ down = None /\ focus = None /\ missed = FALSE

(* A lock surface that is destroyed loses the focus.                       *)
FocusFollows ==
    /\ focus' = IF focus # None /\ surf'[focus].stage = "absent"
                THEN None ELSE focus
    /\ UNCHANGED << keyboard, repeats, repeating, down, missed >>

SeatNext ==
    \/ \E k \in Keys, room \in Rooms : KeyPress(k, room)
    \/ KeyRelease
    \/ \E room \in Rooms : KeyRepeat(room)
    \/ \E o \in Outputs \cup {None} : FocusMoves(o)
    \/ Capabilities
    \/ RepeatInfo

Next == (SurfaceNext /\ FocusFollows) \/ SeatNext

Spec == Init /\ [][Next]_vars

(* The compositor: tells a new output's properties, sizes a new surface,   *)
(* answers each frame callback, releases the buffers it has replaced.  The *)
(* statistics timer expires every 1.5 s, and memory fails MaxFailures      *)
(* times.                                                                  *)
Plenty == [o \in Outputs |-> 2]

Fairness ==
    /\ WF_vars(Tick(Plenty) /\ FocusFollows)
    /\ \A o \in Outputs :
          /\ WF_vars(/\ surf[o].stage = "bound"
                     /\ \E f \in Scales[o] : OutputScale(o, f, Plenty)
                     /\ FocusFollows)
          /\ WF_vars(surf[o].stage = "scaled" /\ OutputDone(o) /\ FocusFollows)
          /\ WF_vars(/\ surf[o].width = 0
                     /\ \E w \in Widths[o] : Configure(o, w, Plenty)
                     /\ FocusFollows)
          /\ WF_vars((\E room \in Rooms : FrameDone(o, room)) /\ FocusFollows)
          /\ \A i \in Slots : WF_vars(BufferRelease(o, i) /\ FocusFollows)

FairSpec == Spec /\ Fairness

-----------------------------------------------------------------------------
(* Properties.                                                             *)

Surface ==
    [stage    : {"absent", "bound", "scaled", "done"},
     created  : BOOLEAN,
     scale    : Nat,
     width    : Nat,
     dirty    : BOOLEAN,
     frame    : BOOLEAN,
     last     : Nat,
     made     : [Slots -> Nat],
     busy     : SUBSET Slots,
     attached : Nat,
     atScale  : Nat,
     stale    : BOOLEAN,
     early    : BOOLEAN]

TypeOK ==
    /\ phase \in {"locking", "waiting", "running", "over"}
    /\ failures \in 0 .. MaxFailures
    /\ surf \in [Outputs -> Surface]
    /\ keyboard \in BOOLEAN /\ repeats \in BOOLEAN /\ missed \in BOOLEAN
    /\ {repeating, down} \subseteq Keys \cup {None}
    /\ focus \in Outputs \cup {None}

(* A lock surface that is clean has a buffer of the size it was configured *)
(* to, whatever the order of configure events, scale changes, frames and   *)
(* failed allocations: a commit of another size is a protocol error, which *)
(* would end the locker (ext_session_lock_surface_v1).                     *)
CommitsFit ==
    \A o \in Known :
        LET s == surf[o]
        IN  ~s.dirty /\ s.width # 0 /\ s.atScale # 0
                => s.attached = s.width * s.atScale

(* A key repeats only while the user holds it, unless it went up while the *)
(* locker had no keyboard or no focus: then nothing stops the repeat until *)
(* the next key event (keyboard_leave and seat_handle_capabilities leave   *)
(* the timer alone).                                                       *)
RepeatIsHeld == repeating # None => repeating = down \/ missed

(* What is shown of a surface that has its size is the present state, or   *)
(* it is marked and a frame callback is pending that will draw it.         *)
ShownOrDue(s) == BufferSize(s) # 0 /\ s.stale => s.dirty /\ s.frame

(* No update is lost between the frame callbacks: a change that comes while *)
(* a frame is pending waits for it, one that comes with it or right after  *)
(* is drawn, and none clears the mark of another.  Three steps do lose one *)
(* until the next change: a redraw that finds both buffers busy (the mark  *)
(* is cleared all the same), one without memory, and a scale that arrives  *)
(* before the main loop.                                                   *)
UpdatesStay ==
    [][\A o \in Outputs :
          ShownOrDue(surf[o]) =>
              \/ ShownOrDue(surf'[o])
              \/ surf[o].busy = Slots
              \/ failures' # failures
              \/ ~Running /\ surf'[o].scale # surf[o].scale]_surf

(* Every output comes to show the present state: its lock surface is made, *)
(* sized and drawn, and an update that found both buffers busy or no       *)
(* memory is made up for by a later one.  Not so an output announced while *)
(* main waits for "locked" (early).                                        *)
EveryOutputShows ==
    \A o \in Outputs :
        Running /\ o \in Known /\ ~surf[o].early
            ~> phase = "over" \/ o \notin Known \/ ~surf[o].stale
=============================================================================
