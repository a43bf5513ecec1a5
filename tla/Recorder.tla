------------------------------ MODULE Recorder ------------------------------
(***************************************************************************)
(* aether-recorder: the capture loop, the encoder thread, the pool of      *)
(* buffers between them, and the audio thread that shares the muxer        *)
(* (main.cpp, buffer-pool.hpp, frame-writer.cpp, pulse.cpp, pipewire.cpp). *)
(*                                                                         *)
(* Four actors: main dispatches the compositor's events and puts captured  *)
(* frames into the pool; the writer thread takes them out and encodes      *)
(* them; the audio thread writes packets of its own; signals, the tray     *)
(* icon and errors set exit_main_loop.  The operations of the pool hold    *)
(* its mutex, so each is one step: what the other thread can see of one    *)
(* that is half done only lets it begin a step that waits for the mutex.   *)
(***************************************************************************)
EXTENDS Naturals, Sequences

CONSTANTS
    PoolSize,     \* N of buffer_pool (16 in the code)
    MaxFailures,  \* MAX_FRAME_FAILURES (16 in the code)
    Audio,        \* the sound of the runs: "none", "pulse", "pipewire"
    MayMap,       \* {TRUE, FALSE}: buffers may have to be mapped (use_hwupload)
    LastFrame     \* model bound: frames that the compositor delivers

ASSUME PoolAssumption == PoolSize \in Nat /\ PoolSize >= 2
ASSUME FailureAssumption == MaxFailures \in Nat
ASSUME ChoiceAssumption ==
    Audio \subseteq {"none", "pulse", "pipewire"} /\ MayMap \subseteq BOOLEAN
ASSUME BoundAssumption == LastFrame \in Nat

VARIABLES
    backend,      \* audioParams.audio_backend, or "none" without --audio
    hwupload,     \* use_dmabuf && use_hwupload
    exit,         \* exit_main_loop
    main,         \* main: "top", "free" (waits for a free buffer),
                  \* "copying" (before the test of the inner loop),
                  \* "dispatching" (in wl_display_dispatch), "joining", "ended"
    displayOk,    \* the Wayland connection works
    copyDone,     \* buffer_copy_done
    failures,     \* frame_failed_cnt
    clock,        \* the time of the last frame presented
    bufsSize,     \* buffers.bufs_size
    bufs,         \* buffers.bufs[0 .. bufs_size - 1]: records released,
                  \* available, frame (its presentation time)
    captureIdx,   \* buffers.capture_idx
    encodeIdx,    \* buffers.encode_idx
    writer,       \* the writer thread: "none" (not started), "wait", "adding",
                  \* "pending" and "fmt" (before the muxer's two locks),
                  \* "write", "next", "closing", "stuck", "done"
    synced,       \* first_frame_ts is set
    encoded,      \* the frames handed to add_frame, in order
    audio,        \* the audio thread: "off", "idle", "pending", "fmt",
                  \* "write", "ended"
    audioBase     \* get_time_base() of the audio reader, 0 when unknown

choice    == << backend, hwupload >>
mainVars  == << main, displayOk, copyDone, failures, clock >>
poolVars  == << bufsSize, bufs, captureIdx, encodeIdx >>
audioVars == << audio, audioBase >>
vars == << choice, exit, mainVars, poolVars, writer, synced, encoded, audioVars >>

(* The end of the process ends its threads where they are.                 *)
Running      == main # "ended"
WriterAt(pc) == Running /\ writer = pc
AudioAt(pc)  == Running /\ audio = pc

-----------------------------------------------------------------------------
(* buffer_pool.                                                            *)

(* A buffer that the capture may use, or one that the encoder may use.     *)
ForCapture(f) == [released |-> TRUE, available |-> FALSE, frame |-> f]
ForEncoder(f) == [released |-> FALSE, available |-> TRUE, frame |-> f]
WithFrame(b, f) ==
    [released |-> b.released, available |-> b.available, frame |-> f]
Fresh == ForCapture(0)

Init ==
    /\ backend \in Audio /\ hwupload \in MayMap
    /\ exit = FALSE
    /\ main = "top" /\ displayOk = TRUE /\ copyDone = FALSE
    /\ failures = 0 /\ clock = 0
    /\ bufsSize = 2 /\ bufs = [i \in 0 .. 1 |-> Fresh]
    /\ captureIdx = 0 /\ encodeIdx = 0
    /\ writer = "none" /\ synced = FALSE /\ encoded = << >>
    /\ audio = "off" /\ audioBase = 0

(* Mutant: the pool grows by one buffer too many.                          *)
MayGrowBeyond == bufsSize <= PoolSize

MayGrow == bufsSize < PoolSize

(* Mutant: the index of the encoder is not moved with its buffer.          *)
EncoderStays(next) == encodeIdx

(* The buffers from next on move up by one, and the encoder's index too.   *)
EncoderMoves(next) == IF encodeIdx >= next THEN encodeIdx + 1 ELSE encodeIdx

Inserted(list, next) ==
    [i \in 0 .. bufsSize |-> CASE i < next -> list[i]
                               [] i = next -> Fresh
                               [] i > next -> list[i - 1]]

(* The capture buffer becomes available; when the next one is still in use *)
(* a pool that may grow gets a new buffer in front of it.                  *)
NextCapture ==
    LET submitted == [bufs EXCEPT ![captureIdx] = ForEncoder(bufs[captureIdx].frame)]
        after == captureIdx + 1
        next  == after % bufsSize
    IN  IF ~submitted[next].released /\ MayGrow
        THEN /\ bufsSize' = bufsSize + 1
             /\ bufs' = Inserted(submitted, after)
             /\ captureIdx' = after
             /\ encodeIdx' = EncoderMoves(after)
        ELSE /\ bufs' = submitted
             /\ captureIdx' = next
             /\ UNCHANGED << bufsSize, encodeIdx >>

NextEncode ==
    /\ bufs' = [bufs EXCEPT ![encodeIdx] = ForCapture(bufs[encodeIdx].frame)]
    /\ encodeIdx' = (encodeIdx + 1) % bufsSize
    /\ UNCHANGED << bufsSize, captureIdx >>

(* The frames in the pool that the encoder has not seen, oldest first.     *)
(* The available buffers are those from encodeIdx up to captureIdx; where  *)
(* the indices are equal it is all of them or none.                        *)
Handled == writer \in {"pending", "fmt", "write", "next"}
Filled  ==
    IF bufs[encodeIdx].available /\ captureIdx = encodeIdx THEN bufsSize
    ELSE (captureIdx + bufsSize - encodeIdx) % bufsSize
Waiting ==
    LET first == IF Handled THEN 1 ELSE 0
    IN  [k \in 1 .. Filled - first |->
            bufs[(encodeIdx + first + k - 1) % bufsSize].frame]

-----------------------------------------------------------------------------
(* main's loop.                                                            *)

LoopTest ==
    /\ main = "top"
    /\ main' = IF exit THEN "joining" ELSE "free"
    /\ UNCHANGED << choice, exit, displayOk, copyDone, failures, clock,
                    poolVars, writer, synced, encoded, audioVars >>

(* Mutant: the buffer need not be free.                                    *)
RequestFrameEarly ==
    /\ main = "free"
    /\ main' = "copying"
    /\ copyDone' = FALSE
    /\ UNCHANGED << choice, exit, displayOk, failures, clock, poolVars, writer,
                    synced, encoded, audioVars >>

(* A buffer is free: request_next_frame.  The wait does not look at exit.  *)
RequestFrame ==
    /\ main = "free" /\ bufs[captureIdx].released
    /\ main' = "copying"
    /\ copyDone' = FALSE
    /\ UNCHANGED << choice, exit, displayOk, failures, clock, poolVars, writer,
                    synced, encoded, audioVars >>

(* The inner loop looks at both flags before it calls wl_display_dispatch, *)
(* and not again until that returns: a signal does not end the wait there, *)
(* only an event of the compositor does, or the loss of the connection.    *)
Dispatch ==
    /\ main = "copying" /\ ~copyDone /\ ~exit
    /\ main' = "dispatching"
    /\ UNCHANGED << choice, exit, displayOk, copyDone, failures, clock, poolVars,
                    writer, synced, encoded, audioVars >>

(* The events of one call.                                                 *)
Dispatching == main = "dispatching" /\ displayOk

(* frame_handle_ready: the compositor has written into the buffer.         *)
FrameReady ==
    /\ Dispatching /\ clock < LastFrame
    /\ main' = "copying"
    /\ copyDone' = TRUE
    /\ clock' = clock + 1
    /\ bufs' = [bufs EXCEPT ![captureIdx] = WithFrame(@, clock + 1)]
    /\ failures' = 0
    /\ UNCHANGED << choice, exit, displayOk, bufsSize, captureIdx, encodeIdx,
                    writer, synced, encoded, audioVars >>

(* frame_handle_failed: the frame is requested again.                      *)
FrameFailed ==
    /\ Dispatching /\ failures <= MaxFailures
    /\ main' = "copying"
    /\ failures' = failures + 1
    /\ exit' = (exit \/ failures + 1 > MaxFailures)
    /\ UNCHANGED << choice, displayOk, copyDone, clock, poolVars, writer,
                    synced, encoded, audioVars >>

(* dmabuf_failed, or no buffer object: the frame cannot be captured.       *)
BufferFailed ==
    /\ Dispatching
    /\ main' = "copying"
    /\ exit' = TRUE
    /\ UNCHANGED << choice, displayOk, copyDone, failures, clock, poolVars,
                    writer, synced, encoded, audioVars >>

(* Any other event: dispatch returns and the flags are looked at again.    *)
OtherEvent ==
    /\ Dispatching
    /\ main' = "copying"
    /\ UNCHANGED << choice, exit, displayOk, copyDone, failures, clock, poolVars,
                    writer, synced, encoded, audioVars >>

(* No memory for a buffer: frame_handle_buffer ends the process.           *)
BufferUnusable ==
    /\ Dispatching
    /\ main' = "ended"
    /\ UNCHANGED << choice, exit, displayOk, copyDone, failures, clock,
                    poolVars, writer, synced, encoded, audioVars >>

(* From now on wl_display_dispatch returns -1.                             *)
DisplayLost ==
    /\ Running /\ displayOk
    /\ displayOk' = FALSE
    /\ UNCHANGED << choice, exit, main, copyDone, failures, clock, poolVars,
                    writer, synced, encoded, audioVars >>

DispatchEnds ==
    \/ main = "copying" /\ (copyDone \/ exit)
    \/ main = "dispatching" /\ ~displayOk

StopCapture ==
    /\ DispatchEnds /\ exit
    /\ main' = "joining"
    /\ UNCHANGED << choice, exit, displayOk, copyDone, failures, clock,
                    poolVars, writer, synced, encoded, audioVars >>

(* The first frame starts the writer.  After an error of the connection    *)
(* the buffer is submitted with whatever it held before (as often as the   *)
(* bound allows).                                                          *)
SubmitFrame ==
    /\ DispatchEnds /\ ~exit
    /\ copyDone \/ Len(encoded) + Len(Waiting) < LastFrame
    /\ writer' = IF writer = "none" THEN "wait" ELSE writer
    /\ NextCapture
    /\ main' = "top"
    /\ UNCHANGED << choice, exit, displayOk, copyDone, failures, clock, synced,
                    encoded, audioVars >>

Join ==
    /\ main = "joining" /\ writer \in {"none", "done"}
    /\ main' = "ended"
    /\ UNCHANGED << choice, exit, displayOk, copyDone, failures, clock,
                    poolVars, writer, synced, encoded, audioVars >>

MainStep ==
    LoopTest \/ RequestFrame \/ Dispatch \/ StopCapture \/ SubmitFrame \/ Join

-----------------------------------------------------------------------------
(* The writer thread: write_loop.                                          *)

Current == bufs[encodeIdx].frame

(* The frame writer does not exist before the first frame is taken.        *)
FirstFrame == encoded = << >> /\ audio = "off"

(* The reader of the sound, created with the frame writer: it may fail.    *)
(* PulseAudio knows at once when the sound began: before the first frame,  *)
(* or just now.                                                            *)
StartAudio ==
    \/ /\ backend # "none"
       /\ audio' = "idle"
       /\ audioBase' \in (IF backend = "pulse" THEN {1, clock + 1} ELSE {0})
    \/ UNCHANGED audioVars

(* Mutant: the writer does not wait for a frame that is available.         *)
TakeFrameEarly ==
    /\ WriterAt("wait") /\ ~exit
    /\ writer' = "adding"
    /\ IF FirstFrame THEN StartAudio ELSE UNCHANGED audioVars
    /\ UNCHANGED << choice, exit, mainVars, poolVars, synced, encoded >>

(* A frame is available: frame_writer_mutex is taken, the frame writer     *)
(* created if this is the first one.                                       *)
TakeFrame ==
    /\ WriterAt("wait") /\ ~exit /\ bufs[encodeIdx].available
    /\ writer' = "adding"
    /\ IF FirstFrame THEN StartAudio ELSE UNCHANGED audioVars
    /\ UNCHANGED << choice, exit, mainVars, poolVars, synced, encoded >>

(* An unusable format, codec or file: FrameWriter ends the process.        *)
EncoderUnusable ==
    /\ WriterAt("wait") /\ ~exit /\ bufs[encodeIdx].available /\ FirstFrame
    /\ main' = "ended"
    /\ UNCHANGED << choice, exit, displayOk, copyDone, failures, clock,
                    poolVars, writer, synced, encoded, audioVars >>

(* The sound has not begun, or began after this frame.                     *)
TooEarly == ~synced /\ audio # "off" /\ (audioBase = 0 \/ audioBase > Current)

(* Mutant: a frame that is dropped stays in the pool.                      *)
DropFrameStays ==
    /\ WriterAt("adding") /\ TooEarly
    /\ writer' = "wait"
    /\ UNCHANGED << choice, exit, mainVars, poolVars, synced, encoded, audioVars >>

DropFrame ==
    /\ WriterAt("adding") /\ TooEarly
    /\ writer' = "next"
    /\ UNCHANGED << choice, exit, mainVars, poolVars, synced, encoded, audioVars >>

(* add_frame succeeds; the encoder may give out a packet for the muxer,    *)
(* which is locked only in a recording with sound.                         *)
AddFrame ==
    /\ WriterAt("adding") /\ ~TooEarly
    /\ synced' = TRUE
    /\ encoded' = Append(encoded, Current)
    /\ writer' \in {"next", IF backend = "none" THEN "write" ELSE "pending"}
    /\ UNCHANGED << choice, exit, mainVars, poolVars, audioVars >>

(* The filter graph is at its end or fails: do_cont is false.              *)
AddFrameFails ==
    /\ WriterAt("adding") /\ ~TooEarly
    /\ synced' = TRUE
    /\ writer' = "closing"
    /\ UNCHANGED << choice, exit, mainVars, poolVars, encoded, audioVars >>

(* gbm_bo_map fails: the loop is left with frame_writer_mutex locked, and  *)
(* the end of write_loop locks it again.                                   *)
MapFails ==
    /\ WriterAt("adding") /\ ~TooEarly /\ hwupload
    /\ synced' = TRUE
    /\ writer' = "stuck"
    /\ UNCHANGED << choice, exit, mainVars, poolVars, encoded, audioVars >>

ReleaseFrame ==
    /\ WriterAt("next")
    /\ NextEncode
    /\ writer' = "wait"
    /\ UNCHANGED << choice, exit, mainVars, synced, encoded, audioVars >>

(* Mutant: the wait for a frame does not look at exit_main_loop.           *)
LeaveWriteLoopLate ==
    /\ WriterAt("wait") /\ exit /\ bufs[encodeIdx].available
    /\ writer' = "closing"
    /\ UNCHANGED << choice, exit, mainVars, poolVars, synced, encoded, audioVars >>

LeaveWriteLoop ==
    /\ WriterAt("wait") /\ exit
    /\ writer' = "closing"
    /\ UNCHANGED << choice, exit, mainVars, poolVars, synced, encoded, audioVars >>

(* The audio reader is destroyed first: PulseAudio's thread is joined,     *)
(* PipeWire's callback is waited for.  Then the file is finished.          *)
CloseWriter ==
    /\ WriterAt("closing")
    /\ \/ audio \in {"off", "ended"}
       \/ audio = "idle" /\ backend = "pipewire"
    /\ audio' = "off"
    /\ writer' = "done"
    /\ UNCHANGED << choice, exit, mainVars, poolVars, synced, encoded, audioBase >>

-----------------------------------------------------------------------------
(* finish_frame: two locks in front of av_interleaved_write_frame.  The    *)
(* first is held while waiting for the second.                             *)

(* Mutant: the second lock alone.                                          *)
PendingFreeAlways == TRUE

PendingFree == writer # "fmt" /\ audio # "fmt"

(* Mutant: the muxer is not locked.                                        *)
FmtFreeAlways == TRUE

FmtFree == writer # "write" /\ audio # "write"

VideoLock ==
    /\ \/ WriterAt("pending") /\ PendingFree /\ writer' = "fmt"
       \/ WriterAt("fmt") /\ FmtFree /\ writer' = "write"
    /\ UNCHANGED << choice, exit, mainVars, poolVars, synced, encoded, audioVars >>

AudioLock ==
    /\ \/ AudioAt("pending") /\ PendingFree /\ audio' = "fmt"
       \/ AudioAt("fmt") /\ FmtFree /\ audio' = "write"
    /\ UNCHANGED << choice, exit, mainVars, poolVars, writer, synced, encoded,
                    audioBase >>

(* A packet that cannot be written sets write_aborted_flag: exit.          *)
VideoWrite ==
    /\ WriterAt("write")
    /\ writer' = "next"
    /\ exit' \in {exit, TRUE}
    /\ UNCHANGED << choice, mainVars, poolVars, synced, encoded, audioVars >>

WriterStep ==
    \/ TakeFrame \/ DropFrame \/ AddFrame \/ ReleaseFrame
    \/ LeaveWriteLoop \/ CloseWriter \/ VideoWrite

-----------------------------------------------------------------------------
(* The audio thread: PulseReader::loop, on_stream_process.                 *)

(* PulseAudio's loop ends when exit is set; PipeWire learns at the end of  *)
(* its first callback when the sound began.                                *)
AudioTurn ==
    /\ audio' = IF backend = "pulse" /\ exit' THEN "ended" ELSE "idle"
    /\ IF backend = "pipewire" /\ audioBase = 0
       THEN audioBase' \in {1, clock + 1}
       ELSE UNCHANGED audioBase

(* Sound arrives and becomes a packet, or is kept by the encoder.          *)
AudioPacket ==
    /\ AudioAt("idle")
    /\ audio' = "pending"
    /\ UNCHANGED << choice, exit, mainVars, poolVars, writer, synced, encoded,
                    audioBase >>

AudioKept ==
    /\ AudioAt("idle")
    /\ UNCHANGED exit
    /\ AudioTurn
    /\ UNCHANGED << choice, mainVars, poolVars, writer, synced, encoded >>

AudioWrite ==
    /\ AudioAt("write")
    /\ exit' \in {exit, TRUE}
    /\ AudioTurn
    /\ UNCHANGED << choice, mainVars, poolVars, writer, synced, encoded >>

(* pa_simple_read fails: the thread ends.                                  *)
AudioFails ==
    /\ AudioAt("idle") /\ backend = "pulse"
    /\ audio' = "ended"
    /\ UNCHANGED << choice, exit, mainVars, poolVars, writer, synced, encoded,
                    audioBase >>

-----------------------------------------------------------------------------

(* SIGINT, SIGTERM, SIGHUP, or a click on the tray icon.                   *)
Interrupt ==
    /\ Running /\ ~exit
    /\ exit' = TRUE
    /\ UNCHANGED << choice, mainVars, poolVars, writer, synced, encoded,
                    audioVars >>

Compositor == FrameReady \/ FrameFailed \/ BufferFailed \/ OtherEvent
              \/ BufferUnusable \/ DisplayLost
EncoderErrors == AddFrameFails \/ MapFails \/ EncoderUnusable

Next ==
    \/ MainStep
    \/ Compositor
    \/ WriterStep \/ EncoderErrors
    \/ VideoLock \/ AudioLock
    \/ AudioPacket \/ AudioKept \/ AudioWrite \/ AudioFails
    \/ Interrupt

Spec == Init /\ [][Next]_vars

(* The threads run and sound keeps coming.  A thread gets a lock that is   *)
(* free again and again.  Nothing is assumed about the compositor: it      *)
(* copies with damage unless told otherwise, so that a screen on which     *)
(* nothing changes sends no event and main stays in its dispatch.          *)
Fairness ==
    /\ WF_vars(MainStep)
    /\ WF_vars(WriterStep)
    /\ WF_vars(AudioPacket \/ AudioKept)
    /\ WF_vars(AudioWrite)
    /\ SF_vars(VideoLock)
    /\ SF_vars(AudioLock)
    /\ SF_vars(CloseWriter)

FairSpec == Spec /\ Fairness

-----------------------------------------------------------------------------
(* Properties.                                                             *)

Times == 0 .. LastFrame
Buffer == [released : BOOLEAN, available : BOOLEAN, frame : Times]

PoolTypeOK ==
    /\ bufsSize \in 2 .. PoolSize
    /\ bufs \in [0 .. bufsSize - 1 -> Buffer]
    /\ captureIdx \in 0 .. bufsSize - 1
    /\ encodeIdx \in 0 .. bufsSize - 1

MainTypeOK ==
    /\ backend \in Audio /\ hwupload \in MayMap /\ exit \in BOOLEAN
    /\ main \in {"top", "free", "copying", "dispatching", "joining", "ended"}
    /\ displayOk \in BOOLEAN /\ copyDone \in BOOLEAN
    /\ failures \in 0 .. MaxFailures + 1 /\ clock \in Times

ThreadTypeOK ==
    /\ writer \in {"none", "wait", "adding", "pending", "fmt", "write", "next",
                   "closing", "stuck", "done"}
    /\ synced \in BOOLEAN /\ encoded \in Seq(Times)
    /\ audio \in {"off", "idle", "pending", "fmt", "write", "ended"}
    /\ audioBase \in 0 .. LastFrame + 1

TypeOK == PoolTypeOK /\ MainTypeOK /\ ThreadTypeOK

(* The compositor never writes into a buffer that the encoder may still    *)
(* read.                                                                   *)
CaptureOwnsBuffer ==
    main \in {"copying", "dispatching"} =>
        /\ ~bufs[captureIdx].available
        /\ writer \in {"adding", "pending", "fmt", "write"} =>
              captureIdx # encodeIdx

(* The recording has no gap and no repetition: once the first frame is in, *)
(* every later one follows, in the order of its time.  (A connection that  *)
(* is lost makes main submit stale buffers.)                               *)
NoFrameLost ==
    displayOk =>
        \A i \in 1 .. Len(encoded) - 1 : encoded[i + 1] = encoded[i] + 1

(* One thread at a time writes to the muxer.                               *)
MuxerExclusive == ~(writer = "write" /\ audio = "write")

(* "If WLOG the audio thread is waiting for the video one, when the video  *)
(* becomes ready the audio thread will be the next one to obtain the lock": *)
(* neither thread overtakes the other where it waits for the second lock.  *)
NoOvertaking ==
    [][/\ (audio = "fmt" => ~(writer # "write" /\ writer' = "write"))
       /\ (writer = "fmt" => ~(audio # "write" /\ audio' = "write"))]_vars

(* While the recording goes on and frames wait, the writer releases one    *)
(* after the other.                                                        *)
Recording ==
    Running /\ displayOk /\ ~exit /\ writer \notin {"closing", "stuck", "done"}
FramesAreTaken == []Recording => []<>(Waiting = << >> \/ writer = "next")

(* When exit_main_loop is set and main is in neither of the two waits that *)
(* do not look at it (for a free buffer, and for an event), the program    *)
(* ends and the file is finished, whatever the writer and the audio thread *)
(* are doing, unless the encoder has locked itself.  An event that ends    *)
(* the dispatch leads here; that one arrives is not assumed.               *)
StopsWithRoom ==
    exit /\ main \notin {"free", "dispatching"} ~> main = "ended" \/ writer = "stuck"

(* The manual: "use Ctrl+C to stop".  Even if the compositor keeps sending *)
(* events, so that no dispatch lasts, and nothing fails: in a full pool    *)
(* main waits for a buffer that the writer, which has stopped, will not    *)
(* release.                                                                *)
Healthy    == displayOk /\ (writer \in {"closing", "stuck", "done"} => exit)
CtrlCStops ==
    []Healthy /\ []<>(main # "dispatching") => (exit ~> main = "ended")

(* The pool is a queue of frames, FrameQueue.                              *)
Queue == INSTANCE FrameQueue WITH Frames <- Times, queue <- Waiting

Implements == Queue!Spec
=============================================================================
