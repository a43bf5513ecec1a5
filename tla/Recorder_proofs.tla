--------------------------- MODULE Recorder_proofs ---------------------------
(***************************************************************************)
(* Theorems about Recorder for every size of the pool: types, the ownership *)
(* of buffers, the exclusion of the two threads at the muxer, the order of *)
(* the frames, and that the pool implements FrameQueue.                    *)
(***************************************************************************)
EXTENDS Recorder, Integers, SequenceTheorems, TLAPS

-----------------------------------------------------------------------------
(* The inductive invariant.                                                *)

Indices == 0 .. bufsSize - 1

(* A buffer is either free for capture or available to the encoder.        *)
Flags == \A i \in Indices : bufs[i].released <=> ~bufs[i].available

(* The buffer that the compositor writes into is free.                     *)
Copying ==
    /\ main \in {"copying", "dispatching"} => bufs[captureIdx].released
    /\ main = "dispatching" => ~copyDone

(* The writer holds a buffer that is available.                            *)
InHand == {"adding", "pending", "fmt", "write", "next"}
Holding == writer \in InHand => bufs[encodeIdx].available

(* No sound without a backend; one thread between the two locks, and one   *)
(* behind both.                                                            *)
Silent == backend = "none" => audio = "off"
Queued == ~(writer = "fmt" /\ audio = "fmt")
Locks  == Silent /\ Queued /\ MuxerExclusive

Pool == Flags /\ Copying /\ Holding
IInv == TypeOK /\ Pool /\ Locks

-----------------------------------------------------------------------------
(* The pool.                                                               *)

LEMMA Successor ==
    ASSUME NEW n \in Nat, n > 0, NEW i \in 0 .. n - 1
    PROVE  /\ (i + 1) % n \in 0 .. n - 1
           /\ (i + 1) % n = IF i + 1 = n THEN 0 ELSE i + 1
  <1>1. CASE i + 1 = n
    BY <1>1, SMT
  <1>2. CASE i + 1 < n
    BY <1>2, SMT
  <1> QED BY <1>1, <1>2

(* What next_capture does to the pool, in terms of the buffers: types and  *)
(* flags stay right, and the encoder's buffer stays the same one.          *)
LEMMA NextCaptureKeeps ==
    ASSUME PoolTypeOK, Flags, NextCapture
    PROVE  /\ PoolTypeOK'
           /\ Flags'
           /\ bufs[encodeIdx].available => bufs'[encodeIdx'].available
  <1> DEFINE submitted == [bufs EXCEPT ![captureIdx] = ForEncoder(bufs[captureIdx].frame)]
             after == captureIdx + 1
             next  == after % bufsSize
  <1>1. /\ submitted \in [Indices -> Buffer]
        /\ \A i \in Indices : submitted[i].released <=> ~submitted[i].available
        /\ bufs[encodeIdx].available => submitted[encodeIdx].available
    <2>1. /\ ForEncoder(bufs[captureIdx].frame) \in Buffer
          /\ ~ForEncoder(bufs[captureIdx].frame).released
          /\ ForEncoder(bufs[captureIdx].frame).available
      BY DEF ForEncoder, Buffer, PoolTypeOK
    <2> QED BY <2>1 DEF PoolTypeOK, Flags, Indices
  <1>2. next \in Indices
    BY Successor DEF PoolTypeOK, Indices
  <1> HIDE DEF submitted, next
  <1>3. CASE ~submitted[next].released /\ MayGrow
    <2>1. /\ bufsSize' = bufsSize + 1
          /\ bufs' = Inserted(submitted, after)
          /\ captureIdx' = after
          /\ encodeIdx' = EncoderMoves(after)
      BY <1>3 DEF NextCapture, submitted, next
    <2>2. /\ bufsSize' \in 2 .. PoolSize
          /\ captureIdx' \in 0 .. bufsSize' - 1
          /\ encodeIdx' \in 0 .. bufsSize' - 1
      BY <1>3, <2>1, PoolAssumption DEF PoolTypeOK, MayGrow, EncoderMoves
    <2>3. Fresh \in Buffer /\ Fresh.released /\ ~Fresh.available
      BY BoundAssumption DEF Fresh, ForCapture, Buffer, Times
    <2> DEFINE F(i) == CASE i < after -> submitted[i]
                         [] i = after -> Fresh
                         [] i > after -> submitted[i - 1]
    <2>4. bufs' = [i \in 0 .. bufsSize |-> F(i)]
      BY <2>1 DEF Inserted
    <2>5. /\ \A i \in 0 .. bufsSize : i < after => F(i) = submitted[i]
          /\ F(after) = Fresh
          /\ \A i \in 0 .. bufsSize : i > after => F(i) = submitted[i - 1]
      BY DEF PoolTypeOK
    <2> HIDE DEF F
    <2>6. ASSUME NEW i \in 0 .. bufsSize
          PROVE  F(i) \in Buffer /\ (F(i).released <=> ~F(i).available)
      <3>1. CASE i < after
        BY <1>1, <2>5, <3>1 DEF Indices, PoolTypeOK
      <3>2. CASE i = after
        BY <2>3, <2>5, <3>2
      <3>3. CASE i > after
        <4>1. i - 1 \in Indices /\ F(i) = submitted[i - 1]
          BY <2>5, <3>3 DEF Indices, PoolTypeOK
        <4> QED BY <1>1, <4>1
      <3> QED BY <3>1, <3>2, <3>3 DEF PoolTypeOK
    <2>7. bufsSize' - 1 = bufsSize
      BY <2>1 DEF PoolTypeOK
    <2>8. PoolTypeOK' /\ Flags'
      BY <2>2, <2>4, <2>6, <2>7 DEF PoolTypeOK, Flags, Indices
    <2>9. bufs'[encodeIdx'] = submitted[encodeIdx]
      <3>1. CASE encodeIdx >= after
        BY <2>1, <2>4, <2>5, <3>1 DEF EncoderMoves, PoolTypeOK
      <3>2. CASE encodeIdx < after
        BY <2>1, <2>4, <2>5, <3>2 DEF EncoderMoves, PoolTypeOK
      <3> QED BY <3>1, <3>2 DEF PoolTypeOK
    <2> QED BY <1>1, <2>8, <2>9
  <1>4. CASE ~(~submitted[next].released /\ MayGrow)
    <2>1. /\ bufs' = submitted /\ captureIdx' = next
          /\ bufsSize' = bufsSize /\ encodeIdx' = encodeIdx
      BY <1>4 DEF NextCapture, submitted, next
    <2> QED BY <1>1, <1>2, <2>1 DEF PoolTypeOK, Flags, Indices
  <1> QED BY <1>3, <1>4

LEMMA NextEncodeKeeps ==
    ASSUME PoolTypeOK, Flags, NextEncode
    PROVE  /\ PoolTypeOK'
           /\ Flags'
           /\ bufs[captureIdx].released => bufs'[captureIdx'].released
  <1>1. (encodeIdx + 1) % bufsSize \in 0 .. bufsSize - 1
    BY Successor DEF PoolTypeOK
  <1>2. /\ ForCapture(bufs[encodeIdx].frame) \in Buffer
        /\ ForCapture(bufs[encodeIdx].frame).released
        /\ ~ForCapture(bufs[encodeIdx].frame).available
    BY DEF ForCapture, Buffer, PoolTypeOK
  <1> QED BY <1>1, <1>2 DEF NextEncode, PoolTypeOK, Flags, Indices

(* A step that leaves the pool alone.                                      *)
LEMMA PoolSame ==
    ASSUME UNCHANGED poolVars
    PROVE  /\ PoolTypeOK => PoolTypeOK'
           /\ Flags => Flags'
           /\ bufs[captureIdx].released => bufs'[captureIdx'].released
           /\ bufs[encodeIdx].available => bufs'[encodeIdx'].available
  BY DEF poolVars, PoolTypeOK, Flags, Indices

-----------------------------------------------------------------------------
(* The steps of main and of the compositor.                                *)

LEMMA InitHolds == Init => IInv
  <1> SUFFICES ASSUME Init PROVE IInv
    OBVIOUS
  <1>1. Fresh \in Buffer /\ Fresh.released /\ ~Fresh.available
    BY BoundAssumption DEF Fresh, ForCapture, Buffer, Times
  <1>2. PoolTypeOK /\ Flags
    BY <1>1, PoolAssumption DEF Init, PoolTypeOK, Flags, Indices
  <1>3. MainTypeOK /\ ThreadTypeOK
    BY FailureAssumption, BoundAssumption, ChoiceAssumption
       DEF Init, MainTypeOK, ThreadTypeOK, Times
  <1>4. Copying /\ Holding /\ Locks
    BY DEF Init, Copying, Holding, InHand, Locks, Silent, Queued, MuxerExclusive
  <1> QED BY <1>2, <1>3, <1>4 DEF IInv, TypeOK, Pool

(* Steps that touch neither the pool, the writer, nor the audio thread, and *)
(* do not begin to copy.                                                   *)
LEMMA MainKeeps ==
    ASSUME IInv, MainTypeOK', UNCHANGED << poolVars, writer, synced, encoded, audioVars >>,
           backend' = backend,
           main' \in {"copying", "dispatching"} => main \in {"copying", "dispatching"},
           main' = "dispatching" => ~copyDone'
    PROVE  IInv'
  <1>1. PoolTypeOK' /\ Flags'
    BY PoolSame DEF IInv, TypeOK, Pool
  <1>2. ThreadTypeOK'
    BY DEF IInv, TypeOK, ThreadTypeOK, audioVars
  <1>3. Copying' /\ Holding'
    BY PoolSame DEF IInv, Pool, Copying, Holding, InHand
  <1>4. Locks'
    BY DEF IInv, Locks, Silent, Queued, MuxerExclusive, audioVars
  <1> QED BY <1>1, <1>2, <1>3, <1>4 DEF IInv, TypeOK, Pool

LEMMA MainStepKeeps ==
    ASSUME IInv, MainStep \/ Compositor \/ Interrupt \/ EncoderUnusable
    PROVE  IInv'
  <1> USE DEF choice, mainVars
  <1>0. MainTypeOK
    BY DEF IInv, TypeOK
  <1>1. CASE LoopTest
    <2>1. MainTypeOK'
      BY <1>0, <1>1 DEF LoopTest, MainTypeOK
    <2> QED BY <1>1, <2>1, MainKeeps DEF LoopTest
  <1>2. CASE RequestFrame
    <2>1. MainTypeOK'
      BY <1>0, <1>2 DEF RequestFrame, MainTypeOK
    <2>2. PoolTypeOK' /\ Flags' /\ bufs'[captureIdx'].released
      BY <1>2, PoolSame DEF RequestFrame, IInv, TypeOK, Pool
    <2>3. ThreadTypeOK' /\ Locks'
      BY <1>2 DEF RequestFrame, IInv, TypeOK, ThreadTypeOK, Locks, Silent,
                  Queued, MuxerExclusive, audioVars
    <2>4. Copying' /\ Holding'
      BY <1>2, <2>2, PoolSame DEF RequestFrame, IInv, Pool, Copying, Holding, InHand
    <2> QED BY <2>1, <2>2, <2>3, <2>4 DEF IInv, TypeOK, Pool
  <1>13. CASE Dispatch
    <2>1. MainTypeOK'
      BY <1>0, <1>13 DEF Dispatch, MainTypeOK
    <2> QED BY <1>13, <2>1, MainKeeps DEF Dispatch
  <1>14. CASE OtherEvent
    <2>1. MainTypeOK'
      BY <1>0, <1>14 DEF OtherEvent, MainTypeOK
    <2> QED BY <1>14, <2>1, MainKeeps DEF OtherEvent, Dispatching
  <1>3. CASE StopCapture
    <2>1. MainTypeOK'
      BY <1>0, <1>3 DEF StopCapture, MainTypeOK
    <2> QED BY <1>3, <2>1, MainKeeps DEF StopCapture
  <1>4. CASE SubmitFrame
    <2>1. MainTypeOK'
      BY <1>0, <1>4 DEF SubmitFrame, MainTypeOK
    <2>2. /\ PoolTypeOK' /\ Flags'
          /\ bufs[encodeIdx].available => bufs'[encodeIdx'].available
      BY <1>4, NextCaptureKeeps DEF SubmitFrame, IInv, TypeOK, Pool
    <2>3. ThreadTypeOK' /\ Locks'
      BY <1>4 DEF SubmitFrame, IInv, TypeOK, ThreadTypeOK, Locks, Silent,
                  Queued, MuxerExclusive, audioVars
    <2>4. Copying' /\ Holding'
      BY <1>4, <2>2 DEF SubmitFrame, IInv, Pool, Copying, Holding, InHand
    <2> QED BY <2>1, <2>2, <2>3, <2>4 DEF IInv, TypeOK, Pool
  <1>5. CASE Join
    <2>1. MainTypeOK'
      BY <1>0, <1>5 DEF Join, MainTypeOK
    <2> QED BY <1>5, <2>1, MainKeeps DEF Join
  <1>6. CASE FrameReady
    <2>1. MainTypeOK' /\ clock + 1 \in Times
      BY <1>0, <1>6, FailureAssumption, BoundAssumption
         DEF FrameReady, Dispatching, MainTypeOK, Times
    <2> DEFINE shot == WithFrame(bufs[captureIdx], clock + 1)
    <2>2. /\ shot \in Buffer
          /\ shot.released = bufs[captureIdx].released
          /\ shot.available = bufs[captureIdx].available
      BY <2>1 DEF IInv, TypeOK, PoolTypeOK, Buffer, WithFrame
    <2>3. bufs' = [bufs EXCEPT ![captureIdx] = shot]
      BY <1>6 DEF FrameReady
    <2> HIDE DEF shot
    <2>4. PoolTypeOK' /\ Flags'
      BY <1>6, <2>2, <2>3 DEF FrameReady, IInv, TypeOK, PoolTypeOK, Pool, Flags, Indices
    <2>5. ThreadTypeOK' /\ Locks'
      BY <1>6 DEF FrameReady, IInv, TypeOK, ThreadTypeOK, Locks, Silent,
                  Queued, MuxerExclusive, audioVars
    <2>6. Copying' /\ Holding'
      BY <1>6, <2>2, <2>3 DEF FrameReady, Dispatching, IInv, TypeOK, PoolTypeOK,
                              Pool, Copying, Holding, InHand
    <2> QED BY <2>1, <2>4, <2>5, <2>6 DEF IInv, TypeOK, Pool
  <1>7. CASE FrameFailed
    <2>1. MainTypeOK'
      BY <1>0, <1>7, FailureAssumption DEF FrameFailed, MainTypeOK
    <2> QED BY <1>7, <2>1, MainKeeps DEF FrameFailed, Dispatching
  <1>8. CASE BufferFailed
    <2>1. MainTypeOK'
      BY <1>0, <1>8 DEF BufferFailed, MainTypeOK
    <2> QED BY <1>8, <2>1, MainKeeps DEF BufferFailed, Dispatching
  <1>9. CASE BufferUnusable
    <2>1. MainTypeOK'
      BY <1>0, <1>9 DEF BufferUnusable, MainTypeOK
    <2> QED BY <1>9, <2>1, MainKeeps DEF BufferUnusable
  <1>10. CASE DisplayLost
    <2>1. MainTypeOK'
      BY <1>0, <1>10 DEF DisplayLost, MainTypeOK
    <2> QED BY <1>10, <2>1, MainKeeps DEF DisplayLost, IInv, Pool, Copying
  <1>11. CASE Interrupt
    <2>1. MainTypeOK'
      BY <1>0, <1>11 DEF Interrupt, MainTypeOK
    <2> QED BY <1>11, <2>1, MainKeeps DEF Interrupt, IInv, Pool, Copying
  <1>12. CASE EncoderUnusable
    <2>1. MainTypeOK'
      BY <1>0, <1>12 DEF EncoderUnusable, MainTypeOK
    <2> QED BY <1>12, <2>1, MainKeeps DEF EncoderUnusable
  <1> QED
    BY <1>1, <1>2, <1>3, <1>4, <1>5, <1>6, <1>7, <1>8, <1>9, <1>10, <1>11, <1>12,
       <1>13, <1>14 DEF MainStep, Compositor

-----------------------------------------------------------------------------
(* The steps of the writer and of the audio thread.                        *)

(* Steps of the two threads that leave the pool and main alone.            *)
LEMMA ThreadsKeep ==
    ASSUME IInv, UNCHANGED << choice, mainVars, poolVars >>, exit' \in BOOLEAN,
           ThreadTypeOK', Locks',
           writer' \in InHand =>
               writer \in InHand \/ bufs[encodeIdx].available
    PROVE  IInv'
  <1>1. PoolTypeOK' /\ Flags'
    BY PoolSame DEF IInv, TypeOK, Pool
  <1>2. MainTypeOK'
    BY DEF IInv, TypeOK, MainTypeOK, choice, mainVars
  <1>3. Copying'
    BY PoolSame DEF IInv, Pool, Copying, mainVars
  <1>4. Holding'
    BY PoolSame DEF IInv, Pool, Holding
  <1> QED BY <1>1, <1>2, <1>3, <1>4 DEF IInv, TypeOK, Pool

LEMMA WriterKeeps ==
    ASSUME IInv, WriterStep \/ AddFrameFails \/ MapFails \/ VideoLock
    PROVE  IInv'
  <1>0. ThreadTypeOK /\ Locks /\ exit \in BOOLEAN /\ clock \in 0 .. LastFrame
    BY DEF IInv, TypeOK, MainTypeOK, Times
  <1>1. CASE TakeFrame
    <2>1. /\ UNCHANGED << choice, mainVars, poolVars, synced, encoded, exit >>
          /\ writer = "wait" /\ writer' = "adding" /\ bufs[encodeIdx].available
          /\ UNCHANGED audioVars \/ (FirstFrame /\ StartAudio)
      BY <1>1 DEF TakeFrame, WriterAt
    <2>2. /\ audio' = audio \/ (backend # "none" /\ audio' = "idle")
          /\ audioBase' \in 0 .. LastFrame + 1
      <3>1. CASE UNCHANGED audioVars
        BY <1>0, <3>1 DEF audioVars, ThreadTypeOK
      <3>2. CASE StartAudio
        BY <1>0, <3>2, BoundAssumption DEF StartAudio, audioVars, ThreadTypeOK
      <3> QED BY <2>1, <3>1, <3>2
    <2>3. ThreadTypeOK' /\ Locks'
      BY <1>0, <2>1, <2>2 DEF ThreadTypeOK, Locks, Silent, Queued, MuxerExclusive, choice
    <2> QED BY <1>0, <2>1, <2>3, ThreadsKeep
  <1>2. CASE DropFrame
    <2>1. ThreadTypeOK' /\ Locks'
      BY <1>0, <1>2 DEF DropFrame, WriterAt, ThreadTypeOK, Locks, Silent, Queued,
                        MuxerExclusive, choice, audioVars
    <2> QED BY <1>0, <1>2, <2>1, ThreadsKeep DEF DropFrame, WriterAt, InHand
  <1>3. CASE AddFrame
    <2>1. Current \in Times
      BY DEF IInv, TypeOK, PoolTypeOK, Buffer, Current
    <2>2. encoded' \in Seq(Times) /\ synced' \in BOOLEAN
      BY <1>0, <1>3, <2>1 DEF AddFrame, ThreadTypeOK
    <2>3. /\ writer = "adding" /\ writer' \in {"next", "write", "pending"}
          /\ writer' = "write" => backend = "none"
          /\ UNCHANGED << choice, mainVars, poolVars, audioVars, exit >>
      BY <1>3 DEF AddFrame, WriterAt
    <2>4. ThreadTypeOK' /\ Locks'
      BY <1>0, <2>2, <2>3 DEF ThreadTypeOK, Locks, Silent, Queued, MuxerExclusive,
                              choice, audioVars
    <2> QED BY <1>0, <2>3, <2>4, ThreadsKeep DEF InHand
  <1>4. CASE ReleaseFrame
    <2>1. /\ PoolTypeOK' /\ Flags'
          /\ bufs[captureIdx].released => bufs'[captureIdx'].released
      <3>1. captureIdx' = captureIdx
        BY <1>4 DEF ReleaseFrame, NextEncode
      <3> QED BY <1>4, <3>1, NextEncodeKeeps DEF ReleaseFrame, IInv, TypeOK, Pool
    <2>2. MainTypeOK' /\ ThreadTypeOK' /\ Locks'
      BY <1>0, <1>4 DEF ReleaseFrame, WriterAt, IInv, TypeOK, MainTypeOK,
                        ThreadTypeOK, Locks, Silent, Queued, MuxerExclusive,
                        choice, mainVars, audioVars
    <2>3. Copying' /\ Holding'
      BY <1>4, <2>1 DEF ReleaseFrame, IInv, Pool, Copying, Holding, InHand, mainVars
    <2> QED BY <2>1, <2>2, <2>3 DEF IInv, TypeOK, Pool
  <1>5. CASE LeaveWriteLoop
    <2>1. ThreadTypeOK' /\ Locks'
      BY <1>0, <1>5 DEF LeaveWriteLoop, WriterAt, ThreadTypeOK, Locks, Silent,
                        Queued, MuxerExclusive, choice, audioVars
    <2> QED BY <1>0, <1>5, <2>1, ThreadsKeep DEF LeaveWriteLoop, InHand
  <1>6. CASE CloseWriter
    <2>1. ThreadTypeOK' /\ Locks'
      BY <1>0, <1>6 DEF CloseWriter, WriterAt, ThreadTypeOK, Locks, Silent,
                        Queued, MuxerExclusive, choice
    <2> QED BY <1>0, <1>6, <2>1, ThreadsKeep DEF CloseWriter, InHand
  <1>7. CASE VideoWrite
    <2>1. ThreadTypeOK' /\ Locks'
      BY <1>0, <1>7 DEF VideoWrite, WriterAt, ThreadTypeOK, Locks, Silent,
                        Queued, MuxerExclusive, choice, audioVars
    <2> QED BY <1>0, <1>7, <2>1, ThreadsKeep DEF VideoWrite, WriterAt, InHand
  <1>8. CASE AddFrameFails
    <2>1. ThreadTypeOK' /\ Locks'
      BY <1>0, <1>8 DEF AddFrameFails, WriterAt, ThreadTypeOK, Locks, Silent,
                        Queued, MuxerExclusive, choice, audioVars
    <2> QED BY <1>0, <1>8, <2>1, ThreadsKeep DEF AddFrameFails, InHand
  <1>9. CASE MapFails
    <2>1. ThreadTypeOK' /\ Locks'
      BY <1>0, <1>9 DEF MapFails, WriterAt, ThreadTypeOK, Locks, Silent,
                        Queued, MuxerExclusive, choice, audioVars
    <2> QED BY <1>0, <1>9, <2>1, ThreadsKeep DEF MapFails, InHand
  <1>10. CASE VideoLock
    <2>1. /\ \/ writer = "pending" /\ PendingFree /\ writer' = "fmt"
             \/ writer = "fmt" /\ FmtFree /\ writer' = "write"
          /\ UNCHANGED << choice, exit, mainVars, poolVars, synced, encoded, audioVars >>
      BY <1>10 DEF VideoLock, WriterAt
    <2>2. ThreadTypeOK' /\ Locks'
      BY <1>0, <2>1 DEF PendingFree, FmtFree, ThreadTypeOK, Locks, Silent, Queued,
                        MuxerExclusive, choice, audioVars
    <2> QED BY <1>0, <2>1, <2>2, ThreadsKeep DEF InHand
  <1> QED BY <1>1, <1>2, <1>3, <1>4, <1>5, <1>6, <1>7, <1>8, <1>9, <1>10 DEF WriterStep

LEMMA AudioKeeps ==
    ASSUME IInv, AudioLock \/ AudioPacket \/ AudioKept \/ AudioWrite \/ AudioFails
    PROVE  IInv'
  <1>0. ThreadTypeOK /\ Locks /\ exit \in BOOLEAN /\ clock \in 0 .. LastFrame
    BY DEF IInv, TypeOK, MainTypeOK, Times
  <1>1. /\ UNCHANGED << choice, mainVars, poolVars, writer, synced, encoded >>
        /\ audio # "off" /\ exit' \in BOOLEAN
    BY <1>0 DEF AudioLock, AudioPacket, AudioKept, AudioWrite, AudioFails, AudioAt
  <1>2. /\ audio' \in {"idle", "pending", "fmt", "write", "ended"}
        /\ audio' = "fmt" => PendingFree
        /\ audio' = "write" => FmtFree
        /\ audioBase' \in 0 .. LastFrame + 1
    <2>1. CASE AudioTurn
      BY <1>0, <2>1, BoundAssumption DEF AudioTurn, ThreadTypeOK
    <2>2. CASE AudioLock \/ AudioPacket \/ AudioFails
      BY <1>0, <2>2 DEF AudioLock, AudioPacket, AudioFails, AudioAt, ThreadTypeOK
    <2> QED BY <2>1, <2>2 DEF AudioKept, AudioWrite
  <1>3. ThreadTypeOK'
    BY <1>0, <1>1, <1>2 DEF ThreadTypeOK
  <1>4. Locks'
    BY <1>0, <1>1, <1>2 DEF Locks, Silent, Queued, MuxerExclusive, PendingFree,
                            FmtFree, choice
  <1> QED BY <1>1, <1>3, <1>4, ThreadsKeep

LEMMA NextKeeps == IInv /\ [Next]_vars => IInv'
  <1> SUFFICES ASSUME IInv, [Next]_vars PROVE IInv'
    OBVIOUS
  <1>1. CASE MainStep \/ Compositor \/ Interrupt \/ EncoderUnusable
    BY <1>1, MainStepKeeps
  <1>2. CASE WriterStep \/ AddFrameFails \/ MapFails \/ VideoLock
    BY <1>2, WriterKeeps
  <1>3. CASE AudioLock \/ AudioPacket \/ AudioKept \/ AudioWrite \/ AudioFails
    BY <1>3, AudioKeeps
  <1>4. CASE UNCHANGED vars
    <2>1. /\ UNCHANGED << choice, mainVars, poolVars >> /\ exit' = exit
          /\ UNCHANGED << writer, synced, encoded, audioVars >>
      BY <1>4 DEF vars
    <2>2. ThreadTypeOK' /\ Locks'
      BY <2>1 DEF IInv, TypeOK, ThreadTypeOK, Locks, Silent, Queued,
                  MuxerExclusive, choice, audioVars
    <2>3. exit' \in BOOLEAN
      BY <2>1 DEF IInv, TypeOK, MainTypeOK
    <2> QED BY <2>1, <2>2, <2>3, ThreadsKeep
  <1> QED BY <1>1, <1>2, <1>3, <1>4 DEF Next, EncoderErrors

LEMMA Invariance == Spec => []IInv
  BY InitHolds, NextKeeps, PTL DEF Spec

-----------------------------------------------------------------------------
(* The ring of buffers as a queue.                                         *)

(* How far i is behind e, in a ring of n; the k-th one from e.             *)
Off(n, e, i) == IF i >= e THEN i - e ELSE i + n - e
Nth(n, e, k) == IF e + k < n THEN e + k ELSE e + k - n

LEMMA Modulo ==
    ASSUME NEW n \in Nat, n > 0, NEW x \in 0 .. 2 * n - 1
    PROVE  x % n = IF x < n THEN x ELSE x - n
  <1>1. CASE x < n
    BY <1>1, SMT
  <1>2. CASE x >= n
    <2>1. x - n \in 0 .. n - 1 /\ x = (x - n) + n
      BY <1>2
    <2> QED BY <1>2, <2>1, SMT
  <1> QED BY <1>1, <1>2

(* Filled and Waiting of any pool.                                         *)
FilledOf(n, c, e, b) ==
    IF b[e].available /\ c = e THEN n ELSE (c + n - e) % n

LEMMA FilledFacts ==
    ASSUME NEW n \in Nat, n > 1, NEW c \in 0 .. n - 1, NEW e \in 0 .. n - 1, NEW b
    PROVE  /\ FilledOf(n, c, e, b) \in 0 .. n
           /\ c # e => FilledOf(n, c, e, b) = Off(n, e, c)
           /\ c = e /\ b[e].available => FilledOf(n, c, e, b) = n
           /\ c = e /\ ~b[e].available => FilledOf(n, c, e, b) = 0
  <1>1. c + n - e \in 0 .. 2 * n - 1
    OBVIOUS
  <1>2. (c + n - e) % n = IF c + n - e < n THEN c + n - e ELSE c + n - e - n
    BY <1>1, Modulo
  <1> QED BY <1>2 DEF FilledOf, Off

LEMMA NthFacts ==
    ASSUME NEW n \in Nat, n > 1, NEW e \in 0 .. n - 1, NEW k \in 0 .. n - 1
    PROVE  /\ (e + k) % n = Nth(n, e, k)
           /\ Nth(n, e, k) \in 0 .. n - 1
           /\ Off(n, e, Nth(n, e, k)) = k
  <1>1. e + k \in 0 .. 2 * n - 1
    OBVIOUS
  <1>2. (e + k) % n = IF e + k < n THEN e + k ELSE e + k - n
    BY <1>1, Modulo
  <1> QED BY <1>2 DEF Nth, Off

(* The available buffers are the first m from e; those that are handled    *)
(* and shown to the encoder next are these.                                *)
Ring(n, c, e, b) ==
    \A i \in 0 .. n - 1 : b[i].available <=> Off(n, e, i) < FilledOf(n, c, e, b)

Frame(n, e, b, k) == b[Nth(n, e, k)].frame

LEMMA CaptureBehind ==
    ASSUME NEW n \in Nat, n > 1, NEW c \in 0 .. n - 1, NEW e \in 0 .. n - 1, NEW b,
           Ring(n, c, e, b), ~b[c].available
    PROVE  /\ FilledOf(n, c, e, b) < n
           /\ Off(n, e, c) = FilledOf(n, c, e, b)
           /\ Nth(n, e, FilledOf(n, c, e, b)) = c
  <1>1. /\ FilledOf(n, c, e, b) \in 0 .. n
        /\ c # e => FilledOf(n, c, e, b) = Off(n, e, c)
        /\ c = e => FilledOf(n, c, e, b) = 0
    BY FilledFacts
  <1> QED BY <1>1 DEF Off, Nth

(* The capture's buffer becomes available and the capture moves on.        *)
LEMMA Submitted ==
    ASSUME NEW n \in Nat, n > 1, NEW c \in 0 .. n - 1, NEW e \in 0 .. n - 1,
           NEW b, NEW a, NEW d \in 0 .. n - 1,
           d = Nth(n, c, 1),
           Ring(n, c, e, b), ~b[c].available,
           a[c].available, a[c].frame = b[c].frame,
           \A i \in 0 .. n - 1 : i # c => a[i] = b[i]
    PROVE  /\ FilledOf(n, d, e, a) = FilledOf(n, c, e, b) + 1
           /\ Ring(n, d, e, a)
           /\ \A k \in 0 .. FilledOf(n, c, e, b) - 1 : Frame(n, e, a, k) = Frame(n, e, b, k)
           /\ Frame(n, e, a, FilledOf(n, c, e, b)) = b[c].frame
  <1> DEFINE m == FilledOf(n, c, e, b)
  <1>1. m \in 0 .. n - 1 /\ Off(n, e, c) = m /\ Nth(n, e, m) = c
    BY CaptureBehind, FilledFacts
  <1>2. a[e].available <=> (m > 0 \/ e = c)
    <2>1. CASE e = c
      BY <2>1
    <2>2. CASE e # c
      <3>1. b[e].available <=> Off(n, e, e) < m
        BY DEF Ring
      <3> QED BY <2>2, <3>1, <1>1 DEF Off
    <2> QED BY <2>1, <2>2
  <1>3. FilledOf(n, d, e, a) = m + 1
    <2>1. /\ d # e => FilledOf(n, d, e, a) = Off(n, e, d)
          /\ d = e /\ a[e].available => FilledOf(n, d, e, a) = n
      BY FilledFacts
    <2>2. d # e => Off(n, e, d) = m + 1
      BY <1>1 DEF Off, Nth
    <2>3. d = e => m + 1 = n /\ m > 0
      BY <1>1 DEF Off, Nth
    <2> QED BY <2>1, <2>2, <2>3, <1>2
  <1>4. Ring(n, d, e, a)
    <2> SUFFICES ASSUME NEW i \in 0 .. n - 1
                 PROVE  a[i].available <=> Off(n, e, i) < m + 1
      BY <1>3 DEF Ring
    <2>1. CASE i = c
      BY <2>1, <1>1
    <2>2. CASE i # c
      <3>1. a[i] = b[i] /\ (b[i].available <=> Off(n, e, i) < m)
        BY <2>2 DEF Ring
      <3>2. Off(n, e, i) # m
        BY <2>2, <1>1 DEF Off
      <3>3. Off(n, e, i) \in Int
        BY DEF Off
      <3> QED BY <3>1, <3>2, <3>3, <1>1
    <2> QED BY <2>1, <2>2
  <1>5. ASSUME NEW k \in 0 .. m - 1 PROVE Frame(n, e, a, k) = Frame(n, e, b, k)
    <2>1. Nth(n, e, k) \in 0 .. n - 1 /\ Off(n, e, Nth(n, e, k)) = k
      BY <1>1, NthFacts
    <2>2. Nth(n, e, k) # c
      BY <2>1, <1>1
    <2> QED BY <2>1, <2>2 DEF Frame
  <1>6. Frame(n, e, a, m) = b[c].frame
    BY <1>1 DEF Frame
  <1> QED BY <1>3, <1>4, <1>5, <1>6

(* A pool that is full but for the capture's buffer gets a free one behind *)
(* it, and the encoder's index moves with its buffer.                      *)
Grows(n, c, e, b, p, d, g, a) ==
    /\ p = n + 1 /\ d = c + 1 /\ g = IF e >= d THEN e + 1 ELSE e
    /\ ~b[c].available /\ b[Nth(n, c, 1)].available
    /\ a[c].available /\ a[c].frame = b[c].frame /\ ~a[d].available
    /\ \A i \in 0 .. n - 1 : i < c => a[i] = b[i]
    /\ \A i \in 0 .. n : i > d => a[i] = b[i - 1]

LEMMA Grown ==
    ASSUME NEW n \in Nat, n > 1, NEW c \in 0 .. n - 1, NEW e \in 0 .. n - 1,
           NEW b, NEW a, NEW g, NEW p, NEW d,
           Ring(n, c, e, b), Grows(n, c, e, b, p, d, g, a)
    PROVE  /\ FilledOf(p, d, g, a) = FilledOf(n, c, e, b) + 1
           /\ Ring(p, d, g, a)
           /\ \A k \in 0 .. FilledOf(n, c, e, b) - 1 :
                 Frame(p, g, a, k) = Frame(n, e, b, k)
           /\ Frame(p, g, a, FilledOf(n, c, e, b)) = b[c].frame
  <1> USE DEF Grows
  <1> DEFINE m == FilledOf(n, c, e, b)
  <1>1. m \in 0 .. n - 1 /\ Off(n, e, c) = m /\ Nth(n, e, m) = c
    BY CaptureBehind, FilledFacts
  <1>2. Nth(n, c, 1) \in 0 .. n - 1 /\ Off(n, e, Nth(n, c, 1)) < m
    <2>1. Nth(n, c, 1) \in 0 .. n - 1
      BY DEF Nth
    <2> QED BY <2>1 DEF Ring
  <1>3. m = n - 1 /\ e = Nth(n, c, 1)
    BY <1>1, <1>2 DEF Off, Nth
  <1> HIDE DEF m
  <1>4. /\ g \in 0 .. n /\ g # c + 1 /\ g = IF c = n - 1 THEN 0 ELSE c + 2
        /\ Off(n + 1, g, c + 1) = n /\ Off(n + 1, g, c) = n - 1
    BY <1>3 DEF Nth, Off
  <1>5. FilledOf(n + 1, c + 1, g, a) = n
    <2>1. n + 1 \in Nat /\ n + 1 > 1 /\ c + 1 \in 0 .. n + 1 - 1 /\ g \in 0 .. n + 1 - 1
      BY <1>4
    <2> QED BY <2>1, <1>4, FilledFacts
  <1>6. ASSUME NEW i \in 0 .. n, i # c + 1 PROVE a[i].available
    <2>1. CASE i = c
      BY <2>1
    <2>2. CASE i < c
      <3>1. i \in 0 .. n - 1 /\ Off(n, e, i) < m
        BY <2>2, <1>3 DEF Off, Nth
      <3> QED BY <3>1, <2>2 DEF Ring, m
    <2>3. CASE i > c + 1
      <3>1. i - 1 \in 0 .. n - 1 /\ Off(n, e, i - 1) < m
        BY <2>3, <1>3 DEF Off, Nth
      <3>2. a[i] = b[i - 1]
        BY <2>3
      <3> QED BY <3>1, <3>2 DEF Ring, m
    <2> QED BY <2>1, <2>2, <2>3, <1>6
  <1>7. Ring(n + 1, c + 1, g, a)
    <2> SUFFICES ASSUME NEW i \in 0 .. n + 1 - 1
                 PROVE  a[i].available <=> Off(n + 1, g, i) < n
      BY <1>5 DEF Ring
    <2>1. i # c + 1 => Off(n + 1, g, i) < n
      BY <1>4 DEF Off
    <2>2. i = c + 1 => Off(n + 1, g, i) = n
      BY <1>4
    <2> QED BY <2>1, <2>2, <1>6
  <1>8. ASSUME NEW k \in 0 .. n - 2 PROVE Frame(n + 1, g, a, k) = Frame(n, e, b, k)
    <2> DEFINE i == Nth(n + 1, g, k)
               j == Nth(n, e, k)
    <2>1. \/ i < c /\ j = i
          \/ i > c + 1 /\ j = i - 1
      BY <1>3, <1>4 DEF Nth
    <2>2. i \in 0 .. n
      BY <1>4 DEF Nth
    <2> HIDE DEF i, j
    <2>3. a[i] = b[j]
      BY <2>1, <2>2
    <2> QED BY <2>3 DEF i, j, Frame
  <1>9. Nth(n + 1, g, n - 1) = c
    BY <1>4 DEF Nth
  <1>10. FilledOf(n + 1, c + 1, g, a) = m + 1
    BY <1>3, <1>5
  <1>11. Frame(n + 1, g, a, m) = b[c].frame
    BY <1>3, <1>9 DEF Frame
  <1>12. \A k \in 0 .. m - 1 : Frame(n + 1, g, a, k) = Frame(n, e, b, k)
    BY <1>3, <1>8
  <1> QED BY <1>7, <1>10, <1>11, <1>12 DEF m

(* The encoder's buffer becomes free and the encoder moves on.             *)
LEMMA Released ==
    ASSUME NEW n \in Nat, n > 1, NEW c \in 0 .. n - 1, NEW e \in 0 .. n - 1,
           NEW b, NEW a, NEW d \in 0 .. n - 1,
           d = Nth(n, e, 1),
           Ring(n, c, e, b), b[e].available,
           ~a[e].available,
           \A i \in 0 .. n - 1 : i # e => a[i] = b[i]
    PROVE  /\ FilledOf(n, c, e, b) > 0
           /\ FilledOf(n, c, d, a) = FilledOf(n, c, e, b) - 1
           /\ Ring(n, c, d, a)
           /\ \A k \in 0 .. FilledOf(n, c, e, b) - 2 :
                 Frame(n, d, a, k) = Frame(n, e, b, k + 1)
  <1> DEFINE m == FilledOf(n, c, e, b)
  <1>1. m \in 1 .. n /\ (c # e => m = Off(n, e, c)) /\ (c = e => m = n)
    <2>1. /\ m \in 0 .. n /\ (c # e => m = Off(n, e, c)) /\ (c = e => m = n)
      BY FilledFacts
    <2> QED BY <2>1 DEF Off
  <1> HIDE DEF m
  <1>2. \A i \in 0 .. n - 1 : b[i].available <=> Off(n, e, i) < m
    BY DEF Ring, m
  <1>3. /\ c # d => Off(n, d, c) = m - 1
        /\ c = d => m = 1
    BY <1>1 DEF Off, Nth
  <1>4. d # e
    BY DEF Nth
  <1>5. c = d => ~a[d].available
    <2> SUFFICES ASSUME c = d PROVE ~a[d].available
      OBVIOUS
    <2>1. Off(n, e, d) = 1 /\ m = 1
      BY <1>3 DEF Off, Nth
    <2> QED BY <2>1, <1>2, <1>4
  <1>6. FilledOf(n, c, d, a) = m - 1
    <2>1. /\ c # d => FilledOf(n, c, d, a) = Off(n, d, c)
          /\ c = d /\ ~a[d].available => FilledOf(n, c, d, a) = 0
      BY FilledFacts
    <2> QED BY <2>1, <1>3, <1>5
  <1>7. Ring(n, c, d, a)
    <2> SUFFICES ASSUME NEW i \in 0 .. n - 1
                 PROVE  a[i].available <=> Off(n, d, i) < m - 1
      BY <1>6 DEF Ring
    <2>1. CASE i = e
      <3>1. Off(n, d, i) = n - 1
        BY <2>1 DEF Off, Nth
      <3> QED BY <2>1, <3>1, <1>1
    <2>2. CASE i # e
      <3>1. Off(n, d, i) = Off(n, e, i) - 1 /\ Off(n, e, i) \in Int
        BY <2>2 DEF Off, Nth
      <3>2. a[i].available <=> Off(n, e, i) < m
        BY <2>2, <1>2
      <3> QED BY <3>1, <3>2, <1>1
    <2> QED BY <2>1, <2>2
  <1>8. ASSUME NEW k \in 0 .. m - 2 PROVE Frame(n, d, a, k) = Frame(n, e, b, k + 1)
    <2>1. Nth(n, d, k) = Nth(n, e, k + 1) /\ Nth(n, d, k) # e /\ Nth(n, d, k) \in 0 .. n - 1
      BY <1>1 DEF Nth
    <2> QED BY <2>1 DEF Frame
  <1> QED BY <1>1, <1>6, <1>7, <1>8 DEF m

(* The frame of the capture's buffer changes.                              *)
LEMMA Shot ==
    ASSUME NEW n \in Nat, n > 1, NEW c \in 0 .. n - 1, NEW e \in 0 .. n - 1,
           NEW b, NEW a, Ring(n, c, e, b), ~b[c].available, ~a[c].available,
           \A i \in 0 .. n - 1 : i # c => a[i] = b[i]
    PROVE  /\ FilledOf(n, c, e, a) = FilledOf(n, c, e, b)
           /\ Ring(n, c, e, a)
           /\ \A k \in 0 .. FilledOf(n, c, e, b) - 1 : Frame(n, e, a, k) = Frame(n, e, b, k)
  <1> DEFINE m == FilledOf(n, c, e, b)
  <1>1. m \in 0 .. n - 1 /\ Off(n, e, c) = m
    BY CaptureBehind, FilledFacts
  <1>2. FilledOf(n, c, e, a) = m
    BY DEF FilledOf
  <1>3. Ring(n, c, e, a)
    <2> SUFFICES ASSUME NEW i \in 0 .. n - 1
                 PROVE  a[i].available <=> Off(n, e, i) < m
      BY <1>2 DEF Ring
    <2>1. CASE i = c
      BY <2>1, <1>1
    <2>2. CASE i # c
      BY <2>2 DEF Ring
    <2> QED BY <2>1, <2>2
  <1>4. ASSUME NEW k \in 0 .. m - 1 PROVE Frame(n, e, a, k) = Frame(n, e, b, k)
    <2>1. Nth(n, e, k) \in 0 .. n - 1 /\ Off(n, e, Nth(n, e, k)) = k
      BY <1>1, NthFacts
    <2>2. Nth(n, e, k) # c
      BY <2>1, <1>1
    <2> QED BY <2>1, <2>2 DEF Frame
  <1> QED BY <1>2, <1>3, <1>4

(* What the encoder has not seen of a pool; h is 1 when it has seen the    *)
(* first available frame.                                                  *)
WaitingOf(n, c, e, b, h) ==
    [k \in 1 .. FilledOf(n, c, e, b) - h |-> b[(e + h + k - 1) % n].frame]

LEMMA WaitingFacts ==
    ASSUME NEW n \in Nat, n > 1, NEW c \in 0 .. n - 1, NEW e \in 0 .. n - 1,
           NEW b \in [0 .. n - 1 -> Buffer], NEW h \in {0, 1},
           h <= FilledOf(n, c, e, b)
    PROVE  /\ WaitingOf(n, c, e, b, h) \in Seq(Times)
           /\ Len(WaitingOf(n, c, e, b, h)) = FilledOf(n, c, e, b) - h
           /\ \A k \in 1 .. FilledOf(n, c, e, b) - h :
                 WaitingOf(n, c, e, b, h)[k] = Frame(n, e, b, h + k - 1)
  <1> DEFINE l == FilledOf(n, c, e, b) - h
             w == WaitingOf(n, c, e, b, h)
  <1>1. FilledOf(n, c, e, b) \in 0 .. n
    BY FilledFacts
  <1>2. l \in 0 .. n
    BY <1>1
  <1> HIDE DEF l
  <1>3. w = [k \in 1 .. l |-> b[(e + h + k - 1) % n].frame]
    BY DEF WaitingOf, l
  <1> HIDE DEF w
  <1>4. ASSUME NEW k \in 1 .. l
        PROVE  w[k] = Frame(n, e, b, h + k - 1) /\ w[k] \in Times
    <2>1. h + k - 1 \in 0 .. n - 1 /\ e + h + k - 1 = e + (h + k - 1)
      BY <1>1 DEF l
    <2>2. /\ (e + (h + k - 1)) % n = Nth(n, e, h + k - 1)
          /\ Nth(n, e, h + k - 1) \in 0 .. n - 1
      BY <2>1, NthFacts
    <2>3. w[k] = b[(e + h + k - 1) % n].frame
      BY <1>3
    <2>4. w[k] = Frame(n, e, b, h + k - 1)
      BY <2>1, <2>2, <2>3 DEF Frame
    <2>5. b[Nth(n, e, h + k - 1)].frame \in Times
      BY <2>2 DEF Buffer
    <2> QED BY <2>4, <2>5 DEF Frame
  <1>5. w \in [1 .. l -> Times]
    BY <1>3, <1>4
  <1>6. w \in Seq(Times) /\ Len(w) = l
    BY <1>2, <1>5
  <1> QED BY <1>4, <1>6 DEF l, w

(* One frame more at the end, one less at the front, the same frames.      *)
LEMMA Appended ==
    ASSUME NEW S, NEW s \in Seq(S), NEW t \in Seq(S), NEW x \in S,
           Len(t) = Len(s) + 1, t[Len(s) + 1] = x,
           \A k \in 1 .. Len(s) : t[k] = s[k]
    PROVE  t = Append(s, x)
  <1>1. Append(s, x) \in Seq(S) /\ Len(t) = Len(Append(s, x))
    BY AppendProperties
  <1>2. \A k \in 1 .. Len(t) : t[k] = Append(s, x)[k]
    BY AppendProperties, LenProperties
  <1> QED BY <1>1, <1>2, SeqEqual

LEMMA Shortened ==
    ASSUME NEW S, NEW s \in Seq(S), NEW t \in Seq(S), s # << >>,
           Len(t) = Len(s) - 1,
           \A k \in 1 .. Len(s) - 1 : t[k] = s[k + 1]
    PROVE  t = Tail(s)
  <1>1. /\ Tail(s) \in Seq(S) /\ Len(t) = Len(Tail(s))
        /\ \A k \in 1 .. Len(t) : t[k] = Tail(s)[k]
    BY HeadTailProperties
  <1> QED BY <1>1, SeqEqual

Typed(n, c, e, b) ==
    /\ n \in Nat /\ n > 1 /\ c \in 0 .. n - 1 /\ e \in 0 .. n - 1
    /\ b \in [0 .. n - 1 -> Buffer]

LEMMA OnePut ==
    ASSUME NEW n, NEW c, NEW e, NEW b, NEW p, NEW d, NEW g, NEW a,
           Typed(n, c, e, b), Typed(p, d, g, a),
           NEW h \in {0, 1}, h <= FilledOf(n, c, e, b), NEW x \in Times,
           FilledOf(p, d, g, a) = FilledOf(n, c, e, b) + 1,
           \A k \in 0 .. FilledOf(n, c, e, b) - 1 : Frame(p, g, a, k) = Frame(n, e, b, k),
           Frame(p, g, a, FilledOf(n, c, e, b)) = x
    PROVE  WaitingOf(p, d, g, a, h) = Append(WaitingOf(n, c, e, b, h), x)
  <1> DEFINE m == FilledOf(n, c, e, b)
             s == WaitingOf(n, c, e, b, h)
             t == WaitingOf(p, d, g, a, h)
  <1>1. m \in Nat
    BY FilledFacts DEF Typed
  <1>2. /\ s \in Seq(Times) /\ Len(s) = m - h
        /\ \A k \in 1 .. m - h : s[k] = Frame(n, e, b, h + k - 1)
    BY WaitingFacts DEF Typed
  <1>3. /\ t \in Seq(Times) /\ Len(t) = m + 1 - h
        /\ \A k \in 1 .. m + 1 - h : t[k] = Frame(p, g, a, h + k - 1)
    <2>1. h <= FilledOf(p, d, g, a) /\ FilledOf(p, d, g, a) - h = m + 1 - h
      BY <1>1
    <2>2. /\ t \in Seq(Times) /\ Len(t) = FilledOf(p, d, g, a) - h
          /\ \A k \in 1 .. FilledOf(p, d, g, a) - h : t[k] = Frame(p, g, a, h + k - 1)
      BY <2>1, WaitingFacts DEF Typed
    <2> QED BY <2>1, <2>2
  <1> HIDE DEF m, s, t
  <1>4. ASSUME NEW k \in 1 .. m - h PROVE t[k] = s[k]
    <2>1. h + k - 1 \in 0 .. m - 1 /\ k \in 1 .. m + 1 - h
      BY <1>1
    <2>2. Frame(p, g, a, h + k - 1) = Frame(n, e, b, h + k - 1)
      BY <2>1 DEF m
    <2> QED BY <1>2, <1>3, <2>1, <2>2
  <1>5. t[m - h + 1] = x
    <2>1. m - h + 1 \in 1 .. m + 1 - h /\ h + (m - h + 1) - 1 = m
      BY <1>1 DEF m
    <2>2. t[m - h + 1] = Frame(p, g, a, h + (m - h + 1) - 1)
      BY <1>3, <2>1
    <2> QED BY <2>1, <2>2 DEF m
  <1>6. Len(t) = Len(s) + 1
    BY <1>1, <1>2, <1>3
  <1> QED BY <1>2, <1>3, <1>4, <1>5, <1>6, Appended DEF s, t

(* The same frames, or, when the one that was seen is gone, those behind   *)
(* it: h and j say whether the first one is seen.                          *)
Keeps(n, c, e, b, h, p, d, g, a, j) ==
    /\ h \in {0, 1} /\ j \in {0, 1} /\ j <= h /\ h <= FilledOf(n, c, e, b)
    /\ FilledOf(p, d, g, a) = FilledOf(n, c, e, b) - (h - j)
    /\ \A k \in 0 .. FilledOf(n, c, e, b) - (h - j) - 1 :
          Frame(p, g, a, k) = Frame(n, e, b, k + (h - j))

LEMMA NonePut ==
    ASSUME NEW n, NEW c, NEW e, NEW b, NEW h, NEW p, NEW d, NEW g, NEW a, NEW j,
           Typed(n, c, e, b), Typed(p, d, g, a), Keeps(n, c, e, b, h, p, d, g, a, j)
    PROVE  WaitingOf(p, d, g, a, j) = WaitingOf(n, c, e, b, h)
  <1> USE DEF Keeps
  <1> DEFINE m == FilledOf(n, c, e, b)
             s == WaitingOf(n, c, e, b, h)
             t == WaitingOf(p, d, g, a, j)
  <1>1. m \in Nat
    BY FilledFacts DEF Typed
  <1>2. /\ s \in Seq(Times) /\ Len(s) = m - h
        /\ \A k \in 1 .. m - h : s[k] = Frame(n, e, b, h + k - 1)
    BY WaitingFacts DEF Typed
  <1>3. /\ j <= FilledOf(p, d, g, a) /\ FilledOf(p, d, g, a) - j = m - h
    BY <1>1
  <1>4. /\ t \in Seq(Times) /\ Len(t) = m - h
        /\ \A k \in 1 .. m - h : t[k] = Frame(p, g, a, j + k - 1)
    <2>1. /\ t \in Seq(Times) /\ Len(t) = FilledOf(p, d, g, a) - j
          /\ \A k \in 1 .. FilledOf(p, d, g, a) - j : t[k] = Frame(p, g, a, j + k - 1)
      BY <1>3, WaitingFacts DEF Typed
    <2> QED BY <1>3, <2>1
  <1> HIDE DEF m, s, t
  <1>5. ASSUME NEW k \in 1 .. m - h PROVE t[k] = s[k]
    <2>1. j + k - 1 \in 0 .. m - (h - j) - 1 /\ (j + k - 1) + (h - j) = h + k - 1
      BY <1>1
    <2>2. Frame(p, g, a, j + k - 1) = Frame(n, e, b, (j + k - 1) + (h - j))
      BY <2>1 DEF m
    <2> QED BY <1>2, <1>4, <2>1, <2>2
  <1> QED BY <1>2, <1>4, <1>5, SeqEqual DEF s, t

LEMMA OneSeen ==
    ASSUME NEW n, NEW c, NEW e, NEW b, Typed(n, c, e, b), FilledOf(n, c, e, b) > 0
    PROVE  /\ WaitingOf(n, c, e, b, 0) # << >>
           /\ Head(WaitingOf(n, c, e, b, 0)) = b[e].frame
           /\ WaitingOf(n, c, e, b, 1) = Tail(WaitingOf(n, c, e, b, 0))
  <1> DEFINE m == FilledOf(n, c, e, b)
             s == WaitingOf(n, c, e, b, 0)
             t == WaitingOf(n, c, e, b, 1)
  <1>1. m \in Nat /\ m > 0
    BY FilledFacts DEF Typed
  <1>2. /\ s \in Seq(Times) /\ Len(s) = m
        /\ \A k \in 1 .. m : s[k] = Frame(n, e, b, k - 1)
    <2>1. /\ s \in Seq(Times) /\ Len(s) = m - 0
          /\ \A k \in 1 .. m - 0 : s[k] = Frame(n, e, b, 0 + k - 1)
      BY <1>1, WaitingFacts DEF Typed
    <2> HIDE DEF m, s
    <2> QED BY <1>1, <2>1
  <1>3. /\ t \in Seq(Times) /\ Len(t) = m - 1
        /\ \A k \in 1 .. m - 1 : t[k] = Frame(n, e, b, 1 + k - 1)
    BY <1>1, WaitingFacts DEF Typed
  <1>4. Nth(n, e, 0) = e
    BY DEF Nth, Typed
  <1> HIDE DEF m, s, t
  <1>5. s # << >>
    BY <1>1, <1>2, EmptySeq
  <1>6. Head(s) = b[e].frame
    <2>1. Head(s) = s[1] /\ s[1] = Frame(n, e, b, 1 - 1)
      BY <1>1, <1>2, <1>5
    <2> QED BY <1>4, <2>1 DEF Frame
  <1>7. ASSUME NEW k \in 1 .. m - 1 PROVE t[k] = s[k + 1]
    <2>1. k + 1 \in 1 .. m /\ (k + 1) - 1 = 1 + k - 1
      BY <1>1
    <2> QED BY <1>2, <1>3, <2>1
  <1>8. t = Tail(s)
    BY <1>1, <1>2, <1>3, <1>5, <1>7, Shortened
  <1> QED BY <1>5, <1>6, <1>8 DEF s, t

-----------------------------------------------------------------------------
(* The frames: FrameQueue, and none lost.                                  *)

RingOK == Ring(bufsSize, captureIdx, encodeIdx, bufs)

LEMMA WaitingIs ==
    /\ Filled = FilledOf(bufsSize, captureIdx, encodeIdx, bufs)
    /\ Filled' = FilledOf(bufsSize', captureIdx', encodeIdx', bufs')
    /\ Waiting = WaitingOf(bufsSize, captureIdx, encodeIdx, bufs,
                           IF Handled THEN 1 ELSE 0)
    /\ Waiting' = WaitingOf(bufsSize', captureIdx', encodeIdx', bufs',
                            IF Handled' THEN 1 ELSE 0)
  BY DEF Filled, Waiting, FilledOf, WaitingOf

(* next_capture puts the capture's frame at the end of the ring.           *)
LEMMA NextCapturePuts ==
    ASSUME PoolTypeOK, Flags, RingOK, NextCapture, bufs[captureIdx].released
    PROVE  /\ Filled' = Filled + 1 /\ RingOK'
           /\ \A k \in 0 .. Filled - 1 :
                 Frame(bufsSize', encodeIdx', bufs', k) = Frame(bufsSize, encodeIdx, bufs, k)
           /\ Frame(bufsSize', encodeIdx', bufs', Filled) = bufs[captureIdx].frame
  <1> DEFINE submitted == [bufs EXCEPT ![captureIdx] = ForEncoder(bufs[captureIdx].frame)]
             after == captureIdx + 1
             next  == after % bufsSize
  <1>1. /\ bufsSize \in Nat /\ bufsSize > 1 /\ captureIdx \in Indices
        /\ encodeIdx \in Indices /\ bufs \in [Indices -> Buffer]
    BY PoolAssumption DEF PoolTypeOK, Indices
  <1>2. next = Nth(bufsSize, captureIdx, 1) /\ next \in Indices
    BY <1>1, NthFacts DEF Indices
  <1>3. /\ submitted[captureIdx].available
        /\ submitted[captureIdx].frame = bufs[captureIdx].frame
        /\ \A i \in Indices : i # captureIdx => submitted[i] = bufs[i]
        /\ \A i \in Indices : submitted[i].released <=> ~submitted[i].available
    BY <1>1 DEF ForEncoder, Flags, Indices
  <1>4. ~bufs[captureIdx].available
    BY <1>1 DEF Flags
  <1>5. next # captureIdx
    BY <1>1, <1>2 DEF Nth, Indices
  <1>6. CASE ~submitted[next].released /\ MayGrow
    <2>1. /\ bufsSize' = bufsSize + 1
          /\ bufs' = Inserted(submitted, after)
          /\ captureIdx' = after
          /\ encodeIdx' = IF encodeIdx >= after THEN encodeIdx + 1 ELSE encodeIdx
      BY <1>6 DEF NextCapture, EncoderMoves
    <2>2. bufs[Nth(bufsSize, captureIdx, 1)].available
      BY <1>2, <1>3, <1>5, <1>6
    <2> HIDE DEF submitted
    <2>3. /\ \A i \in 0 .. bufsSize : i < after => bufs'[i] = submitted[i]
          /\ bufs'[after] = Fresh
          /\ \A i \in 0 .. bufsSize : i > after => bufs'[i] = submitted[i - 1]
      BY <1>1, <2>1 DEF Inserted, Indices
    <2>4. /\ bufs'[captureIdx].available
          /\ bufs'[captureIdx].frame = bufs[captureIdx].frame
          /\ \A i \in Indices : i < captureIdx => bufs'[i] = bufs[i]
          /\ ~bufs'[captureIdx + 1].available
          /\ \A i \in 0 .. bufsSize : i > captureIdx + 1 => bufs'[i] = bufs[i - 1]
      <3>1. bufs'[captureIdx] = submitted[captureIdx]
        BY <1>1, <2>3 DEF Indices
      <3>2. \A i \in Indices : i < captureIdx => bufs'[i] = bufs[i]
        BY <1>1, <1>3, <2>3 DEF Indices
      <3>3. ~bufs'[captureIdx + 1].available
        BY <2>3 DEF Fresh, ForCapture
      <3>4. ASSUME NEW i \in 0 .. bufsSize, i > captureIdx + 1
            PROVE  bufs'[i] = bufs[i - 1]
        <4>1. i - 1 \in Indices /\ i - 1 # captureIdx
          BY <1>1, <3>4 DEF Indices
        <4> QED BY <1>3, <2>3, <3>4, <4>1
      <3> QED BY <1>3, <3>1, <3>2, <3>3, <3>4
    <2>5. /\ captureIdx \in 0 .. bufsSize - 1 /\ encodeIdx \in 0 .. bufsSize - 1
          /\ Ring(bufsSize, captureIdx, encodeIdx, bufs)
      BY <1>1 DEF RingOK, Indices
    <2>6. Grows(bufsSize, captureIdx, encodeIdx, bufs,
                bufsSize', captureIdx', encodeIdx', bufs')
      BY <1>1, <1>4, <2>1, <2>2, <2>4 DEF Indices, Grows
    <2>7. /\ FilledOf(bufsSize', captureIdx', encodeIdx', bufs')
                = FilledOf(bufsSize, captureIdx, encodeIdx, bufs) + 1
          /\ Ring(bufsSize', captureIdx', encodeIdx', bufs')
          /\ \A k \in 0 .. FilledOf(bufsSize, captureIdx, encodeIdx, bufs) - 1 :
                Frame(bufsSize', encodeIdx', bufs', k)
                    = Frame(bufsSize, encodeIdx, bufs, k)
          /\ Frame(bufsSize', encodeIdx', bufs',
                   FilledOf(bufsSize, captureIdx, encodeIdx, bufs))
                = bufs[captureIdx].frame
      BY <1>1, <2>5, <2>6, Grown
    <2> QED BY <2>7, WaitingIs DEF RingOK
  <1>7. CASE ~(~submitted[next].released /\ MayGrow)
    <2>1. /\ bufs' = submitted /\ captureIdx' = next
          /\ bufsSize' = bufsSize /\ encodeIdx' = encodeIdx
      BY <1>7 DEF NextCapture
    <2> HIDE DEF submitted, next
    <2>2. /\ captureIdx \in 0 .. bufsSize - 1 /\ encodeIdx \in 0 .. bufsSize - 1
          /\ captureIdx' \in 0 .. bufsSize - 1
          /\ captureIdx' = Nth(bufsSize, captureIdx, 1)
          /\ Ring(bufsSize, captureIdx, encodeIdx, bufs)
          /\ bufs'[captureIdx].available
          /\ bufs'[captureIdx].frame = bufs[captureIdx].frame
          /\ \A i \in 0 .. bufsSize - 1 : i # captureIdx => bufs'[i] = bufs[i]
      BY <1>1, <1>2, <1>3, <2>1 DEF RingOK, Indices
    <2>3. /\ FilledOf(bufsSize, captureIdx', encodeIdx, bufs')
                = FilledOf(bufsSize, captureIdx, encodeIdx, bufs) + 1
          /\ Ring(bufsSize, captureIdx', encodeIdx, bufs')
          /\ \A k \in 0 .. FilledOf(bufsSize, captureIdx, encodeIdx, bufs) - 1 :
                Frame(bufsSize, encodeIdx, bufs', k) = Frame(bufsSize, encodeIdx, bufs, k)
          /\ Frame(bufsSize, encodeIdx, bufs',
                   FilledOf(bufsSize, captureIdx, encodeIdx, bufs))
                = bufs[captureIdx].frame
      BY <1>1, <1>4, <2>2, Submitted
    <2> QED BY <2>1, <2>3, WaitingIs DEF RingOK
  <1> QED BY <1>6, <1>7

(* next_encode takes the first one off.                                    *)
LEMMA NextEncodeTakes ==
    ASSUME PoolTypeOK, Flags, RingOK, NextEncode, bufs[encodeIdx].available
    PROVE  /\ Filled > 0 /\ Filled' = Filled - 1 /\ RingOK'
           /\ \A k \in 0 .. Filled - 2 :
                 Frame(bufsSize', encodeIdx', bufs', k)
                     = Frame(bufsSize, encodeIdx, bufs, k + 1)
           /\ bufs'[captureIdx].frame = bufs[captureIdx].frame
  <1>1. /\ bufsSize \in Nat /\ bufsSize > 1 /\ captureIdx \in Indices
        /\ encodeIdx \in Indices /\ bufs \in [Indices -> Buffer]
    BY PoolAssumption DEF PoolTypeOK, Indices
  <1>2. /\ encodeIdx' = Nth(bufsSize, encodeIdx, 1) /\ encodeIdx' \in Indices
        /\ bufsSize' = bufsSize /\ captureIdx' = captureIdx
    BY <1>1, NthFacts DEF NextEncode, Indices
  <1>3. /\ ~bufs'[encodeIdx].available
        /\ \A i \in Indices : i # encodeIdx => bufs'[i] = bufs[i]
        /\ bufs'[captureIdx].frame = bufs[captureIdx].frame
    BY <1>1 DEF NextEncode, ForCapture
  <1>4. /\ captureIdx \in 0 .. bufsSize - 1 /\ encodeIdx \in 0 .. bufsSize - 1
        /\ encodeIdx' \in 0 .. bufsSize - 1
        /\ Ring(bufsSize, captureIdx, encodeIdx, bufs)
        /\ \A i \in 0 .. bufsSize - 1 : i # encodeIdx => bufs'[i] = bufs[i]
    BY <1>1, <1>2, <1>3 DEF RingOK, Indices
  <1>5. /\ FilledOf(bufsSize, captureIdx, encodeIdx, bufs) > 0
        /\ FilledOf(bufsSize, captureIdx, encodeIdx', bufs')
              = FilledOf(bufsSize, captureIdx, encodeIdx, bufs) - 1
        /\ Ring(bufsSize, captureIdx, encodeIdx', bufs')
        /\ \A k \in 0 .. FilledOf(bufsSize, captureIdx, encodeIdx, bufs) - 2 :
              Frame(bufsSize, encodeIdx', bufs', k)
                  = Frame(bufsSize, encodeIdx, bufs, k + 1)
    BY <1>1, <1>2, <1>3, <1>4, Released
  <1> QED BY <1>2, <1>3, <1>5, WaitingIs DEF RingOK

(* The invariant: the shot that is taken has the time of the clock;        *)
(* nothing was encoded before the first frame is accepted; what was        *)
(* encoded and what waits follow each other up to the frame submitted      *)
(* last.                                                                   *)
Shooting == main = "copying" /\ copyDone
Stream   == encoded \o Waiting
Following(s) == \A i \in 1 .. Len(s) - 1 : s[i + 1] = s[i] + 1
Newest(s, t) == s # << >> => s[Len(s)] = t

Order ==
    /\ RingOK
    /\ Shooting => bufs[captureIdx].frame = clock
    /\ ~synced => encoded = << >>
    /\ displayOk =>
          /\ Following(Stream)
          /\ main \in {"top", "free", "copying", "dispatching"} =>
                Newest(Stream, IF Shooting THEN clock - 1 ELSE clock)

(* What a step may do to the frames that wait.                             *)
Puts ==
    /\ SubmitFrame
    /\ Waiting' = Append(Waiting, bufs[captureIdx].frame)
Takes ==
    /\ Waiting # << >> /\ Waiting' = Tail(Waiting)
    /\ \/ AddFrame /\ encoded' = Append(encoded, Head(Waiting))
       \/ DropFrame /\ encoded' = encoded /\ encoded = << >>
Leaves == Waiting' = Waiting /\ encoded' = encoded

LEMMA AvailableCounts ==
    ASSUME PoolTypeOK, RingOK
    PROVE  bufs[encodeIdx].available => Filled > 0
  <1>1. bufs[encodeIdx].available <=> Off(bufsSize, encodeIdx, encodeIdx) < Filled
    BY PoolAssumption, WaitingIs DEF PoolTypeOK, RingOK, Ring
  <1> QED BY <1>1, PoolAssumption DEF PoolTypeOK, Off

(* The pool's types, here and after a step, as the lemmas on rings ask.    *)
LEMMA PoolsTyped ==
    /\ PoolTypeOK  => Typed(bufsSize, captureIdx, encodeIdx, bufs)
    /\ PoolTypeOK' => Typed(bufsSize', captureIdx', encodeIdx', bufs')
  BY PoolAssumption DEF PoolTypeOK, Typed

LEMMA HandledCounts ==
    ASSUME PoolTypeOK, RingOK, Holding
    PROVE  /\ Filled \in Nat
           /\ Handled => Filled > 0
  <1>1. bufs[encodeIdx].available => Filled > 0
    BY AvailableCounts
  <1>2. Filled \in Nat
    BY FilledFacts, WaitingIs, PoolsTyped DEF Typed
  <1> QED BY <1>1, <1>2 DEF Holding, Handled, InHand

(* Steps after which the pool and what the encoder has of it are as they   *)
(* were.                                                                   *)
LEMMA PoolLeft ==
    ASSUME RingOK, UNCHANGED poolVars, Handled' <=> Handled, encoded' = encoded
    PROVE  RingOK' /\ Leaves
  BY WaitingIs DEF poolVars, RingOK, Leaves

(* main submits a frame.                                                   *)
LEMMA SubmitPuts ==
    ASSUME IInv, IInv', RingOK, SubmitFrame
    PROVE  RingOK' /\ Puts
  <1>1. PoolTypeOK /\ PoolTypeOK' /\ Flags /\ Holding /\ Copying
    BY DEF IInv, TypeOK, Pool
  <1>2. /\ Typed(bufsSize, captureIdx, encodeIdx, bufs)
        /\ Typed(bufsSize', captureIdx', encodeIdx', bufs')
    BY <1>1, PoolsTyped
  <1>3. Filled \in Nat /\ (Handled => Filled > 0)
    BY <1>1, HandledCounts
  <1>4. NextCapture /\ encoded' = encoded /\ main \in {"copying", "dispatching"}
        /\ (Handled' <=> Handled)
    BY DEF SubmitFrame, DispatchEnds, Handled
  <1>5. /\ Filled' = Filled + 1 /\ RingOK'
        /\ \A k \in 0 .. Filled - 1 :
              Frame(bufsSize', encodeIdx', bufs', k) = Frame(bufsSize, encodeIdx, bufs, k)
        /\ Frame(bufsSize', encodeIdx', bufs', Filled) = bufs[captureIdx].frame
    BY <1>1, <1>4, NextCapturePuts DEF Copying
  <1>6. bufs[captureIdx].frame \in Times
    BY <1>1 DEF PoolTypeOK, Buffer
  <1> DEFINE h == IF Handled THEN 1 ELSE 0
  <1>7. h \in {0, 1} /\ h <= Filled
    BY <1>3
  <1>8. /\ Waiting = WaitingOf(bufsSize, captureIdx, encodeIdx, bufs, h)
        /\ Waiting' = WaitingOf(bufsSize', captureIdx', encodeIdx', bufs', h)
        /\ Filled = FilledOf(bufsSize, captureIdx, encodeIdx, bufs)
        /\ Filled' = FilledOf(bufsSize', captureIdx', encodeIdx', bufs')
    BY <1>4, WaitingIs
  <1> HIDE DEF h
  <1>9. Waiting' = Append(Waiting, bufs[captureIdx].frame)
    BY <1>2, <1>5, <1>6, <1>7, <1>8, OnePut
  <1> QED BY <1>5, <1>9 DEF Puts

(* Every other step takes one off, or leaves them.                         *)
LEMMA OthersTake ==
    ASSUME IInv, IInv', RingOK, ~synced => encoded = << >>, [Next]_vars,
           ~SubmitFrame
    PROVE  RingOK' /\ (Takes \/ Leaves)
  <1>1. PoolTypeOK /\ PoolTypeOK' /\ Flags /\ Holding /\ Copying
    BY DEF IInv, TypeOK, Pool
  <1>2. /\ Typed(bufsSize, captureIdx, encodeIdx, bufs)
        /\ Typed(bufsSize', captureIdx', encodeIdx', bufs')
    BY <1>1, PoolsTyped
  <1>3. Filled \in Nat /\ (Handled => Filled > 0)
    BY <1>1, HandledCounts
  <1>5. CASE ReleaseFrame
    <2>1. NextEncode /\ encoded' = encoded /\ Handled /\ ~Handled'
          /\ bufs[encodeIdx].available
      BY <1>1, <1>5 DEF ReleaseFrame, WriterAt, Handled, Holding, InHand
    <2>2. /\ Filled > 0 /\ Filled' = Filled - 1 /\ RingOK'
          /\ \A k \in 0 .. Filled - 2 :
                Frame(bufsSize', encodeIdx', bufs', k)
                    = Frame(bufsSize, encodeIdx, bufs, k + 1)
      BY <1>1, <2>1, NextEncodeTakes
    <2>3. /\ Waiting = WaitingOf(bufsSize, captureIdx, encodeIdx, bufs, 1)
          /\ Waiting' = WaitingOf(bufsSize', captureIdx', encodeIdx', bufs', 0)
          /\ Filled = FilledOf(bufsSize, captureIdx, encodeIdx, bufs)
          /\ Filled' = FilledOf(bufsSize', captureIdx', encodeIdx', bufs')
      BY <2>1, WaitingIs
    <2>4. Waiting' = Waiting
      <3>1. Filled - (1 - 0) = Filled - 1 /\ Filled - (1 - 0) - 1 = Filled - 2
        BY <1>3
      <3>2. Keeps(bufsSize, captureIdx, encodeIdx, bufs, 1,
                  bufsSize', captureIdx', encodeIdx', bufs', 0)
        BY <1>3, <2>2, <2>3, <3>1 DEF Keeps
      <3> QED BY <1>2, <2>3, <3>2, NonePut
    <2> QED BY <2>1, <2>2, <2>4 DEF Leaves
  <1>6. CASE FrameReady
    <2>1. /\ bufs' = [bufs EXCEPT ![captureIdx] = WithFrame(bufs[captureIdx], clock + 1)]
          /\ UNCHANGED << bufsSize, captureIdx, encodeIdx, writer, encoded >>
          /\ bufs[captureIdx].released
      BY <1>1, <1>6 DEF FrameReady, Dispatching, Copying
    <2>2. /\ ~bufs[captureIdx].available /\ ~bufs'[captureIdx].available
          /\ \A i \in 0 .. bufsSize - 1 : i # captureIdx => bufs'[i] = bufs[i]
      BY <1>1, <2>1 DEF PoolTypeOK, Flags, Indices, WithFrame
    <2>3. /\ bufsSize \in Nat /\ bufsSize > 1 /\ captureIdx \in 0 .. bufsSize - 1
          /\ encodeIdx \in 0 .. bufsSize - 1
          /\ Ring(bufsSize, captureIdx, encodeIdx, bufs)
      BY <1>2 DEF Typed, RingOK
    <2>4. /\ FilledOf(bufsSize, captureIdx, encodeIdx, bufs')
                = FilledOf(bufsSize, captureIdx, encodeIdx, bufs)
          /\ Ring(bufsSize, captureIdx, encodeIdx, bufs')
          /\ \A k \in 0 .. FilledOf(bufsSize, captureIdx, encodeIdx, bufs) - 1 :
                Frame(bufsSize, encodeIdx, bufs', k) = Frame(bufsSize, encodeIdx, bufs, k)
      BY <2>2, <2>3, Shot
    <2> DEFINE h == IF Handled THEN 1 ELSE 0
    <2>5. /\ Waiting = WaitingOf(bufsSize, captureIdx, encodeIdx, bufs, h)
          /\ Waiting' = WaitingOf(bufsSize', captureIdx', encodeIdx', bufs', h)
          /\ Filled = FilledOf(bufsSize, captureIdx, encodeIdx, bufs)
          /\ Filled' = FilledOf(bufsSize', captureIdx', encodeIdx', bufs')
      BY <2>1, WaitingIs DEF Handled
    <2>6. Keeps(bufsSize, captureIdx, encodeIdx, bufs, h,
                bufsSize', captureIdx', encodeIdx', bufs', h)
      <3>1. h \in {0, 1} /\ h <= Filled /\ h - h = 0
        BY <1>3
      <3> HIDE DEF h
      <3>2. Filled' = Filled - (h - h) /\ Filled - (h - h) - 1 = Filled - 1
        BY <1>3, <2>1, <2>4, <2>5, <3>1
      <3>3. \A k \in 0 .. Filled - 1 :
                Frame(bufsSize', encodeIdx', bufs', k)
                    = Frame(bufsSize, encodeIdx, bufs, k + (h - h))
        <4> SUFFICES ASSUME NEW k \in 0 .. Filled - 1
                     PROVE  Frame(bufsSize', encodeIdx', bufs', k)
                                = Frame(bufsSize, encodeIdx, bufs, k + (h - h))
          OBVIOUS
        <4>1. k + (h - h) = k
          BY <1>3, <3>1
        <4> QED BY <2>1, <2>4, <2>5, <4>1
      <3> QED BY <2>5, <3>1, <3>2, <3>3 DEF Keeps
    <2>7. RingOK'
      BY <2>1, <2>4 DEF RingOK
    <2> HIDE DEF h
    <2>8. Waiting' = Waiting
      BY <1>2, <2>5, <2>6, NonePut
    <2> QED BY <2>1, <2>7, <2>8 DEF Leaves
  <1>7. CASE AddFrame \/ DropFrame
    <2>1. UNCHANGED poolVars /\ ~Handled /\ Handled' /\ bufs[encodeIdx].available
      BY <1>1, <1>7 DEF AddFrame, DropFrame, WriterAt, Handled, Holding, InHand
    <2>2. RingOK' /\ Filled > 0
      BY <1>1, <2>1, AvailableCounts DEF RingOK, poolVars
    <2>3. /\ Waiting = WaitingOf(bufsSize, captureIdx, encodeIdx, bufs, 0)
          /\ Waiting' = WaitingOf(bufsSize, captureIdx, encodeIdx, bufs, 1)
          /\ Filled = FilledOf(bufsSize, captureIdx, encodeIdx, bufs)
      BY <2>1, WaitingIs DEF poolVars
    <2>4. /\ Waiting # << >> /\ Waiting' = Tail(Waiting)
          /\ Head(Waiting) = bufs[encodeIdx].frame
      BY <1>2, <2>2, <2>3, OneSeen
    <2>5. CASE AddFrame
      BY <2>2, <2>4, <2>5 DEF Takes, AddFrame, Current
    <2>6. CASE DropFrame
      BY <2>2, <2>4, <2>6 DEF Takes, DropFrame, TooEarly
    <2> QED BY <1>7, <2>5, <2>6
  <1>8. CASE LoopTest \/ RequestFrame \/ Dispatch \/ StopCapture \/ Join \/ FrameFailed
             \/ BufferFailed \/ OtherEvent \/ BufferUnusable \/ DisplayLost \/ Interrupt
             \/ EncoderUnusable
    <2>1. UNCHANGED << poolVars, writer, encoded >>
      BY <1>8 DEF LoopTest, RequestFrame, Dispatch, StopCapture, Join, FrameFailed,
                  BufferFailed, OtherEvent, BufferUnusable, DisplayLost, Interrupt,
                  EncoderUnusable, mainVars
    <2> QED BY <2>1, PoolLeft DEF Handled
  <1>9. CASE TakeFrame \/ LeaveWriteLoop \/ CloseWriter \/ VideoWrite
             \/ AddFrameFails \/ MapFails \/ VideoLock
    <2>1. UNCHANGED << poolVars, encoded >>
      BY <1>9 DEF TakeFrame, LeaveWriteLoop, CloseWriter, VideoWrite,
                  AddFrameFails, MapFails, VideoLock
    <2>2. Handled' <=> Handled
      <3>1. CASE TakeFrame \/ LeaveWriteLoop \/ CloseWriter \/ AddFrameFails \/ MapFails
        BY <3>1 DEF TakeFrame, LeaveWriteLoop, CloseWriter, AddFrameFails, MapFails,
                    WriterAt, Handled
      <3>2. CASE VideoWrite
        BY <3>2 DEF VideoWrite, WriterAt, Handled
      <3>3. CASE VideoLock
        BY <3>3 DEF VideoLock, WriterAt, Handled
      <3> QED BY <1>9, <3>1, <3>2, <3>3
    <2> QED BY <2>1, <2>2, PoolLeft
  <1>10. CASE AudioLock \/ AudioPacket \/ AudioKept \/ AudioWrite \/ AudioFails
    <2>1. UNCHANGED << poolVars, writer, encoded >>
      BY <1>10 DEF AudioLock, AudioPacket, AudioKept, AudioWrite, AudioFails
    <2> QED BY <2>1, PoolLeft DEF Handled
  <1>11. CASE UNCHANGED vars
    <2>1. UNCHANGED << poolVars, writer, encoded >>
      BY <1>11 DEF vars
    <2> QED BY <2>1, PoolLeft DEF Handled
  <1> QED BY <1>5, <1>6, <1>7, <1>8, <1>9, <1>10, <1>11
       DEF Next, MainStep, Compositor, WriterStep, EncoderErrors

LEMMA StepFrames ==
    ASSUME IInv, IInv', RingOK, ~synced => encoded = << >>, [Next]_vars
    PROVE  RingOK' /\ (SubmitFrame => Puts) /\ (~SubmitFrame => Takes \/ Leaves)
  <1>1. CASE SubmitFrame
    BY <1>1, SubmitPuts
  <1>2. CASE ~SubmitFrame
    BY <1>2, OthersTake
  <1> QED BY <1>1, <1>2

(* Appending keeps a row in order, and so does taking the first one off.   *)
LEMMA RowGrows ==
    ASSUME NEW s \in Seq(Times), NEW f \in Times, Following(s), Newest(s, f - 1)
    PROVE  Following(Append(s, f)) /\ Newest(Append(s, f), f)
  <1> DEFINE t == Append(s, f)
  <1>1. /\ Len(t) = Len(s) + 1 /\ Len(s) \in Nat /\ t[Len(s) + 1] = f
        /\ \A i \in 1 .. Len(s) : t[i] = s[i]
    BY AppendProperties, LenProperties
  <1>2. /\ f - 1 + 1 = f
        /\ Len(s) > 0 => s[Len(s)] = f - 1
    BY <1>1, EmptySeq, BoundAssumption DEF Newest, Times
  <1> HIDE DEF t
  <1>3. ASSUME NEW i \in 1 .. Len(t) - 1 PROVE t[i + 1] = t[i] + 1
    <2>1. CASE i = Len(s)
      BY <1>1, <1>2, <2>1
    <2>2. CASE i < Len(s)
      <3>1. i \in 1 .. Len(s) - 1 /\ i + 1 \in 1 .. Len(s) /\ i \in 1 .. Len(s)
        BY <1>1, <2>2
      <3> QED BY <1>1, <3>1 DEF Following
    <2> QED BY <1>1, <2>1, <2>2
  <1> QED BY <1>1, <1>3 DEF Following, Newest, t

LEMMA RowShortens ==
    ASSUME NEW s \in Seq(Times), s # << >>, NEW f, Following(s), Newest(s, f)
    PROVE  Following(Tail(s)) /\ Newest(Tail(s), f)
  <1> DEFINE t == Tail(s)
  <1>1. /\ t \in Seq(Times) /\ Len(t) = Len(s) - 1 /\ Len(s) \in Nat
        /\ \A i \in 1 .. Len(t) : t[i] = s[i + 1]
    BY HeadTailProperties, LenProperties
  <1>2. t # << >> => Len(t) > 0
    BY <1>1, EmptySeq
  <1> HIDE DEF t
  <1>3. ASSUME NEW i \in 1 .. Len(t) - 1 PROVE t[i + 1] = t[i] + 1
    <2>1. i \in 1 .. Len(t) /\ i + 1 \in 1 .. Len(t) /\ i + 1 \in 1 .. Len(s) - 1
      BY <1>1
    <2> QED BY <1>1, <2>1 DEF Following
  <1>4. Newest(t, f)
    <2> SUFFICES ASSUME t # << >> PROVE t[Len(t)] = f
      BY DEF Newest
    <2>1. Len(t) \in 1 .. Len(t) /\ Len(t) + 1 = Len(s)
      BY <1>1, <1>2
    <2> QED BY <1>1, <2>1 DEF Newest
  <1> QED BY <1>3, <1>4 DEF Following, t

(* A frame that moves from the queue to the encoder leaves the row as it   *)
(* is.                                                                     *)
LEMMA RowMoves ==
    ASSUME NEW s \in Seq(Times), NEW w \in Seq(Times), w # << >>
    PROVE  Append(s, Head(w)) \o Tail(w) = s \o w
  <1>1. Head(w) \in Times /\ Tail(w) \in Seq(Times) /\ << Head(w) >> \in Seq(Times)
        /\ w = << Head(w) >> \o Tail(w)
    <2>1. Head(w) \in Times /\ Tail(w) \in Seq(Times)
      BY HeadTailProperties
    <2>2. << Head(w) >> \in Seq(Times)
      BY <2>1
    <2>3. /\ Len(w) = Len(<< Head(w) >> \o Tail(w))
          /\ << Head(w) >> \o Tail(w) \in Seq(Times)
          /\ \A i \in 1 .. Len(w) : w[i] = (<< Head(w) >> \o Tail(w))[i]
      BY <2>1, <2>2, HeadTailProperties, ConcatProperties, LenProperties
    <2> QED BY <2>1, <2>2, <2>3, SeqEqual
  <1>2. Append(s, Head(w)) = s \o << Head(w) >>
    BY <1>1, AppendIsConcat
  <1>3. (s \o << Head(w) >>) \o Tail(w) = s \o (<< Head(w) >> \o Tail(w))
    BY <1>1, ConcatAssociative
  <1> QED BY <1>1, <1>2, <1>3

LEMMA RowAppends ==
    ASSUME NEW s \in Seq(Times), NEW w \in Seq(Times), NEW f \in Times
    PROVE  s \o Append(w, f) = Append(s \o w, f)
  <1>1. << f >> \in Seq(Times) /\ s \o w \in Seq(Times)
    BY ConcatProperties
  <1>2. Append(w, f) = w \o << f >> /\ Append(s \o w, f) = (s \o w) \o << f >>
    BY <1>1, AppendIsConcat
  <1> QED BY <1>1, <1>2, ConcatAssociative

LEMMA InitOrder == Init => Order /\ Waiting = << >>
  <1> SUFFICES ASSUME Init PROVE Order /\ Waiting = << >>
    OBVIOUS
  <1>1. Typed(bufsSize, captureIdx, encodeIdx, bufs) /\ PoolTypeOK
    BY InitHolds, PoolsTyped DEF IInv, TypeOK
  <1>2. /\ \A i \in 0 .. bufsSize - 1 : ~bufs[i].available
        /\ captureIdx = 0 /\ encodeIdx = 0 /\ bufsSize = 2
        /\ encoded = << >> /\ main = "top" /\ ~Handled
    BY DEF Init, Fresh, ForCapture, Handled
  <1>3. Filled = 0
    BY <1>2, FilledFacts, WaitingIs
  <1>4. RingOK
    BY <1>2, <1>3, WaitingIs DEF RingOK, Ring, Off
  <1>5. Waiting = << >>
    <2> DEFINE h == 0
    <2>1. /\ Waiting = WaitingOf(bufsSize, captureIdx, encodeIdx, bufs, h)
          /\ h \in {0, 1} /\ h <= FilledOf(bufsSize, captureIdx, encodeIdx, bufs)
          /\ FilledOf(bufsSize, captureIdx, encodeIdx, bufs) - h = 0
      BY <1>2, <1>3, WaitingIs
    <2> HIDE DEF h
    <2>2. Waiting \in Seq(Times) /\ Len(Waiting) = 0
      BY <1>1, <2>1, WaitingFacts DEF Typed
    <2> QED BY <2>2, EmptySeq
  <1>6. Stream = << >>
    BY <1>2, <1>5, ConcatEmptySeq, EmptySeq DEF Stream
  <1>7. Len(Stream) = 0
    BY <1>6
  <1> QED BY <1>2, <1>4, <1>5, <1>6, <1>7 DEF Order, Shooting, Following, Newest

LEMMA WaitingTyped == ASSUME PoolTypeOK, RingOK, Holding PROVE Waiting \in Seq(Times)
  <1> DEFINE h == IF Handled THEN 1 ELSE 0
  <1>1. /\ Waiting = WaitingOf(bufsSize, captureIdx, encodeIdx, bufs, h)
        /\ h \in {0, 1} /\ h <= FilledOf(bufsSize, captureIdx, encodeIdx, bufs)
    BY HandledCounts, WaitingIs
  <1> HIDE DEF h
  <1> QED BY <1>1, WaitingFacts, PoolsTyped DEF Typed

Aim == IF Shooting THEN clock - 1 ELSE clock

LEMMA StepAim ==
    ASSUME IInv, [Next]_vars, main' \in {"top", "free", "copying", "dispatching"}, displayOk'
    PROVE  /\ displayOk /\ main \in {"top", "free", "copying", "dispatching"}
           /\ IF SubmitFrame THEN Aim = clock - 1 /\ Aim' = clock ELSE Aim' = Aim
  <1>1. clock \in Nat /\ displayOk \in BOOLEAN /\ copyDone \in BOOLEAN
    BY BoundAssumption DEF IInv, TypeOK, MainTypeOK, Times
  <1> USE DEF Aim, Shooting, mainVars
  <1>2. CASE SubmitFrame
    BY <1>1, <1>2 DEF SubmitFrame, DispatchEnds
  <1>3. CASE FrameReady
    BY <1>1, <1>3 DEF FrameReady, Dispatching, SubmitFrame, IInv, Pool, Copying
  <1>4. CASE LoopTest \/ RequestFrame \/ Dispatch \/ StopCapture \/ Join \/ FrameFailed
             \/ BufferFailed \/ OtherEvent \/ BufferUnusable \/ DisplayLost \/ EncoderUnusable
    <2>1. CASE StopCapture \/ Join \/ BufferUnusable \/ DisplayLost \/ EncoderUnusable
      BY <2>1 DEF StopCapture, Join, BufferUnusable, DisplayLost, EncoderUnusable
    <2>2. CASE LoopTest \/ RequestFrame
      <3>1. /\ main \in {"top", "free"} /\ displayOk' = displayOk /\ clock' = clock
            /\ (main' = "copying" => copyDone' = FALSE)
        BY <2>2 DEF LoopTest, RequestFrame
      <3> QED BY <1>1, <3>1 DEF SubmitFrame, DispatchEnds
    <2>3. CASE Dispatch \/ FrameFailed \/ BufferFailed \/ OtherEvent
      <3>1. /\ ~copyDone /\ main \in {"copying", "dispatching"} /\ clock' = clock
            /\ ~copyDone' /\ displayOk
        <4>1. CASE Dispatch
          BY <4>1 DEF Dispatch
        <4>2. CASE FrameFailed
          BY <4>2 DEF FrameFailed, Dispatching, IInv, Pool, Copying
        <4>3. CASE BufferFailed
          BY <4>3 DEF BufferFailed, Dispatching, IInv, Pool, Copying
        <4>4. CASE OtherEvent
          BY <4>4 DEF OtherEvent, Dispatching, IInv, Pool, Copying
        <4> QED BY <2>3, <4>1, <4>2, <4>3, <4>4
      <3>2. ~SubmitFrame
        <4>1. CASE main = "copying"
          BY <2>3, <3>1, <4>1 DEF SubmitFrame, DispatchEnds
        <4>2. CASE main = "dispatching"
          BY <3>1, <4>2 DEF SubmitFrame, DispatchEnds
        <4> QED BY <3>1, <4>1, <4>2
      <3> QED BY <1>1, <3>1, <3>2
    <2> QED BY <1>4, <2>1, <2>2, <2>3
  <1>5. CASE UNCHANGED mainVars
    BY <1>1, <1>5 DEF SubmitFrame, DispatchEnds
  <1>6. CASE WriterStep \/ AddFrameFails \/ MapFails \/ VideoLock \/ Interrupt
             \/ UNCHANGED vars
    <2>1. UNCHANGED mainVars
      BY <1>6 DEF WriterStep, TakeFrame, DropFrame, AddFrame, ReleaseFrame,
           LeaveWriteLoop, CloseWriter, VideoWrite, AddFrameFails, MapFails,
           VideoLock, Interrupt, vars
    <2> QED BY <1>5, <2>1
  <1>7. CASE AudioLock \/ AudioPacket \/ AudioKept \/ AudioWrite \/ AudioFails
    <2>1. UNCHANGED mainVars
      BY <1>7 DEF AudioLock, AudioPacket, AudioKept, AudioWrite, AudioFails
    <2> QED BY <1>5, <2>1
  <1> QED BY <1>2, <1>3, <1>4, <1>6, <1>7
       DEF Next, MainStep, Compositor, EncoderErrors

LEMMA DisplayStays == ASSUME IInv, [Next]_vars, displayOk' PROVE displayOk
  <1> SUFFICES displayOk' = displayOk \/ DisplayLost
    BY DEF DisplayLost
  <1> USE DEF mainVars
  <1>1. CASE MainStep \/ Compositor \/ Interrupt \/ EncoderUnusable
    BY <1>1 DEF MainStep, LoopTest, RequestFrame, Dispatch, StopCapture, SubmitFrame, Join,
         Compositor, FrameReady, FrameFailed, BufferFailed, OtherEvent, BufferUnusable,
         Interrupt, EncoderUnusable
  <1>2. CASE WriterStep \/ AddFrameFails \/ MapFails \/ VideoLock \/ UNCHANGED vars
    BY <1>2 DEF WriterStep, TakeFrame, DropFrame, AddFrame, ReleaseFrame,
         LeaveWriteLoop, CloseWriter, VideoWrite, AddFrameFails, MapFails, VideoLock,
         vars
  <1>3. CASE AudioLock \/ AudioPacket \/ AudioKept \/ AudioWrite \/ AudioFails
    BY <1>3 DEF AudioLock, AudioPacket, AudioKept, AudioWrite, AudioFails
  <1> QED BY <1>1, <1>2, <1>3 DEF Next, EncoderErrors

LEMMA StepSynced == ASSUME IInv, [Next]_vars, ~synced' PROVE ~synced /\ ~AddFrame
  <1>0. synced \in BOOLEAN
    BY DEF IInv, TypeOK, ThreadTypeOK
  <1>1. ~AddFrame
    BY DEF AddFrame
  <1>2. CASE MainStep \/ Compositor \/ Interrupt \/ EncoderUnusable
    BY <1>0, <1>1, <1>2 DEF MainStep, LoopTest, RequestFrame, Dispatch, StopCapture, SubmitFrame,
         Join, Compositor, FrameReady, FrameFailed, BufferFailed, OtherEvent, BufferUnusable,
         DisplayLost, Interrupt, EncoderUnusable
  <1>3. CASE TakeFrame \/ DropFrame \/ ReleaseFrame \/ LeaveWriteLoop \/ CloseWriter
             \/ VideoWrite \/ VideoLock \/ UNCHANGED vars
    <2>1. synced' = synced
      BY <1>3 DEF TakeFrame, DropFrame, ReleaseFrame, LeaveWriteLoop, CloseWriter,
           VideoWrite, VideoLock, vars
    <2> QED BY <1>0, <1>1, <2>1
  <1>4. ~AddFrameFails /\ ~MapFails
    BY DEF AddFrameFails, MapFails
  <1>5. CASE AudioLock \/ AudioPacket \/ AudioKept \/ AudioWrite \/ AudioFails
    BY <1>0, <1>1, <1>5 DEF AudioLock, AudioPacket, AudioKept, AudioWrite, AudioFails
  <1> QED BY <1>1, <1>2, <1>3, <1>4, <1>5 DEF Next, WriterStep, EncoderErrors

LEMMA StepShot ==
    ASSUME IInv, IInv', [Next]_vars, Shooting => bufs[captureIdx].frame = clock
    PROVE  Shooting' => bufs'[captureIdx'].frame = clock'
  <1> SUFFICES ASSUME Shooting' PROVE bufs'[captureIdx'].frame = clock'
    OBVIOUS
  <1>1. PoolTypeOK /\ copyDone \in BOOLEAN
    BY DEF IInv, TypeOK, MainTypeOK
  <1> USE DEF Shooting, mainVars, poolVars
  <1>2. CASE FrameReady
    BY <1>1, <1>2 DEF FrameReady, PoolTypeOK, WithFrame
  <1>3. CASE ReleaseFrame
    BY <1>1, <1>3 DEF ReleaseFrame, NextEncode, PoolTypeOK, ForCapture
  <1>4. CASE LoopTest \/ RequestFrame \/ Dispatch \/ StopCapture \/ SubmitFrame \/ Join
             \/ BufferUnusable \/ EncoderUnusable
    BY <1>4 DEF LoopTest, RequestFrame, Dispatch, StopCapture, SubmitFrame, Join,
         BufferUnusable, EncoderUnusable
  <1>5. CASE FrameFailed \/ BufferFailed \/ OtherEvent
    BY <1>5 DEF FrameFailed, BufferFailed, OtherEvent, Dispatching, IInv, Pool, Copying
  <1>8. CASE DisplayLost \/ Interrupt \/ UNCHANGED vars
    BY <1>8 DEF DisplayLost, Interrupt, vars
  <1>6. CASE TakeFrame \/ DropFrame \/ AddFrame \/ LeaveWriteLoop \/ CloseWriter
             \/ VideoWrite \/ AddFrameFails \/ MapFails \/ VideoLock
    BY <1>6 DEF TakeFrame, DropFrame, AddFrame, LeaveWriteLoop, CloseWriter,
         VideoWrite, AddFrameFails, MapFails, VideoLock
  <1>7. CASE AudioLock \/ AudioPacket \/ AudioKept \/ AudioWrite \/ AudioFails
    BY <1>7 DEF AudioLock, AudioPacket, AudioKept, AudioWrite, AudioFails
  <1> QED BY <1>2, <1>3, <1>4, <1>5, <1>6, <1>7, <1>8
       DEF Next, MainStep, Compositor, WriterStep, EncoderErrors

LEMMA StepOrder ==
    ASSUME IInv, IInv', Order, [Next]_vars
    PROVE  Order'
  <1>1. /\ RingOK' /\ (SubmitFrame => Puts) /\ (~SubmitFrame => Takes \/ Leaves)
    BY StepFrames DEF Order
  <1>2. /\ Waiting \in Seq(Times) /\ encoded \in Seq(Times)
        /\ bufs[captureIdx].frame \in Times
    BY WaitingTyped DEF Order, IInv, TypeOK, PoolTypeOK, ThreadTypeOK, Pool, Buffer
  <1>3. Stream \in Seq(Times)
    BY <1>2, ConcatProperties DEF Stream
  <1>4. Shooting' => bufs'[captureIdx'].frame = clock'
    BY StepShot DEF Order
  <1>5. ~synced' => encoded' = << >>
    <2> SUFFICES ASSUME ~synced' PROVE encoded' = << >>
      OBVIOUS
    <2>1. encoded = << >> /\ ~AddFrame
      BY StepSynced DEF Order
    <2>2. encoded' = encoded
      <3>1. CASE SubmitFrame
        BY <3>1 DEF SubmitFrame
      <3>2. CASE ~SubmitFrame
        BY <1>1, <2>1, <3>2 DEF Takes, Leaves
      <3> QED BY <3>1, <3>2
    <2> QED BY <2>1, <2>2
  <1> DEFINE aimed == main \in {"top", "free", "copying", "dispatching"}
  <1>6. ASSUME displayOk'
        PROVE  Following(Stream') /\ (aimed' => Newest(Stream', Aim'))
    <2>1. displayOk /\ Following(Stream) /\ (aimed => Newest(Stream, Aim))
      <3>1. displayOk
        BY <1>6, DisplayStays
      <3> QED BY <3>1 DEF Order, Aim
    <2>2. aimed' => aimed /\ (SubmitFrame => Aim = clock - 1 /\ Aim' = clock)
                          /\ (~SubmitFrame => Aim' = Aim)
      BY <1>6, StepAim
    <2>3. CASE SubmitFrame
      <3>1. /\ Shooting /\ encoded' = encoded /\ main' = "top"
            /\ bufs[captureIdx].frame = clock
        BY <1>6, <2>1, <2>3 DEF SubmitFrame, DispatchEnds, Shooting, Order
      <3>2. Stream' = Append(Stream, clock)
        BY <1>1, <1>2, <2>3, <3>1, RowAppends DEF Puts, Stream
      <3>3. Newest(Stream, clock - 1)
        BY <2>1, <2>2, <2>3, <3>1
      <3>4. Following(Stream') /\ Newest(Stream', clock)
        BY <1>2, <1>3, <2>1, <3>1, <3>2, <3>3, RowGrows
      <3> QED BY <2>2, <2>3, <3>4
    <2>4. CASE ~SubmitFrame /\ Leaves
      <3>1. Stream' = Stream
        BY <2>4 DEF Leaves, Stream
      <3> QED BY <2>1, <2>2, <2>4, <3>1
    <2>5. CASE ~SubmitFrame /\ Takes
      <3>1. CASE encoded' = Append(encoded, Head(Waiting))
        <4>1. Stream' = Stream
          BY <1>2, <2>5, <3>1, RowMoves DEF Takes, Stream
        <4> QED BY <2>1, <2>2, <2>5, <4>1
      <3>2. CASE encoded' = encoded /\ encoded = << >>
        <4>1. Stream = Waiting /\ Stream' = Tail(Waiting) /\ Waiting # << >>
          <5>1. Tail(Waiting) \in Seq(Times)
            BY <1>2, <2>5, HeadTailProperties DEF Takes
          <5> QED BY <1>2, <2>5, <3>2, <5>1, ConcatEmptySeq DEF Takes, Stream
        <4>2. Following(Stream')
          BY <1>2, <2>1, <4>1, RowShortens DEF Newest
        <4>3. aimed' => Newest(Stream', Aim')
          <5> SUFFICES ASSUME aimed' PROVE Newest(Stream', Aim')
            OBVIOUS
          <5>1. Newest(Waiting, Aim) /\ Aim' = Aim
            BY <2>1, <2>2, <2>5, <4>1
          <5>2. Newest(Tail(Waiting), Aim)
            BY <1>2, <2>1, <4>1, <5>1, RowShortens
          <5> QED BY <4>1, <5>1, <5>2
        <4> QED BY <4>2, <4>3
      <3> QED BY <2>5, <3>1, <3>2 DEF Takes
    <2> QED BY <1>1, <2>3, <2>4, <2>5
  <1> QED BY <1>1, <1>4, <1>5, <1>6 DEF Order, Aim

LEMMA Frames == Spec => [](IInv /\ Order)
  <1>1. Init => IInv /\ Order
    BY InitHolds, InitOrder
  <1>2. IInv /\ Order /\ [Next]_vars => (IInv /\ Order)'
    <2> SUFFICES ASSUME IInv, Order, [Next]_vars PROVE IInv' /\ Order'
      OBVIOUS
    <2>1. IInv'
      BY NextKeeps
    <2> QED BY <2>1, StepOrder
  <1> QED BY <1>1, <1>2, PTL DEF Spec

-----------------------------------------------------------------------------
(* The theorems.                                                           *)

(* Every variable keeps its type: the two indices stay inside a pool that  *)
(* never exceeds PoolSize, whatever happens to main and to the encoder.    *)
THEOREM TypeCorrect == Spec => []TypeOK
  <1>1. IInv => TypeOK
    BY DEF IInv
  <1> QED BY Invariance, <1>1, PTL

(* Whatever the size of the pool, and however it grows, the compositor     *)
(* writes into no buffer that the encoder reads or has yet to read.        *)
THEOREM BufferOwned == Spec => []CaptureOwnsBuffer
  <1>1. IInv => CaptureOwnsBuffer
    BY DEF IInv, Pool, Flags, Copying, Holding, CaptureOwnsBuffer, InHand,
           Indices, TypeOK, PoolTypeOK
  <1> QED BY Invariance, <1>1, PTL

(* The encoder and the audio thread never write to the muxer together,     *)
(* and without a sound backend, where nothing is locked, only one writes.  *)
THEOREM Exclusive == Spec => []MuxerExclusive
  <1>1. IInv => MuxerExclusive
    BY DEF IInv, Locks
  <1> QED BY Invariance, <1>1, PTL

(* A thread that waits for the second of the muxer's locks is the next to  *)
(* write: the other one cannot take its turn twice.                        *)
THEOREM NoneOvertakes == Spec => NoOvertaking
  <1> DEFINE Fair == /\ (audio = "fmt" => ~(writer # "write" /\ writer' = "write"))
                     /\ (writer = "fmt" => ~(audio # "write" /\ audio' = "write"))
  <1>1. IInv /\ [Next]_vars => [Fair]_vars
    <2> SUFFICES ASSUME IInv, Next PROVE Fair
      OBVIOUS
    <2>1. ASSUME audio = "fmt", writer # "write", writer' = "write" PROVE FALSE
      <3>1. backend # "none" /\ writer # "fmt"
        BY <2>1 DEF IInv, Locks, Silent, Queued
      <3>2. CASE MainStep \/ Compositor \/ Interrupt \/ EncoderUnusable
        BY <2>1, <3>2 DEF MainStep, LoopTest, RequestFrame, Dispatch, StopCapture, SubmitFrame,
             Join, Compositor, FrameReady, FrameFailed, BufferFailed, OtherEvent, BufferUnusable,
             DisplayLost, Interrupt, EncoderUnusable
      <3>3. CASE WriterStep \/ AddFrameFails \/ MapFails \/ VideoLock
        BY <2>1, <3>1, <3>3 DEF WriterStep, TakeFrame, DropFrame, AddFrame,
             ReleaseFrame, LeaveWriteLoop, CloseWriter, VideoWrite, AddFrameFails,
             MapFails, VideoLock, WriterAt
      <3>4. CASE AudioLock \/ AudioPacket \/ AudioKept \/ AudioWrite \/ AudioFails
        BY <2>1, <3>4 DEF AudioLock, AudioPacket, AudioKept, AudioWrite, AudioFails
      <3> QED BY <3>2, <3>3, <3>4 DEF Next, EncoderErrors
    <2>2. ASSUME writer = "fmt", audio # "write", audio' = "write" PROVE FALSE
      <3>1. audio # "fmt"
        BY <2>2 DEF IInv, Locks, Queued
      <3>2. CASE MainStep \/ Compositor \/ Interrupt \/ EncoderUnusable
        BY <2>2, <3>2 DEF MainStep, LoopTest, RequestFrame, Dispatch, StopCapture, SubmitFrame,
             Join, Compositor, FrameReady, FrameFailed, BufferFailed, OtherEvent, BufferUnusable,
             DisplayLost, Interrupt, EncoderUnusable, audioVars
      <3>3. CASE WriterStep \/ AddFrameFails \/ MapFails \/ VideoLock
        BY <2>2, <3>3 DEF WriterStep, TakeFrame, DropFrame, AddFrame,
             ReleaseFrame, LeaveWriteLoop, CloseWriter, VideoWrite, AddFrameFails,
             MapFails, VideoLock, StartAudio, WriterAt, audioVars
      <3>4. CASE AudioLock \/ AudioPacket \/ AudioKept \/ AudioWrite \/ AudioFails
        BY <2>2, <3>1, <3>4 DEF AudioLock, AudioPacket, AudioKept, AudioWrite,
             AudioFails, AudioTurn, AudioAt
      <3> QED BY <3>2, <3>3, <3>4 DEF Next, EncoderErrors
    <2> QED BY <2>1, <2>2
  <1> HIDE DEF Fair
  <1>2. Spec => [][Fair]_vars
    BY Invariance, <1>1, PTL DEF Spec
  <1> QED BY <1>2 DEF NoOvertaking, Fair

(* While the display answers, each frame that is encoded follows the one   *)
(* before it: the pool, growing under both threads, loses and repeats      *)
(* none.                                                                   *)
THEOREM NoneLost == Spec => []NoFrameLost
  <1>1. IInv /\ Order => NoFrameLost
    <2> SUFFICES ASSUME IInv, Order, displayOk, NEW i \in 1 .. Len(encoded) - 1
                 PROVE  encoded[i + 1] = encoded[i] + 1
      BY DEF NoFrameLost
    <2>1. Waiting \in Seq(Times) /\ encoded \in Seq(Times)
      BY WaitingTyped DEF Order, IInv, TypeOK, ThreadTypeOK, Pool
    <2>2. /\ Len(Stream) = Len(encoded) + Len(Waiting)
          /\ Len(encoded) \in Nat /\ Len(Waiting) \in Nat
          /\ \A k \in 1 .. Len(encoded) : Stream[k] = encoded[k]
      BY <2>1, ConcatProperties, LenProperties DEF Stream
    <2>3. /\ i \in 1 .. Len(Stream) - 1
          /\ i \in 1 .. Len(encoded) /\ i + 1 \in 1 .. Len(encoded)
      BY <2>2
    <2>4. Stream[i + 1] = Stream[i] + 1
      BY <2>3 DEF Order, Following
    <2> QED BY <2>2, <2>3, <2>4
  <1> QED BY Frames, <1>1, PTL

(* The ring of buffers implements the queue: every step of the recorder    *)
(* puts one frame at the end of the queue, hands the first one to the      *)
(* encoder, discards the first one, or leaves both as they are.            *)
THEOREM KeepsQueue == Spec => Implements
  <1>1. Init => Queue!Init
    BY InitOrder DEF Init, Queue!Init
  <1>2. IInv /\ IInv' /\ Order /\ [Next]_vars => [Queue!Next]_(Queue!vars)
    <2> SUFFICES ASSUME IInv, IInv', Order, [Next]_vars
                 PROVE  Queue!Next \/ UNCHANGED Queue!vars
      OBVIOUS
    <2>1. (SubmitFrame => Puts) /\ (~SubmitFrame => Takes \/ Leaves)
      BY StepFrames DEF Order
    <2>2. CASE SubmitFrame
      <3>1. bufs[captureIdx].frame \in Times
        BY DEF IInv, TypeOK, PoolTypeOK, Buffer
      <3>2. UNCHANGED encoded
        BY <2>2 DEF SubmitFrame
      <3> QED BY <2>1, <2>2, <3>1, <3>2 DEF Puts, Queue!Next, Queue!Put
    <2>3. CASE Takes
      BY <2>3 DEF Takes, Queue!Next, Queue!Encode, Queue!Discard
    <2>4. CASE Leaves
      BY <2>4 DEF Leaves, Queue!vars
    <2> QED BY <2>1, <2>2, <2>3, <2>4
  <1> QED BY Frames, <1>1, <1>2, PTL DEF Spec, Implements, Queue!Spec
=============================================================================
