------------------------- MODULE FfmpegCameraProofs -------------------------
(***************************************************************************)
(* Proofs about FfmpegCamera for every set of geometries and failures.    *)
(*                                                                         *)
(* NoUseAfterFree rests on the ownership discipline of AvCamera: a        *)
(* Capture is stored only once init succeeded, what its fields point to   *)
(* is live for as long as it is stored, and shutdown() frees it and       *)
(* forgets it in one step.  FrameSizeMatchesConfig rests on the output    *)
(* buffer being sized for the configured resolution whenever it exists,   *)
(* and existing whenever the read loop runs.                               *)
(***************************************************************************)
EXTENDS FfmpegCamera, TLAPS

(* The ownership invariant.                                                *)
OwnInv ==
  /\ TypeOK
  /\ ~uaf
  /\ capture => LoopObjects \subseteq fields /\ fields \subseteq heap
  /\ ~capture => fields = {}
  /\ pc = "reading" => capture
  /\ status = "new" => ~capture

LEMMA AcquiredType ==
  ASSUME NEW f \in InitSteps \cup {"none"}, NEW left \in BOOLEAN
  PROVE  Acquired(f, left) \subseteq Objects
  BY DEF Acquired, InitSteps, Objects

LEMMA InitOwnInv == Init => OwnInv
<1> SUFFICES ASSUME Init PROVE OwnInv
  OBVIOUS
<1>1. TypeOK
  BY DEF Init, TypeOK, Objects
<1>. QED BY <1>1 DEF Init, OwnInv

LEMMA NextOwnInv == OwnInv /\ [Next]_vars => OwnInv'
<1> SUFFICES ASSUME OwnInv, [Next]_vars PROVE OwnInv'
  OBVIOUS
<1> USE DEF OwnInv, TypeOK, LoopObjects, Objects
<1>1. CASE \E s \in Settings, f \in InitFailures \cup {"none"}, left \in BOOLEAN :
             Initialize(s, f, left)
  <2>1. PICK s \in Settings, f \in InitFailures \cup {"none"}, left \in BOOLEAN :
               Initialize(s, f, left)
    BY <1>1
  <2>2. Acquired(f, left) \subseteq Objects
    BY AcquiredType, InitFailuresType
  <2>3. Acquired("none", left) = {"ctx", "codec", "packet", "frame"} \cup
                                 (IF left THEN {"dict"} ELSE {})
    BY DEF Acquired
  <2>4. s.resolution \in Geometries \cup {"malformed"}
    BY DEF Settings
  <2>5. CASE s.resolution = "malformed" \/ s.framerate = "absent"
    <3>1. UNCHANGED <<capture, buffer, resolution, fields, heap, pkt>>
          /\ status' \in {"failed", "panicked"}
      BY <2>1, <2>5 DEF Initialize
    <3>. QED BY <2>1, <3>1 DEF Initialize
  <2>6. CASE s.resolution # "malformed" /\ s.framerate # "absent" /\ f # "none"
    <3>1. /\ status' = "failed" /\ buffer' = s.resolution
          /\ resolution' = s.resolution /\ heap' = Acquired(f, left)
          /\ UNCHANGED <<capture, fields, pkt>>
      BY <2>1, <2>6 DEF Initialize
    <3>. QED BY <2>1, <2>2, <2>4, <2>6, <3>1 DEF Initialize
  <2>7. CASE s.resolution # "malformed" /\ s.framerate # "absent" /\ f = "none"
    <3>1. /\ status' = "ready" /\ capture' = TRUE /\ buffer' = s.resolution
          /\ resolution' = s.resolution /\ heap' = Acquired("none", left)
          /\ fields' = LoopObjects /\ pkt' = "uninit"
      BY <2>1, <2>7 DEF Initialize
    <3>. QED BY <2>1, <2>3, <2>4, <2>7, <3>1 DEF Initialize
  <2>. QED BY <2>5, <2>6, <2>7
<1>2. CASE NextNoDevice
  BY <1>2 DEF NextNoDevice
<1>3. CASE NextStart
  BY <1>3 DEF NextStart
<1>4. CASE ReadFail
  BY <1>4 DEF ReadFail, Touch
<1>5. CASE ReadOther
  BY <1>5 DEF ReadOther, Touch, ReadPacket
<1>6. CASE DecodeError
  BY <1>6 DEF DecodeError, Touch, ReadPacket
<1>7. CASE DecodeNoPicture
  BY <1>7 DEF DecodeNoPicture, Touch
<1>8. CASE DecodePicture
  <2>1. PICK g \in Decoded :
          /\ heap' = heap \cup {"scratch"} /\ fields' = fields \cup {"scratch"}
          /\ scratch' = IF scratch = "none" THEN g ELSE scratch
          /\ lastFrame' \in {lastFrame, g}
          /\ pkt' \in {"blank", "ref"}
          /\ lost' \in Nat /\ sws' \in Nat /\ served' \in Nat
    BY <1>8 DEF DecodePicture
  <2>2. g \in Geometries
    BY DEF Decoded
  <2>3. uaf' = FALSE /\ pc' = "idle"
    BY <1>8 DEF DecodePicture, Touch
  <2>. QED BY <1>8, <2>1, <2>2, <2>3 DEF DecodePicture
<1>9. CASE Shutdown
  BY <1>9 DEF Shutdown
<1>10. CASE Disconnect
  BY <1>10 DEF Disconnect
<1>11. CASE Gone
  BY <1>11 DEF Gone, vars
<1>12. CASE UNCHANGED vars
  BY <1>12 DEF vars
<1>. QED BY <1>1, <1>2, <1>3, <1>4, <1>5, <1>6, <1>7, <1>8, <1>9, <1>10,
            <1>11, <1>12 DEF Next

(* No native call of the camera, in the read loop or in shutdown(), ever  *)
(* touches an object that was already freed.                               *)
THEOREM NeverUseAfterFree == Spec => []NoUseAfterFree
<1>1. OwnInv => NoUseAfterFree
  BY DEF OwnInv, NoUseAfterFree
<1>. QED BY <1>1, InitOwnInv, NextOwnInv, PTL DEF Spec

(* The camera's variables keep their types, whatever fails and in         *)
(* whatever order the client calls next() and shutdown().                  *)
THEOREM FfmpegTypeCorrect == Spec => []TypeOK
<1>1. OwnInv => TypeOK
  BY DEF OwnInv
<1>. QED BY <1>1, InitOwnInv, NextOwnInv, PTL DEF Spec

(* The frame invariant: the output buffer is sized for the configured     *)
(* resolution while it exists, and exists while the read loop runs; the   *)
(* picture of the last frame returned had the configured byte count; a    *)
(* camera not yet initialised has returned no frame.                       *)
FrameInv ==
  /\ buffer # "none" => buffer = resolution
  /\ pc = "reading" => buffer # "none"
  /\ lastFrame # "none" => BufferSize[lastFrame] = BufferSize[resolution]
  /\ status = "new" => lastFrame = "none"

LEMMA InitFrameInv == Init => FrameInv
  BY DEF Init, FrameInv

LEMMA NextFrameInv == OwnInv /\ FrameInv /\ [Next]_vars => FrameInv'
<1> SUFFICES ASSUME OwnInv, FrameInv, [Next]_vars PROVE FrameInv'
  OBVIOUS
<1> USE DEF FrameInv
<1>1. CASE \E s \in Settings, f \in InitFailures \cup {"none"}, left \in BOOLEAN :
             Initialize(s, f, left)
  <2>1. PICK s \in Settings, f \in InitFailures \cup {"none"}, left \in BOOLEAN :
               Initialize(s, f, left)
    BY <1>1
  <2>2. status = "new" /\ status' # "new" /\ lastFrame' = lastFrame /\ pc' = pc
    BY <2>1 DEF Initialize
  <2>3. pc = "idle" /\ lastFrame = "none"
    BY <2>2 DEF OwnInv, TypeOK
  <2>4. buffer' = resolution' \/ UNCHANGED <<buffer, resolution>>
    BY <2>1 DEF Initialize
  <2>. QED BY <2>2, <2>3, <2>4
<1>2. CASE DecodePicture
  <2>1. PICK g \in Decoded :
          \/ BufferSize[buffer] = BufferSize[g] /\ lastFrame' = g
          \/ lastFrame' = lastFrame
    BY <1>2 DEF DecodePicture
  <2>2. UNCHANGED <<status, buffer, resolution>> /\ pc' = "idle"
    BY <1>2 DEF DecodePicture
  <2>3. status # "new" /\ buffer = resolution
    BY <1>2 DEF DecodePicture, OwnInv
  <2>. QED BY <2>1, <2>2, <2>3
<1>3. CASE Shutdown
  BY <1>3 DEF Shutdown
<1>4. CASE NextNoDevice
  BY <1>4 DEF NextNoDevice
<1>5. CASE NextStart
  BY <1>5 DEF NextStart
<1>6. CASE ReadFail \/ ReadOther \/ DecodeError \/ DecodeNoPicture \/ Disconnect
  BY <1>6 DEF ReadFail, ReadOther, DecodeError, DecodeNoPicture, Disconnect
<1>7. CASE Gone \/ UNCHANGED vars
  BY <1>7 DEF Gone, vars
<1>. QED BY <1>1, <1>2, <1>3, <1>4, <1>5, <1>6, <1>7 DEF Next

(* Every frame next() returns was filled by a picture of the configured   *)
(* byte count, for every set of geometries and byte counts, also when the *)
(* device delivers another geometry than configured or changes it         *)
(* mid-stream: the length check in capture_next_frame rejects the others. *)
THEOREM FrameSizesMatchConfig == Spec => []FrameSizeMatchesConfig
<1>1. FrameInv => FrameSizeMatchesConfig
  BY DEF FrameInv, FrameSizeMatchesConfig
<1>2. Spec => [](OwnInv /\ FrameInv)
  <2>1. Init => OwnInv /\ FrameInv
    BY InitOwnInv, InitFrameInv
  <2>2. OwnInv /\ FrameInv /\ [Next]_vars => (OwnInv /\ FrameInv)'
    BY NextOwnInv, NextFrameInv
  <2>. QED BY <2>1, <2>2, PTL DEF Spec
<1>. QED BY <1>1, <1>2, PTL

(* The refinement invariant: a stored Capture belongs to a Ready camera.  *)
RefInv ==
  /\ OwnInv
  /\ capture => status = "ready"

LEMMA InitRefInv == Init => RefInv
  BY InitOwnInv DEF Init, RefInv

LEMMA NextRefInv == RefInv /\ [Next]_vars => RefInv'
<1> SUFFICES ASSUME RefInv, [Next]_vars PROVE RefInv'
  OBVIOUS
<1>1. OwnInv'
  BY NextOwnInv DEF RefInv
<1>2. capture' => status' = "ready"
  <2>1. CASE \E s \in Settings, f \in InitFailures \cup {"none"}, left \in BOOLEAN :
             Initialize(s, f, left)
    BY <2>1 DEF Initialize, RefInv, OwnInv
  <2>2. CASE Shutdown
    BY <2>2 DEF Shutdown
  <2>3. CASE DecodePicture
    BY <2>3 DEF RefInv, DecodePicture
  <2>4. CASE NextNoDevice
    BY <2>4 DEF RefInv, NextNoDevice
  <2>5. CASE NextStart
    BY <2>5 DEF RefInv, NextStart
  <2>6. CASE ReadFail
    BY <2>6 DEF RefInv, ReadFail
  <2>7. CASE ReadOther
    BY <2>7 DEF RefInv, ReadOther
  <2>8. CASE DecodeError
    BY <2>8 DEF RefInv, DecodeError
  <2>9. CASE DecodeNoPicture
    BY <2>9 DEF RefInv, DecodeNoPicture
  <2>10. CASE Disconnect
    BY <2>10 DEF RefInv, Disconnect
  <2>11. CASE Gone
    BY <2>11 DEF RefInv, Gone, vars
  <2>12. CASE UNCHANGED vars
    BY <2>12 DEF RefInv, vars
  <2>. QED BY <2>1, <2>2, <2>3, <2>4, <2>5, <2>6, <2>7, <2>8, <2>9, <2>10, <2>11, <2>12 DEF Next
<1>. QED BY <1>1, <1>2 DEF RefInv

(* Every step of the camera is a step of the abstract session or leaves   *)
(* its phase and its frame count alone.                                    *)
LEMMA StepRefines == RefInv /\ [Next]_vars => [Session!Next]_Session!vars
<1> SUFFICES ASSUME RefInv, [Next]_vars PROVE [Session!Next]_Session!vars
  OBVIOUS
<1> USE DEF Session!vars, SessionPhase
<1>1. CASE \E s \in Settings, f \in InitFailures \cup {"none"}, left \in BOOLEAN :
             Initialize(s, f, left)
  <2>1. status = "new" /\ status' \in {"ready", "failed", "panicked"} /\ served' = served
    BY <1>1 DEF Initialize
  <2>. QED BY <2>1 DEF Session!Next, Session!Open
<1>2. CASE DecodePicture
  <2>1. status = "ready"
    BY <1>2 DEF RefInv, OwnInv, DecodePicture
  <2>2. status' = status /\ served' \in {served, served + 1}
    BY <1>2 DEF DecodePicture
  <2>. QED BY <2>1, <2>2 DEF Session!Next, Session!Serve
<1>3. CASE Shutdown
  <2>1. status \in {"ready", "closed"} /\ status' = "closed" /\ served' = served
    BY <1>3 DEF Shutdown
  <2>. QED BY <2>1 DEF Session!Next, Session!Close
<1>4. CASE NextNoDevice
  BY <1>4 DEF NextNoDevice
<1>5. CASE NextStart
  BY <1>5 DEF NextStart
<1>6. CASE ReadFail
  BY <1>6 DEF ReadFail
<1>7. CASE ReadOther
  BY <1>7 DEF ReadOther
<1>8. CASE DecodeError
  BY <1>8 DEF DecodeError
<1>9. CASE DecodeNoPicture
  BY <1>9 DEF DecodeNoPicture
<1>10. CASE Disconnect
  BY <1>10 DEF Disconnect
<1>11. CASE Gone
  BY <1>11 DEF Gone, vars
<1>12. CASE UNCHANGED vars
  BY <1>12 DEF vars
<1>. QED BY <1>1, <1>2, <1>3, <1>4, <1>5, <1>6, <1>7, <1>8, <1>9, <1>10, <1>11, <1>12 DEF Next

(* AvCamera implements the capture session of spec section 4.2: frames    *)
(* are returned only between a successful initialize() and shutdown().    *)
THEOREM SessionRefinement == Spec => ImplementsSession
<1>1. Init => Session!Init
  BY DEF Init, Session!Init, SessionPhase
<1>2. Spec => []RefInv
  BY InitRefInv, NextRefInv, PTL DEF Spec
<1>. QED BY <1>1, <1>2, StepRefines, PTL DEF Spec, ImplementsSession, Session!Spec

=============================================================================
