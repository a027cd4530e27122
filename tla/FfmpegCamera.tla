---------------------------- MODULE FfmpegCamera ----------------------------
(***************************************************************************)
(* The hardware backend: AvCamera (src/src/hardware/ffmpeg_camera.rs)     *)
(* over Capture (src/crates/rust-ffmpeg-capture/src/lib.rs), with the     *)
(* native objects it allocates through libav.                              *)
(*                                                                         *)
(* heap is the set of live native objects: the format context (ctx), the *)
(* device options dictionary (dict), the opened decoder (codec), the      *)
(* packet, the decode frame and the scratch frame of the conversion.      *)
(* fields is the set of them that Option fields of the live Capture point *)
(* to.  sws counts SwsContexts (one per conversion); lost counts packet   *)
(* payloads whose last reference was overwritten.  Geometries are opaque  *)
(* values with the byte count BufferSize of an RGB24 image of that shape   *)
(* (w*h*3): two shapes may have the same count.  The u32 size arithmetic *)
(* is PixelConversion's subject.                                           *)
(*                                                                         *)
(* The client is any holder of the camera: after the factory it calls     *)
(* next() and shutdown() in any order.  Inside next() the packet loop of  *)
(* capture_next_frame is one step per av_read_frame.                      *)
(***************************************************************************)
EXTENDS Integers

CONSTANTS
  Geometries,         \* resolutions ("WxH") a setting or a device may have
  InitFailures,       \* the steps of Capture::init that may fail
  OtherStreams,       \* the device also delivers packets of non-video streams
  MayDisconnect,      \* the device may be unplugged while streaming
  GeometryMayChange,  \* the decoder may change frame size mid-stream
  BufferSize          \* bytes of an RGB24 picture of each geometry

InitSteps == {"driver", "open", "stream_info", "no_stream", "no_codec", "codec_open"}

ASSUME GeometriesType == Geometries # {} /\ "malformed" \notin Geometries
ASSUME InitFailuresType == InitFailures \subseteq InitSteps
ASSUME BufferSizeType == BufferSize \in [Geometries -> Nat]
ASSUME FlagsType == {OtherStreams, MayDisconnect, GeometryMayChange} \subseteq BOOLEAN

(* The settings initialize() may see: the resolution string (well formed  *)
(* or not) and whether the framerate key is present.                       *)
Settings == [resolution : Geometries \cup {"malformed"}, framerate : {"set", "absent"}]

VARIABLES
  status,      \* "new", "ready", "failed", "closed", "panicked"
  pc,          \* "idle", or "reading" inside capture_next_frame
  capture,     \* self.capture is Some
  buffer,      \* self.buffer: "none" or the geometry it was sized for
  resolution,  \* capture.settings.resolution
  device,      \* the geometry the device negotiated
  connected,   \* the device is still plugged in
  fields,      \* native objects the Option fields of self.capture point to
  heap,        \* live native objects
  scratch,     \* geometry of self.transcode_frame, "none" before the first
  pkt,         \* contents of the packet: "uninit", "blank" or "ref"
  sws,         \* SwsContexts allocated (none is ever freed)
  lost,        \* packet payloads leaked by overwriting the packet
  lastFrame,   \* geometry of the picture the last frame next() returned came from
  uaf,         \* a native call was made on a freed object
  ub,          \* a native call read uninitialised memory
  served       \* history: frames next() has returned

vars == <<status, pc, capture, buffer, resolution, device, connected, fields,
          heap, scratch, pkt, sws, lost, lastFrame, uaf, ub, served>>

-----------------------------------------------------------------------------
(* The native objects left live when Capture::init stops at step f         *)
(* ("none": it succeeded).  avformat_open_input frees the context when it  *)
(* fails and leaves the caller's options dictionary alone; when it        *)
(* succeeds it replaces the dictionary by the options the backend did not *)
(* consume (left), which is empty or not.  Nothing frees either.          *)
Acquired(f, left) ==
  LET dict == IF left THEN {"dict"} ELSE {} IN
  CASE f = "driver" -> {"ctx"}
    [] f = "open"   -> {"dict"}
    [] f \in {"stream_info", "no_stream", "no_codec", "codec_open"} -> {"ctx"} \cup dict
    [] f = "none"   -> {"ctx", "codec", "packet", "frame"} \cup dict

(* Geometries a decoded picture may have.                                  *)
Decoded == IF GeometryMayChange THEN Geometries ELSE {device}

(* What av_read_frame does to the packet on success: a payload it still    *)
(* referenced is lost.                                                     *)
ReadPacket ==
  /\ lost' = IF pkt = "ref" THEN lost + 1 ELSE lost
  /\ pkt' = "ref"

(* A native call on the objects objs; it is a use after free unless all   *)
(* of them are live.                                                       *)
Touch(objs) == uaf' = (uaf \/ ~(objs \subseteq heap))

(* What a successful init leaves in the Capture's fields, and what every   *)
(* iteration of the read loop uses (collect_state).                        *)
LoopObjects == {"ctx", "codec", "packet", "frame"}

Init ==
  /\ status = "new"
  /\ pc = "idle"
  /\ capture = FALSE
  /\ buffer = "none"
  /\ resolution = "none"
  /\ device \in Geometries
  /\ connected = TRUE
  /\ fields = {}
  /\ heap = {}
  /\ scratch = "none"
  /\ pkt = "uninit"
  /\ sws = 0
  /\ lost = 0
  /\ lastFrame = "none"
  /\ uaf = FALSE
  /\ ub = FALSE
  /\ served = 0

(* CameraFactory::create_camera -> AvCamera::initialize.  The settings are *)
(* read in field order: a malformed resolution is InvalidSettings before   *)
(* anything is allocated; ConfigMap::get_u32 indexes the map, so a missing *)
(* framerate panics.  Then the buffer is sized and capture.init() runs; on *)
(* an error the local Capture is dropped (it has no Drop) and the factory *)
(* drops the camera.                                                       *)
Initialize(s, f, left) ==
  /\ status = "new"
  /\ IF s.resolution = "malformed" THEN
            /\ status' = "failed"
            /\ UNCHANGED <<capture, buffer, resolution, fields, heap, pkt>>
       ELSE IF s.framerate = "absent" THEN
            /\ status' = "panicked"
            /\ UNCHANGED <<capture, buffer, resolution, fields, heap, pkt>>
       ELSE IF f # "none" THEN
            /\ status' = "failed"
            /\ buffer' = s.resolution
            /\ resolution' = s.resolution
            /\ heap' = Acquired(f, left)
            /\ UNCHANGED <<capture, fields, pkt>>
       ELSE
            /\ status' = "ready"
            /\ capture' = TRUE
            /\ buffer' = s.resolution
            /\ resolution' = s.resolution
            /\ heap' = Acquired("none", left)
            /\ fields' = LoopObjects
            /\ pkt' = "uninit"
  /\ UNCHANGED <<pc, device, connected, scratch, sws, lost, lastFrame, uaf, ub, served>>

(* next() on a camera without a capture or a buffer:                      *)
(* DeviceNoLongerAvailable.                                                *)
NextNoDevice ==
  /\ status \in {"ready", "closed"}
  /\ pc = "idle"
  /\ ~(capture /\ buffer # "none")
  /\ lastFrame' = "none"
  /\ UNCHANGED <<status, pc, capture, buffer, resolution, device, connected, fields,
                 heap, scratch, pkt, sws, lost, uaf, ub, served>>

(* next() with a capture and a buffer: capture.read -> capture_next_frame. *)
NextStart ==
  /\ status \in {"ready", "closed"}
  /\ pc = "idle"
  /\ capture
  /\ buffer # "none"
  /\ pc' = "reading"
  /\ lastFrame' = "none"
  /\ UNCHANGED <<status, capture, buffer, resolution, device, connected, fields,
                 heap, scratch, pkt, sws, lost, uaf, ub, served>>

(* av_read_frame fails (no data yet, or the device is gone): continue.     *)
(* ff_read_packet has reset the packet first, dropping a payload it held. *)
ReadFail ==
  /\ pc = "reading"
  /\ lost' = IF pkt = "ref" THEN lost + 1 ELSE lost
  /\ pkt' = "blank"
  /\ Touch(LoopObjects)
  /\ UNCHANGED <<status, pc, capture, buffer, resolution, device, connected, fields,
                 heap, scratch, sws, lastFrame, ub, served>>

(* A packet of another stream: continue without av_packet_unref.           *)
ReadOther ==
  /\ pc = "reading"
  /\ connected
  /\ OtherStreams
  /\ ReadPacket
  /\ Touch(LoopObjects)
  /\ UNCHANGED <<status, pc, capture, buffer, resolution, device, connected, fields,
                 heap, scratch, sws, lastFrame, ub, served>>

(* A video packet that avcodec_decode_video2 rejects: return the error.    *)
DecodeError ==
  /\ pc = "reading"
  /\ connected
  /\ ReadPacket
  /\ Touch(LoopObjects)
  /\ pc' = "idle"
  /\ UNCHANGED <<status, capture, buffer, resolution, device, connected, fields,
                 heap, scratch, sws, lastFrame, ub, served>>

(* A video packet that completes no picture: unref the packet, continue.  *)
DecodeNoPicture ==
  /\ pc = "reading"
  /\ connected
  /\ lost' = IF pkt = "ref" THEN lost + 1 ELSE lost
  /\ pkt' = "blank"
  /\ Touch(LoopObjects)
  /\ UNCHANGED <<status, pc, capture, buffer, resolution, device, connected, fields,
                 heap, scratch, sws, lastFrame, ub, served>>

(* Mutant: no check of the buffer size against the picture.               *)
DecodePictureNoSizeCheck ==
  /\ pc = "reading"
  /\ connected
  /\ \E g \in Decoded :
       /\ lost' = IF pkt = "ref" THEN lost + 1 ELSE lost
       /\ sws' = sws + 1
       /\ scratch' = IF scratch = "none" THEN g ELSE scratch
       /\ heap' = heap \cup {"scratch"}
       /\ fields' = fields \cup {"scratch"}
       /\ pkt' = "blank"
       /\ lastFrame' = g
       /\ served' = served + 1
  /\ Touch(LoopObjects)
  /\ pc' = "idle"
  /\ UNCHANGED <<status, capture, buffer, resolution, device, connected, ub>>

(* A decoded picture of geometry g: convert_frame makes a SwsContext and  *)
(* allocates the scratch frame on first use with g; sws_scale writes g    *)
(* into the scratch.  Then the output buffer's length must equal g's      *)
(* byte count (InvalidBuffer otherwise, the packet still referenced); the *)
(* picture is copied, the packet unref'd, and Encoding wraps the buffer   *)
(* as a frame of the configured resolution.                                *)
DecodePicture ==
  /\ pc = "reading"
  /\ connected
  /\ \E g \in Decoded :
       /\ lost' = IF pkt = "ref" THEN lost + 1 ELSE lost
       /\ sws' = sws + 1
       /\ scratch' = IF scratch = "none" THEN g ELSE scratch
       /\ heap' = heap \cup {"scratch"}
       /\ fields' = fields \cup {"scratch"}
       /\ IF BufferSize[buffer] = BufferSize[g]
            THEN /\ pkt' = "blank"
                 /\ lastFrame' = g
                 /\ served' = served + 1
            ELSE /\ pkt' = "ref"
                 /\ UNCHANGED <<lastFrame, served>>
  /\ Touch(LoopObjects)
  /\ pc' = "idle"
  /\ UNCHANGED <<status, capture, buffer, resolution, device, connected, ub>>

(* Mutant: shutdown() returns Ok and releases nothing.                     *)
ShutdownNoop ==
  /\ status \in {"ready", "closed"}
  /\ pc = "idle"
  /\ status' = "closed"
  /\ UNCHANGED <<pc, capture, buffer, resolution, device, connected, fields, heap,
                 scratch, pkt, sws, lost, lastFrame, uaf, ub, served>>

(* Mutant: shutdown() frees the capture but leaves self.capture set.       *)
ShutdownKeepsCapture ==
  /\ status \in {"ready", "closed"}
  /\ pc = "idle"
  /\ status' = "closed"
  /\ buffer' = "none"
  /\ IF capture
       THEN /\ heap' = heap \ fields
            /\ uaf' = (uaf \/ ~(fields \subseteq heap))
            /\ ub' = (ub \/ ("packet" \in fields /\ pkt = "uninit"))
       ELSE UNCHANGED <<heap, uaf, ub>>
  /\ UNCHANGED <<capture, fields, pc, resolution, device, connected, scratch, pkt, sws, lost, lastFrame, served>>

(* shutdown(): take the capture and free what its fields point to: close  *)
(* the decoder, av_free the frame, destroy the scratch, av_packet_free the *)
(* packet (which reads the packet's buffer reference, uninitialised when  *)
(* av_malloc'd and never read into), close the input.  Without a capture  *)
(* it does nothing.                                                        *)
Shutdown ==
  /\ status \in {"ready", "closed"}
  /\ pc = "idle"
  /\ status' = "closed"
  /\ capture' = FALSE
  /\ buffer' = "none"
  /\ fields' = {}
  /\ IF capture
       THEN /\ heap' = heap \ fields
            /\ uaf' = (uaf \/ ~(fields \subseteq heap))
            /\ ub' = (ub \/ ("packet" \in fields /\ pkt = "uninit"))
       ELSE UNCHANGED <<heap, uaf, ub>>
  /\ UNCHANGED <<pc, resolution, device, connected, scratch, pkt, sws, lost, lastFrame, served>>

(* The device is unplugged while the session is open.                     *)
Disconnect ==
  /\ MayDisconnect
  /\ status = "ready"
  /\ connected
  /\ connected' = FALSE
  /\ UNCHANGED <<status, pc, capture, buffer, resolution, device, fields, heap,
                 scratch, pkt, sws, lost, lastFrame, uaf, ub, served>>

(* The factory returned an error or the thread panicked.                   *)
Gone ==
  /\ status \in {"failed", "panicked"}
  /\ UNCHANGED vars

Next ==
  \/ \E s \in Settings, f \in InitFailures \cup {"none"}, left \in BOOLEAN :
       Initialize(s, f, left)
  \/ NextNoDevice
  \/ NextStart
  \/ ReadFail
  \/ ReadOther
  \/ DecodeError
  \/ DecodeNoPicture
  \/ DecodePicture
  \/ Shutdown
  \/ Disconnect
  \/ Gone

(* A connected device keeps delivering video packets: a read loop that is *)
(* entered again and again while they can arrive ends with one.           *)
Fairness == SF_vars(DecodeError \/ DecodePicture)

Spec == Init /\ [][Next]_vars /\ Fairness

-----------------------------------------------------------------------------
Objects == {"ctx", "dict", "codec", "packet", "frame", "scratch"}

TypeOK ==
  /\ status \in {"new", "ready", "failed", "closed", "panicked"}
  /\ pc \in {"idle", "reading"}
  /\ capture \in BOOLEAN
  /\ buffer \in Geometries \cup {"none"}
  /\ resolution \in Geometries \cup {"none"}
  /\ device \in Geometries
  /\ connected \in BOOLEAN
  /\ fields \subseteq Objects
  /\ heap \subseteq Objects
  /\ scratch \in Geometries \cup {"none"}
  /\ pkt \in {"uninit", "blank", "ref"}
  /\ sws \in Nat
  /\ lost \in Nat
  /\ lastFrame \in Geometries \cup {"none"}
  /\ uaf \in BOOLEAN
  /\ ub \in BOOLEAN
  /\ served \in Nat

(* No native call ever touches a freed object: the loop only runs on a    *)
(* capture whose objects are all live, and shutdown frees each once.      *)
NoUseAfterFree == ~uaf

(* Spec sections 4.2 and 5: a frame next() returns, which frame_from_slice *)
(* declares to be of the configured resolution, was filled by a picture   *)
(* of exactly its byte count: capture_next_frame's length check rejects   *)
(* any other picture the device delivers, whatever its geometry.          *)
FrameSizeMatchesConfig ==
  lastFrame # "none" => BufferSize[lastFrame] = BufferSize[resolution]

(* Spec section 4.2: when initialize() fails, every native resource the   *)
(* open sequence acquired has been released.                               *)
InitFailureReleases == status = "failed" => heap = {}

(* Spec sections 4.2 and 8: after shutdown() no native resource is left:  *)
(* every acquisition is matched by one release.                            *)
ShutdownReleasesAll == status = "closed" => (heap = {} /\ sws = 0 /\ lost = 0)

(* No native call reads uninitialised memory.                              *)
NoUndefinedBehaviour == ~ub

(* Spec section 8: shutdown() is safe to call after a successful run,    *)
(* with zero leaked native resources: it reads no uninitialised memory    *)
(* and leaves nothing allocated.                                           *)
ShutdownSafe == NoUndefinedBehaviour /\ ShutdownReleasesAll

(* Spec section 4.2: next() returns, with a frame or an error such as      *)
(* DeviceNoLongerAvailable when the device is gone.                        *)
NextReturns == (pc = "reading") ~> (pc = "idle")

(* initialize() reports bad settings as errors and never panics.           *)
NoPanic == status # "panicked"


-----------------------------------------------------------------------------
(* The refinement mapping onto the abstract session.  A panic inside      *)
(* initialize() ends the thread before the session left Uninitialized.    *)
SessionPhase ==
  IF status \in {"new", "panicked"} THEN "uninit" ELSE status

Session == INSTANCE CaptureSession WITH phase <- SessionPhase, served <- served

(* AvCamera implements the capture session of spec section 4.2: frames    *)
(* are returned only between a successful initialize() and shutdown(),    *)
(* never by a failed camera, and a shut-down camera returns no frame.     *)
ImplementsSession == Session!Spec

=============================================================================
