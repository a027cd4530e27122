# Verification of rust-snapshot

This directory holds TLA+ models of rust-snapshot, a time-lapse capture tool. The
models are checked by TLC on small instances, and the central safety properties
are proved for every value of the constants by TLAPS.

## The system

`bin/snapshot` reads a manifest and runs `App::run` (`src/src/app.rs`). The parts
of the system, and how they interact:

| part | source | role |
|---|---|---|
| App::run | `src/src/app.rs` | It creates the camera, builds a TimeProbe, optionally syncs the time over NTP and takes the lock file. Then, for each snapshot, it captures a frame, saves it and re-checks the lock. It shuts the camera down when the loop ends. |
| TimeProbe | `src/src/resources/time_probe.rs` | An iterator of timestamps, one every `interval` ms. `next()` busy-polls the monotonic clock and sleeps `idle` ms between polls. |
| CameraFactory | `src/src/hardware.rs` | Chooses the mock or the ffmpeg backend, initialises it, and drops it if initialisation fails. |
| MockCamera | `src/src/hardware/mock_camera.rs` | Replays the image files of a folder in file-name order, optionally repeating. It lists the folder through `ResourceFolder::require_existing` and `enumerate_files`, and reads the repeat flag through `ConfigMap::flag`. |
| AvCamera / Capture | `src/src/hardware/ffmpeg_camera.rs`, `src/crates/rust-ffmpeg-capture/src/lib.rs` | A V4L2 device opened through libav. It manages native objects by hand: the format context, the options dictionary, the codec, the packet, the frames and the SwsContext. |
| Encoding | `src/src/encoding.rs` (and `as_rgb_image` in the capture crate) | Turns an RGB byte buffer into an image, with u32 size arithmetic. |
| LockFile | `src/src/resources/lock_file.rs` | Running continues while the lock file exists. Deleting it is how a user stops the run. |
| ConfigMap | `src/src/resources/config_map.rs` | A string map of camera settings. |
| ImageLogger, ResourceFolder, exporter, bins | | File names, paths, spawning the ffmpeg CLI. |

Concurrency: `App::run` is one thread. The only other actor is whoever deletes
the lock file, and the camera device itself. The device may deliver packets of
other streams, fail to decode, negotiate another resolution, or be unplugged.

## Modules

Each component module has a header stating what it models. Its definitions are
listed with their source lines in `PROJECT.json` ("map").

* **Scheduler** (TimeProbe).
  * State: the monotonic clock in `SubMs` units per ms, `reference`, `moment`, `last`, `sampled`, the caller's position `pc`, the snapshots returned so far `snaps`, and a history counter `polls` (sleeps in the current `next()`).
  * Actions: `SyncNetworkTime`, `PullStart`/`PullEnd` (the early return), `Emit` (a poll that yields), `Sleep` (a poll that sleeps, possibly overshooting by up to `MaxOvershoot`) and `Consume` (the caller's work between pulls, up to `MaxWork`).
  * `time_scale` is normalised as in `new`. The model takes integral scales, for which f32 multiplication and floor are exact.
* **CaptureSession**: the abstract lifecycle of spec §4.2.
  * State: `phase` (uninit, ready, failed, closed) and `served`, the frames handed out.
  * Actions: `Open` (to ready or failed, once), `Serve` (only while ready) and `Close` (closed is terminal; closing again changes nothing).
  * A failed `next()` is a stutter.
* **MockCamera.**
  * A folder in `Folders` is a directory: a function from entry names to "image" or "other".
  * `Initialize(s)` covers four cases: no `use_mock_folder` key; a path `require_existing` rejects (`RequireExisting`); a path `read_dir` cannot open (`ReadDirOk`); and an existing folder. For an existing folder, `EnumerateFiles` lists the entries sorted by name (the i-th entry has i-1 names below it). The repeat value goes through `Flag`, which is `ConfigMap::flag` with `to_lowercase` over a small table of values.
  * The other actions are `NextExhausted`, `NextOutOfBounds` (the index panic), `NextRead` (a decodable or undecodable entry) and `Shutdown`.
  * `log` records each `next()` outcome with the name of the entry served.
* **FfmpegCamera** (AvCamera over Capture).
  * `heap` is the set of live native objects and `fields` what the Capture's pointers refer to. `pkt` is the packet state: uninitialised, blank, or holding a reference.
  * `sws` counts leaked SwsContexts and `lost` counts packet references overwritten by `av_read_frame`.
  * `uaf` and `ub` are flags raised by a use after free and a free of an uninitialised packet.
  * Geometries are model values. `BufferSize` gives each one its byte count (width * height * 3), and two shapes may share a count, as 640x480 and 480x640 do.
  * `Initialize(s, f, left)` covers the settings checks, the parse, the buffer, `Capture::init` failing at step `f`, and whether the options dictionary is left over.
  * `next()` is `NextStart` (read) followed by one action per branch of `capture_next_frame`: `ReadFail`, `ReadOther`, `DecodeError`, `DecodeNoPicture` and `DecodePicture`. `DecodePicture` compares the picture's byte count with the buffer's, as `capture_next_frame`'s `buffer.len()` check does, and never the geometry itself.
  * The other actions are `Shutdown` and the device's `Disconnect`.
* **PixelConversion.**
  * `FrameFromSlice(len, width, height, build)` is `frame_from_slice` with u32 arithmetic of width `Bits`, which panics in debug builds and wraps in release builds.
  * `AsRgbImage` is the capture crate's `as_rgb_image`: the same checks, with None for both errors.
  * The model enumerates every input below `MaxLen`/`MaxDim`.
* **RunController** (App::run).
  * Actions: one per statement group of `run()`. Every fallible call in `Failures` may return Err, and the lock file may be deleted at any step (`RemoveLock`).
  * The camera is seen through `session` and `shutdowns`, and the probe's blocking `next()` through one `Tick` step.
  * `LiveSpec` adds weak fairness of `RunSteps`, the statements of `run()`'s own thread other than `camera.next()`. `CameraReturns` is weak fairness of `Capture`; it is a hypothesis of the liveness property, not part of the spec, because AvCamera's read loop may spin forever on a device that never delivers a picture.
* **F32Elapsed**: the elapsed value `TimeProbe::next` reports, with the f32 arithmetic of line 93.
  * `ToFloat` rounds a natural to the nearest float with `Precision` significant bits (24 for f32), ties to even.
  * `ElapsedOf(ms) = ToFloat(ToFloat(ms) * TimeScale)` models the cast and the product. The floor and the cast back are exact on those values.
  * Each `Emit` is one sample, taken a real gap from `Gaps` after the previous one. The emission test is exact, since the gap is far below 2^24 ms.
* **\*Proofs** modules hold the theorems. **MC\*** modules name the bounds TLC uses.

## Runs

Passing runs (each must finish with no error):

| run | properties | what it shows |
|---|---|---|
| scheduler | TypeOK, SamplesSpaced, ExactlyMaxSamples, PollsBounded, StampsAdvance | Interval 4, idle 1, scale 2, 2 clock units per ms, sleep overshoot up to 1 unit, caller work up to 3 units, 3 samples, NTP results of 0 and 1 s. Every snapshot is more than `interval` scaled ms after the previous one, a probe with N > 0 samples yields exactly N, and one `next()` sleeps at most `interval/(idle*scale)+1` times. The action property `StampsAdvance` says no step rewrites a returned snapshot and each new one is stamped more than `interval` ms after the previous one. ImageLogger names files after that stamp, so every frame gets a new name, in capture order. |
| mock_replay | TypeOK, ReplayOrder | Directories with undecodable entries, names with gaps, and an empty folder; every repeat-flag value; missing and unreadable paths; up to 7 calls. The k-th call serves the entry with k-1 smaller names (mod the length when repeating), whatever order `read_dir` yields. Exhaustion is reported rather than skipped. |
| pixel_conversion | FrameCoversBuffer | Every image `frame_from_slice` or `as_rgb_image` returns has width*height*3 = len, in both builds, including wrapped products. |
| run_controller | CancellationLatency, CancellationReturns | With every call able to fail and the lock deleted at any moment, at most one frame is saved after the deletion. Under weak fairness of `run()`'s thread, and provided `camera.next()` returns (`CameraReturns`), `run()` then returns. |
| ffmpeg_session | NoUseAfterFree, FrameSizeMatchesConfig, ImplementsSession | Every init failure point, other streams, decode errors, a device in another mode, a geometry change mid-stream and a disconnect. No native object is touched after it is freed. A returned frame was filled by a picture of the configured byte count (a transposed picture of the same count passes). AvCamera implements CaptureSession. |

Violation runs: each checks one property that the spec or a test states, and the
code breaks it. The full findings are in `PROJECT.json`.

Three more defects are one step deep and are listed as hazards, not runs:
* `samples = 0` means unbounded: the code tests `> 0`, while the spec's N >= 0 means "zero snapshots". `ExactlyMaxSamples` with `Samples = 0` fails in two steps.
* An empty repeating folder panics indexing `frames[0]`. This is `NextOutOfBounds` in MockCamera, stated by `NoPanic`.
* `ConfigMap::get_u32` panics on a missing framerate. This is `status = "panicked"` in FfmpegCamera, stated by `NoPanic`.

| run | property | what the code does |
|---|---|---|
| scheduler_drift | ElapsedMatchesIndex | The strict `>` against an interval measured from the previous sample makes the error accumulate. The k-th snapshot falls after the k-th interval, even with exact sleeps. |
| pixel_mismatch | RejectsMismatch | A buffer of the wrong length is accepted with a recomputed width. |
| controller_teardown | ShutdownOnExit | `camera.next()?` returns without `camera.shutdown()`. |
| ffmpeg_init_leak | InitFailureReleases | A failed `Capture::init` leaks the context or the dictionary. |
| ffmpeg_unsafe_shutdown | ShutdownSafe | `ShutdownSafe` is spec §8's "safe to call ... with zero leaked native resources": no undefined behaviour and nothing live after `shutdown()`. `shutdown()` right after `initialize()` frees an `av_malloc`'d, uninitialised packet. After frames, the dictionary, one SwsContext per frame and the references of skipped packets outlive it. |
| ffmpeg_disconnect | NextReturns | `next()` spins forever once `av_read_frame` fails. |
| f32_elapsed | ElapsedIncreasing | With a 3-bit significand, real spans such as 30 and 35 ms (or 31 and 36 ms: TLC may report either pair) both report 32, so two snapshots share an elapsed value and a timestamp. For f32 at a 1000 ms interval this happens from 2^33 ms, about 99 days. ImageLogger then writes the second frame over the first file. |

The refinement of MockCamera to CaptureSession fails in one step: its `shutdown()` does nothing, so `next()` after `shutdown()` still serves frames, while §4.2 makes Closed terminal. It is recorded as a hazard at `mock_camera.rs:61`.

### Mutants

Each property of a passing run is broken by a plausible bug in the mapped code.
`PROJECT.json` ("mutants") lists each one. Examples: `>=` instead of `>` in the
emit test, a sleep that resets `last`, the wrap offset off by one, a dropped
`len < dx*dy*3` check, a loop that ignores the lock check, a shutdown that keeps the Capture, a missing size check
before the copy, a shutdown that only sets the status (breaking the
refinement), a listing without the sort, `as_snapshot` stamping with the reference alone, and a failed save handled with `continue`, which skips the
lock check (breaking `CancellationReturns` only).

### Bounds

Bounds are CONSTRAINTs defined in the MC modules:
* `ClockBound`: 40 ms of clock;
* `CallBound`: 7 calls;
* `SaveBound`: 4 saves while the lock exists, one more after the deletion. The loop ends there, so no behaviour is cut while the liveness premise holds;
* `SpanBound`: 48 ms for F32Elapsed, past the first collisions (30/35 or 31/36 ms);
* `LeakBound`: 3 SwsContexts, 2 lost packets.

They reach every case the properties tell apart:
* several samples, including sleeps that overshoot the interval and caller work longer than the interval;
* a repeat wrap-around on a listing of 3 entries;
* a lock deleted before, during and after a save;
* a scratch frame allocated and reused, a second picture after a mismatched one, and pictures of three geometries (`g4x3`, `g3x4` of the same byte count, `g2x2` of another), so both a rejected and a transposed-but-accepted picture occur.

Pixel conversion uses 5-bit words, so that products wrap at 32 and overflow
happens within `MaxDim = 6`.

### Fairness

The scheduler is one thread that never blocks except in `sleep`, so weak fairness
of its steps is justified. The ffmpeg read loop needs strong fairness of decoding:
a connected device delivers a decodable picture infinitely often. Even so,
`NextReturns` fails once the device is unplugged. Runs under a CONSTRAINT make
liveness unreliable, because a behaviour cut off by the bound satisfies weak
fairness vacuously. So the scheduler's response property is stated as the safety
property `PollsBounded`, over the history counter `polls`. It is both checked and
proved.

`run()` is a single thread whose statements return: the probe by
`PollsBounded`, and the logger and lock calls with Ok or Err. So
`CancellationReturns` is checked under weak fairness of `RunSteps`.
`camera.next()` is the exception: AvCamera loops until a picture arrives, so
its return is the hypothesis `CameraReturns` of the property. The replay
backend satisfies it. Deleting the
lock file is another process's choice and gets no fairness. `SaveBound` only
bounds states where the lock still exists. Once it is deleted the loop saves at
most one more frame, so every behaviour in the premise of
`CancellationReturns` is explored to its end.

## Proofs

`tlapm` checks every proof in the five proof modules. Each invariant is proved
by the usual three steps: `Init => IInv`, `IInv /\ [Next]_vars => IInv'` and
`IInv => Inv`. Where a theorem rests on two invariants, the second one's step
lemma assumes the first, and the theorem proves `Spec => [](IInv1 /\ IInv2)`
before the last PTL step. Every strengthening was checked with TLC as an
invariant before it was proved.

* **SchedulerProofs**:
  * `TypeCorrect`: `Spec => []TypeOK`.
  * `SpacedSamples`: `Spec => []SamplesSpaced`. The inductive invariant `IInv` adds:
    * `moment <= last <= clock`;
    * one snapshot per sample taken;
    * the last snapshot's elapsed value is `Scaled(AsMillis(last - moment))`.

    Truncating clock units to ms loses at most the carry (`DivDiff`, `ScaledDivDiff`): floor(a) - floor(c) >= floor(a - c). So the next snapshot is more than the interval after the last one (`SpacingArith`).
  * `PollLatency`: `Spec => []PollsBounded`. `PInv` adds that while polling, `clock - last >= polls * Idle * SubMs`. Every sleep advances the clock by at least `idle` ms, so after `MaxPolls` sleeps the elapsed time exceeds the interval (lemmas `DivLower`, `DivUpper`, `SleepArith`).
  * `SampleCount`: `Samples # 0 => (Spec => []ExactlyMaxSamples)`. `CountInv` says that for N > 0:
    * `sampled <= N`;
    * the polling loop runs only with `sampled < N`;
    * the probe has ended only with `sampled >= N`.

    With `Len(snaps) = sampled` from `IInv`, this gives the property. The hypothesis `Samples # 0` is not a convenience. For N = 0 the code's `samples > 0` test makes the probe unbounded, and the property is false (hazard `time_probe.rs:81`). For N < 0 the property is vacuous.
  * `StampedInOrder`: `Spec => StampsAdvance`, an action property. `StampInv` says every returned snapshot's timestamp is the current reference plus its elapsed value. It is inductive with `IInv`: only `sync_network_time` moves the reference, and only before the first sample. `OnlyEmitAppends` shows that only `Emit` changes `snaps`, by one `Append`. The spacing of the new stamp then follows from `SamplesSpaced'` and `StampInv'`. The proof is in exact arithmetic: Scheduler gives the elapsed value before the code's f32 cast. The cast is exact below 2^24 scaled ms (about 4.6 hours at scale 1), so the theorem covers the code within that range. Beyond it `f32_elapsed` shows two snapshots with one stamp.
* **RunControllerProofs**:
  * `BoundedCancellation`: `Spec => []CancellationLatency`. `LatencyInv` ties `removedAt` to the lock and says a save after the deletion can only be the one in progress, before the check runs.
* **FfmpegCameraProofs**:
  * `NeverUseAfterFree`: `Spec => []NoUseAfterFree`. `OwnInv` says a stored Capture's fields are live and include the loop's objects, no fields remain without a Capture, and the loop runs only with a Capture.
  * `FfmpegTypeCorrect`: `Spec => []TypeOK`, from `OwnInv`.
  * `FrameSizesMatchConfig`: `Spec => []FrameSizeMatchesConfig`, with or without geometry changes, for every `BufferSize`. `FrameInv` says the buffer is absent or has the configured resolution, the last returned frame is absent or has the configured byte count, and no frame was returned before `initialize()`. Its step lemma needs `OwnInv`, because a picture is read only by an initialised camera.
  * `SessionRefinement`: `Spec => ImplementsSession`, where `ImplementsSession` is `CaptureSession!Spec` under the mapping `phase <- SessionPhase` (new and panicked map to uninit) and `served <- served`.
    * The initial state maps to `Session!Init`.
    * `StepRefines` shows that every step maps to `Open`, `Serve`, `Close` or a stutter. It rests on `RefInv`, which is `OwnInv` plus "a stored Capture means status ready". That second fact is why `next()` serves frames only while ready.
* **PixelConversionProofs**:
  * `CoversBuffer`: `Spec => []FrameCoversBuffer`, for every word width `Bits >= 1`, every dimension, length and build. `CheckAndWrapOk` shows that an accepted slice passed both `len = (dx*dy*3) mod 2^Bits` and `from_raw`'s `len >= dx*dy*3`. A residue is at most the number it is taken of (`ModAtMost`), so `len = dx*dy*3`. When the length does not match, the recomputed width goes through the same `CheckAndWrap`, so the result holds for it too (`FrameFromSliceOk`). `MaxDim` and `MaxLen` are arbitrary constants, so no dimension or length is excluded. `CallInv` says the state is the result of one call on one input.
  * `WordPositive` proves `2^Bits >= 1` from the library's `FS_SUBSET`: `2^Bits` counts the subsets of `1..Bits`. The provers have no exponentiation lemma of their own.

* **MockCameraProofs**:
  * `MockTypeCorrect`: `Spec => []TypeOK`, and `ReplayInOrder`: `Spec => []ReplayOrder`, for every set of folders.
  * The first part is that `EnumerateFiles` is sorted (`EnumerateSorted`). The rank of a name is the number of names below it. Ranks are strictly monotone (`RankMonotone`), so `x |-> Rank(x) + 1` is an injection from a folder of N names into `1..N`. Since `1..N` also has N elements, the library's `FS_Injection` makes it onto (`RankOnto`). So each `CHOOSE` in `EnumerateFiles` finds a name, and entries follow their names' order. No induction is needed.
  * In a sorted listing, entry e+1 has exactly e smaller names (`SortedPosition`).
  * `IInv` adds to the two properties:
    * the listing is sorted;
    * a new camera has an empty listing and log;
    * a repeating empty listing has served nothing;
    * unless the thread panicked, `offset` is the position the last logged call served: `ExpectedEntry(Len(log))`, or -1 before the first call.

    With the last fact, `ReadOffset` shows that `NextOffset` is the position the next call should serve. Past the end of a repeating listing, this is the wrap `(n-1) mod L + 1`, which `WrapStep` shows to be `n mod L`, with `ModUnique` for uniqueness of the remainder. `AppendReplay` shows that a call logged as `Served` keeps the log in order.
  * The proofs use the assumption `FoldersType`: a folder has finitely many entries, as a directory that `read_dir` lists does.

The proofs assume only the constants' types, which each component module
declares as named ASSUMEs. `WordPositive` cites the library's `FS_SUBSET`. The
library's proof of it uses `2^(n+1) = 2^n + 2^n`, which the library states
without proof.

Only model-checked:
* liveness: `NextReturns`, `CancellationReturns` and the scheduler's fairness. TLAPS does not reason about ENABLED;
* nothing is proved of the violated properties (`ElapsedIncreasing` among them); their runs exhibit the counterexamples.

## Not modelled

* **ImageLogger, the rest of ResourceFolder (`require`, `path`, `basepath`), the exporter, the bins and config parsing.** These are pure I/O or formatting. The only fact of ImageLogger's that matters is distinct file names. They follow from strictly increasing timestamps: `SamplesSpaced` gives that in exact arithmetic, and `f32_elapsed` shows the f32 rounding breaking it.
* **`get_buffer_size` overflow in the capture crate.** FfmpegCamera takes byte counts from `BufferSize`, without the u32 product.
* **The scratch frame's size after a geometry change.** Spec section 4.4 assumes one geometry per session; the model lets it change so the other properties are checked across it, but no property states the scratch size.
* **`LockFile::unlock`.** The application never calls it.
* **rust-pi-capture.** The application does not use it.

## Plan for the next sittings

1. Compose RunController with Scheduler and a camera: the loop's ticks are the probe's snapshots, and the camera's session is a real camera module.
2. An action property of MockCamera: the log only grows, and `offset` moves by one (or wraps) per call.
3. `get_buffer_size` and the copy path with concrete sizes.
