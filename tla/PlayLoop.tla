-------------------------------- MODULE PlayLoop --------------------------------
(***************************************************************************)
(* The frontend loop around one emulated frame (runner/src/frontend.cpp):  *)
(* the audio stream is the host's clock, so the loop prebuffers it, paces  *)
(* itself on it, throws it away under turbo and starts it again after a    *)
(* load; between two shown frames it may present a blend of them.  A frame *)
(* yields one block of samples.  The audio device is a thread of its own;  *)
(* SDL's stream is external.                                               *)
(***************************************************************************)
EXTENDS Naturals, Sequences

CONSTANTS Sessions,  \* [audio, blend, direct]: a device, interpolation active,
                     \* and frames the direct presenter may show
          Target,    \* kAudioQueueFrames, in blocks
          Start,     \* kAudioStartFrames
          Capacity,  \* kAudioCapacityFrames
          Glide,     \* kGlideStepFrames
          MaxFrames, MaxLoads  \* bounds of a behaviour

VARIABLES
  session, pc,
  queue,      \* the stream's blocks, [epoch, n]
  ring,       \* the SPU's output not read yet
  started,    \* audio_started
  playing,    \* the device is resumed
  threshold, floor,  \* audio_start_threshold, audio_pace_floor
  epoch,      \* nds_spu_presentation_epoch
  seen,       \* audio_presentation_epoch
  tab, debug, \* turbo_pressed, nds_debug_turbo
  turbo,      \* turbo_active
  n,          \* frames emulated, which is blocks produced
  direct,     \* nds_gpu2d_direct_present_frame_active
  cache,      \* FrameBlendCache: the valid previous frame, or nothing
  error,      \* audio_queue_error
  shown,      \* the last real frame presented
  synthetic,  \* the pair blended before it, or nothing
  last, cut   \* the last block played, and whether the stream was cut since

audioVars == <<queue, ring, started, playing, threshold, floor, seen, error, cut>>
vars == <<session, pc, epoch, tab, debug, turbo, n, direct, cache, shown,
          synthetic, last, audioVars>>

None == [epoch |-> 0, n |-> 0, direct |-> FALSE]
NoBlock == [epoch |-> 0, n |-> 0]
Current == [epoch |-> epoch, n |-> n, direct |-> direct]

Init ==
  /\ session \in Sessions /\ pc = "top"
  /\ queue = <<>> /\ ring = <<>> /\ started = FALSE /\ playing = FALSE
  /\ threshold = Start /\ floor = Target
  /\ epoch = 0 /\ seen = 0 /\ tab = FALSE /\ debug = FALSE /\ turbo = FALSE
  /\ n = 0 /\ direct = FALSE /\ cache = None /\ error = FALSE
  /\ shown = None /\ synthetic = <<>> /\ last = NoBlock /\ cut = FALSE

-----------------------------------------------------------------------------
(* The audio device's thread.                                              *)

\* A pull of the device; one that finds nothing only counts an underrun
Pull ==
  /\ playing /\ queue # <<>>
  /\ last' = Head(queue) /\ queue' = Tail(queue) /\ cut' = FALSE
  /\ UNCHANGED <<session, pc, ring, started, playing, threshold, floor, epoch,
                 seen, tab, debug, turbo, n, direct, cache, error, shown, synthetic>>

-----------------------------------------------------------------------------
(* The loop, step by step.                                                 *)

Goto(from, to) == pc = from /\ pc' = to

\* Pause the device, then clear the stream, then prebuffer the short target
Resync ==
  /\ playing' = FALSE /\ queue' = <<>> /\ started' = FALSE
  /\ threshold' = Target /\ floor' = Target /\ cut' = TRUE

\* debug_pump, which may set the debugger's turbo, then the epoch test
Top ==
  /\ Goto("top", "events")
  /\ debug' \in BOOLEAN
  /\ IF epoch # seen THEN Resync /\ seen' = epoch
     ELSE UNCHANGED <<playing, queue, started, threshold, floor, cut, seen>>
  /\ UNCHANGED <<session, epoch, tab, turbo, n, direct, cache, shown, synthetic,
                 last, ring, error>>

\* A slot shortcut that loads: the SPU's output is dropped, its epoch advances
\* and the blend cache holds a frame of the abandoned timeline
Load ==
  /\ pc = "events" /\ epoch < MaxLoads
  /\ epoch' = epoch + 1 /\ ring' = <<>> /\ cache' = None
  /\ UNCHANGED <<session, pc, tab, debug, turbo, n, direct, shown, synthetic, last,
                 queue, started, playing, threshold, floor, seen, error, cut>>

Tab ==
  /\ pc = "events" /\ tab' = ~tab
  /\ UNCHANGED <<session, pc, epoch, debug, turbo, n, direct, cache, shown,
                 synthetic, last, audioVars>>

Close ==
  /\ Goto("events", "done")
  /\ playing' = FALSE
  /\ UNCHANGED <<session, epoch, tab, debug, turbo, n, direct, cache, shown,
                 synthetic, last, queue, ring, started, threshold, floor, seen,
                 error, cut>>

\* The end of the poll: a turbo change cuts the stream
Polled ==
  /\ Goto("events", "emulate")
  /\ turbo' = (tab \/ debug)
  /\ IF turbo' # turbo THEN Resync
     ELSE UNCHANGED <<playing, queue, started, threshold, floor, cut>>
  /\ UNCHANGED <<session, epoch, tab, debug, n, direct, cache, shown, synthetic,
                 last, ring, seen, error>>

\* scheduler_run_round up to the next frame; with both CPUs halted for good no
\* round runs and the same frame is shown again
Emulate(halted) ==
  /\ Goto("emulate", "present")
  /\ IF halted THEN UNCHANGED <<n, ring>>
     ELSE /\ n < MaxFrames
          /\ n' = n + 1
          /\ ring' = IF session.audio
                     THEN Append(ring, [epoch |-> epoch, n |-> n + 1]) ELSE ring
  /\ direct' \in (IF session.direct THEN BOOLEAN ELSE {FALSE})
  /\ UNCHANGED <<session, epoch, tab, debug, turbo, cache, shown, synthetic, last,
                 queue, started, playing, threshold, floor, seen, error, cut>>

\* The guest's power-off leaves before the frame is presented
PowerOff ==
  /\ Goto("emulate", "done")
  /\ playing' = FALSE
  /\ UNCHANGED <<session, epoch, tab, debug, turbo, n, direct, cache, shown,
                 synthetic, last, queue, ring, started, threshold, floor, seen,
                 error, cut>>

\* A lost GL context, a failed compute renderer or a failed presentation
Fail ==
  /\ pc \in {"top", "emulate", "present"} /\ pc' = "done"
  /\ playing' = FALSE
  /\ UNCHANGED <<session, epoch, tab, debug, turbo, n, direct, cache, shown,
                 synthetic, last, queue, ring, started, threshold, floor, seen,
                 error, cut>>

\* A blend needs a cached frame, a host that keeps up and pixels on this side
Blends ==
  /\ session.blend /\ cache # None /\ ~turbo /\ ~direct /\ started
  /\ Len(queue) > Target \div 2

Cached == IF session.blend /\ ~direct THEN Current ELSE None

\* The synthetic frame first, the real one after it; then the pacing allowance
\* glides down to the target
Present ==
  /\ Goto("present", "drain")
  /\ synthetic' = IF Blends THEN <<cache, Current>> ELSE <<>>
  /\ shown' = Current
  /\ cache' = Cached
  /\ floor' = IF floor > Target + Glide THEN floor - Glide ELSE Target
  /\ UNCHANGED <<session, epoch, tab, debug, turbo, n, direct, last, queue, ring,
                 started, playing, threshold, seen, error, cut>>

\* discard_spu_output
Discard ==
  /\ turbo
  /\ Goto("drain", "turn") /\ ring' = <<>> /\ cut' = (cut \/ ring # <<>>)
  /\ UNCHANGED <<session, epoch, tab, debug, turbo, n, direct, cache, shown,
                 synthetic, last, queue, started, playing, threshold, floor, seen,
                 error>>

\* drain_audio: one block at a time; without room it waits for the device when it
\* plays, and gives the block up when it does not
Drain ==
  /\ ~turbo /\ pc = "drain" /\ ring # <<>>
  /\ Len(queue) < Capacity \/ ~started
  /\ ring' = Tail(ring)
  /\ IF Len(queue) < Capacity
     THEN queue' = Append(queue, Head(ring)) /\ UNCHANGED <<pc, error>>
     ELSE error' = TRUE /\ pc' = "turn" /\ UNCHANGED queue
  /\ UNCHANGED <<session, epoch, tab, debug, turbo, n, direct, cache, shown,
                 synthetic, last, started, playing, threshold, floor, seen, cut>>

\* The wait that paces the loop
Pace ==
  /\ ~turbo /\ ring = <<>>
  /\ started => Len(queue) <= floor
  /\ Goto("drain", "turn")
  /\ UNCHANGED <<session, epoch, tab, debug, turbo, n, direct, cache, shown,
                 synthetic, last, audioVars>>

\* Playback starts on a full prebuffer
Starts == session.audio /\ ~started /\ ~turbo /\ Len(queue) >= threshold

Turn ==
  /\ Goto("turn", "top")
  /\ IF Starts THEN started' = TRUE /\ playing' = TRUE /\ floor' = threshold
     ELSE UNCHANGED <<started, playing, floor>>
  /\ UNCHANGED <<session, epoch, tab, debug, turbo, n, direct, cache, shown,
                 synthetic, last, queue, ring, threshold, seen, error, cut>>

Loop ==
  \/ Top \/ Polled \/ (\E halted \in BOOLEAN : Emulate(halted))
  \/ Present \/ Discard \/ Drain \/ Pace \/ Turn

Next == Pull \/ Loop \/ Load \/ Tab \/ Close \/ PowerOff \/ Fail

Fairness == WF_vars(Loop) /\ WF_vars(Pull)

Spec == Init /\ [][Next]_vars /\ Fairness

-----------------------------------------------------------------------------
Follows(a, b) == b.n = a.n + 1 /\ (a.epoch = b.epoch \/ seen # epoch)

\* The stream the device plays is gapless and of one timeline: no produced block
\* is lost for want of room, blocks are played in the order of their frames, a
\* queue that holds two timelines is cleared before the next poll, turbo has
\* nothing queued, and the loop waits for the device only while the device plays
\* (drain_audio, the epoch and turbo tests of the loop, audio_start_threshold).
StreamContinuous ==
  LET stream == queue \o ring
  IN /\ ~error
     /\ started = playing \/ pc = "done"
     /\ \A i \in 1..(Len(stream) - 1) : Follows(stream[i], stream[i + 1])
     /\ last # NoBlock /\ stream # <<>> =>
          /\ Head(stream).n > last.n
          /\ cut \/ Follows(last, Head(stream))
     /\ turbo /\ pc # "events" => queue = <<>>

\* A synthetic frame lies between the real frame shown before it and the one
\* shown after it, both of one timeline and both composed by the CPU
\* (FrameBlendCache).
BlendsNeighbours ==
  synthetic # <<>> =>
    /\ synthetic[2] = shown
    /\ synthetic[1].epoch = synthetic[2].epoch
    /\ synthetic[2].n - synthetic[1].n \in 0..1
    /\ ~synthetic[1].direct /\ ~synthetic[2].direct

\* The pacing wait ends: every frame the loop presents is followed by the next
\* poll (drain_audio's two SDL_Delay loops).
PacingEnds == pc = "drain" ~> pc \in {"top", "done"}
=============================================================================
