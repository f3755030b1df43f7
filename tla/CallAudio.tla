------------------------------ MODULE CallAudio -------------------------------
(***************************************************************************)
(* The audio paths of a live call (call_media.rs).  Capture: the device    *)
(* callback, the worker with its resampler and framer, and the channel to  *)
(* the engine.  Playback: the channel from the engine, the worker with its *)
(* resampler, the ring, and the device callback.  A sample is its number;  *)
(* downmix, formats and the resampler's arithmetic are left out: it passes *)
(* its input on in whole chunks.  Engine and devices are external.         *)
(***************************************************************************)
EXTENDS Naturals, SequencesExt

CONSTANTS
    RawCapacity,        \* CAPTURE_CHANNEL_CAPACITY
    MicCapacity,        \* MIC_CHANNEL_CAPACITY
    SpeakerCapacity,    \* SPEAKER_CHANNEL_CAPACITY
    RingCapacity,       \* PLAYBACK_RING_MS, in samples
    Prefill,            \* PLAYBACK_PREFILL_MS, in samples
    Chunk,              \* what the resampler takes at a time
    FrameSamples,       \* CODEC_FRAME_SAMPLES; a chunk completes one frame at most
    BlockSizes,         \* how many samples a device callback has
    MaxSamples          \* bound: samples per direction

ASSUME AudioAssumption ==
    /\ {RawCapacity, MicCapacity, RingCapacity, Prefill, Chunk} \cup BlockSizes \subseteq Nat /\ FrameSamples \in Nat \ {0}
    /\ Chunk <= FrameSamples /\ Prefill <= RingCapacity

VARIABLES
    mic,        \* capture: samples so far, channels, what the worker holds, what the engine got
    spk,        \* playback: samples so far, channel, what the worker holds, the ring, what was played
    dropped     \* samples that a full channel or a failed resampling dropped

audioVars == <<mic, spk, dropped>>

AudioInit ==
    /\ mic = [made |-> 0, raw |-> <<>>, pending |-> <<>>, frame |-> <<>>, frames |-> <<>>, engine |-> <<>>]
    /\ spk = [made |-> 0, frames |-> <<>>, pending |-> <<>>, pushed |-> <<>>, ring |-> <<>>,
              primed |-> FALSE, played |-> <<>>]
    /\ dropped = {}

\* The samples n + 1 to n + k.
Block(n, k) == [i \in 1..k |-> n + i]

\* StreamResampler holds what it has until that is a chunk.
Ready(pending) == Len(pending) >= Chunk
FirstChunk(pending) == SubSeq(pending, 1, Chunk)
Cleared(pending) == <<>>    \* mutant: what came after the chunk is cleared with it
Rest(pending) == SubSeq(pending, Chunk + 1, Len(pending))

-----------------------------------------------------------------------------
(* Capture *)

\* mutant: an unbounded channel
capture_any_block(k) ==
    /\ mic.made + k <= MaxSamples
    /\ mic' = [mic EXCEPT !.made = @ + k, !.raw = Append(@, Block(mic.made, k))]
    /\ UNCHANGED <<spk, dropped>>
\* The callback of open_input: a full channel drops the block.
capture_block(k) ==
    /\ mic.made + k <= MaxSamples
    /\ LET block == Block(mic.made, k)
           full == Len(mic.raw) >= RawCapacity
       IN  /\ mic' = [mic EXCEPT !.made = @ + k, !.raw = IF full THEN @ ELSE Append(@, block)]
           /\ dropped' = IF full THEN dropped \cup ToSet(block) ELSE dropped
    /\ UNCHANGED spk

\* run_capture takes a block ...
run_capture ==
    /\ mic.raw # <<>> /\ ~Ready(mic.pending)
    /\ mic' = [mic EXCEPT !.raw = Tail(@), !.pending = @ \o Head(mic.raw)]
    /\ UNCHANGED <<spk, dropped>>

\* ... and passes its chunks on to MicFramer; a frame that does not fit in the channel is
\* dropped.
push_chunk ==
    /\ Ready(mic.pending)
    /\ LET samples == mic.frame \o FirstChunk(mic.pending)
           whole == Len(samples) >= FrameSamples
           frame == SubSeq(samples, 1, FrameSamples)
           full == Len(mic.frames) >= MicCapacity
       IN  /\ mic' = [mic EXCEPT
                  !.pending = Rest(@),
                  !.frame = IF whole THEN SubSeq(samples, FrameSamples + 1, Len(samples)) ELSE samples,
                  !.frames = IF whole /\ ~full THEN Append(@, frame) ELSE @]
           /\ dropped' = IF whole /\ full THEN dropped \cup ToSet(frame) ELSE dropped
    /\ UNCHANGED spk

\* The resampler fails: the chunk and the rest of the block are gone.
capture_fails ==
    /\ Ready(mic.pending)
    /\ dropped' = dropped \cup ToSet(mic.pending)
    /\ mic' = [mic EXCEPT !.pending = <<>>]
    /\ UNCHANGED spk

engine_takes ==
    /\ mic.frames # <<>>
    /\ mic' = [mic EXCEPT !.frames = Tail(@), !.engine = Append(@, Head(mic.frames))]
    /\ UNCHANGED <<spk, dropped>>

-----------------------------------------------------------------------------
(* Playback *)

\* The engine decodes a frame; it drops what does not fit.
engine_plays ==
    /\ spk.made + FrameSamples <= MaxSamples
    /\ Len(spk.frames) < SpeakerCapacity
    /\ spk' = [spk EXCEPT !.made = @ + FrameSamples, !.frames = Append(@, Block(spk.made, FrameSamples))]
    /\ UNCHANGED <<mic, dropped>>

saturating_sub(a, b) == IF a > b THEN a - b ELSE 0

\* mutant: overflow drops the newest
push_what_fits(ring, samples) ==
    LET all == ring \o samples IN IF Len(all) <= RingCapacity THEN all ELSE SubSeq(all, 1, RingCapacity)
\* PcmRing.push_slice: overflow drops the oldest.
push_slice(ring, samples) ==
    IF Len(samples) >= RingCapacity
    THEN SubSeq(samples, Len(samples) - RingCapacity + 1, Len(samples))
    ELSE SubSeq(ring, saturating_sub(Len(ring) + Len(samples), RingCapacity) + 1, Len(ring)) \o samples

\* run_playback takes a frame, and pushes its chunks one by one.
run_playback ==
    /\ spk.frames # <<>> /\ ~Ready(spk.pending)
    /\ spk' = [spk EXCEPT !.frames = Tail(@), !.pending = @ \o Head(spk.frames)]
    /\ UNCHANGED <<mic, dropped>>

play_chunk ==
    /\ Ready(spk.pending)
    /\ spk' = [spk EXCEPT !.pending = Rest(@), !.pushed = @ \o FirstChunk(spk.pending),
                          !.ring = push_slice(@, FirstChunk(spk.pending))]
    /\ UNCHANGED <<mic, dropped>>

playback_fails ==
    /\ Ready(spk.pending)
    /\ spk' = [spk EXCEPT !.pending = <<>>]
    /\ UNCHANGED <<mic, dropped>>

\* mutant: playback starts with the first sample
play_at_once(k) ==
    /\ LET n == IF k <= Len(spk.ring) THEN k ELSE Len(spk.ring) IN
       spk' = [spk EXCEPT !.played = @ \o SubSeq(spk.ring, 1, n), !.ring = SubSeq(@, n + 1, Len(@))]
    /\ UNCHANGED <<mic, dropped>>
\* The callback of open_output: silence until the ring is primed, and when it is empty.
play_block(k) ==
    /\ IF ~spk.primed /\ Len(spk.ring) < Prefill
       THEN UNCHANGED spk
       ELSE LET n == IF k <= Len(spk.ring) THEN k ELSE Len(spk.ring) IN
            spk' = [spk EXCEPT !.primed = TRUE, !.played = @ \o SubSeq(spk.ring, 1, n),
                               !.ring = SubSeq(@, n + 1, Len(@))]
    /\ UNCHANGED <<mic, dropped>>

Capture == (\E k \in BlockSizes : capture_block(k)) \/ run_capture \/ push_chunk \/ capture_fails \/ engine_takes
Playback == engine_plays \/ run_playback \/ play_chunk \/ playback_fails \/ \E k \in BlockSizes : play_block(k)
AudioNext == Capture \/ Playback

AudioSpec == AudioInit /\ [][AudioNext]_audioVars

-----------------------------------------------------------------------------
Increasing(s) == \A i, j \in 1..Len(s) : i < j => s[i] < s[j]

\* Blocks of samples one after the other, and the samples in them.
InOrder(blocks) ==
    /\ \A i \in 1..Len(blocks) : Increasing(blocks[i])
    /\ \A i, j \in 1..Len(blocks) : i < j => \A x \in ToSet(blocks[i]), y \in ToSet(blocks[j]) : x < y
SamplesOf(blocks) == UNION {ToSet(blocks[i]) : i \in 1..Len(blocks)}

\* Everything on its way from the microphone to the engine, oldest first.
OnItsWay == mic.engine \o mic.frames \o <<mic.frame>> \o <<mic.pending>> \o mic.raw

\* Every sample of the microphone reaches the engine once and in order, or was dropped by a
\* full channel or a failed resampling: neither the leftovers of chunks nor those of frames
\* are lost or sent twice.
MicKeepsOrder ==
    /\ InOrder(OnItsWay)
    /\ SamplesOf(OnItsWay) = 1..mic.made \ dropped

\* The engine gets whole frames, and no channel holds more than it may.
MicFramesWhole ==
    /\ \A i \in 1..Len(mic.engine) : Len(mic.engine[i]) = FrameSamples
    /\ Len(mic.raw) <= RawCapacity /\ Len(mic.frames) <= MicCapacity /\ Len(mic.frame) < FrameSamples

\* The ring holds the newest samples that were decoded, up to its capacity: latency is
\* bounded, and what overflows is the oldest.
RingHoldsNewest ==
    /\ Len(spk.ring) <= RingCapacity
    /\ spk.ring = SubSeq(spk.pushed, Len(spk.pushed) - Len(spk.ring) + 1, Len(spk.pushed))

\* Audio is played once and in order, and starts with a margin in the ring.
PlayedInOrder ==
    /\ Increasing(spk.played \o spk.ring)
    /\ spk.played # <<>> => Len(spk.pushed) >= Prefill

\* Audio stays in order and within its channels both ways, whatever overflows.
AudioKeepsOrder == MicKeepsOrder /\ MicFramesWhole /\ RingHoldsNewest /\ PlayedInOrder
=============================================================================
