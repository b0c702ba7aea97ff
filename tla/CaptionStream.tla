--------------------------- MODULE CaptionStream ---------------------------
(***************************************************************************)
(* From a booth's audio to its captions: the reader that keeps the last    *)
(* two chunks, the inference that takes them (portal/transcription/        *)
(* providers/base.py), a streaming provider instead of both (deepgram.py), *)
(* and the aggregator that turns text into segments (aggregator.py).       *)
(*                                                                         *)
(* A piece is what is heard in one chunk, or in one step of a streaming    *)
(* provider; text is a set of pieces.                                      *)
(***************************************************************************)
EXTENDS FiniteSets, FiniteSetsExt, Integers, Sequences

CONSTANTS MaxPieces,      \* a bound: the pieces of one stream
          OverloadAfter,  \* consecutive drops that are still put up with
          MaxErrors       \* consecutive errors that end the stream

VARIABLES mode,      \* "chunks" or "streaming"
          heard,     \* pieces that came in
          pending,     \* the chunks waiting, and the end mark 0
          reader,    \* "reading", "closing", "ended"
          infer,     \* "waiting", "busy", "telling", "paused", "ended"
          held,      \* the chunk being transcribed
          drops, errors,
          done,      \* run_stream has returned
          said,      \* pieces that were understood (history)
          from,      \* first piece of the streaming provider's utterance
          current,   \* the aggregator's current_utterance
          segment,   \* its segment_id
          final,     \* the final captions
          cut        \* pieces whose utterance a reconnect interrupted (history)

streamVars == <<mode, heard, pending, reader, infer, held, drops, errors, done, said, from, current, segment, final, cut>>
audio == <<pending, reader, infer, held, drops, errors, done>>

QueueSize == 2
EndMark == 0

StreamTypeOK ==
  /\ Len(pending) <= QueueSize
  /\ \A i, j \in 1..Len(pending) : i < j /\ pending[j] # EndMark => pending[i] \in 1..(pending[j] - 1)
  /\ infer \in {"busy", "telling"} <=> held # EndMark
  /\ \A p \in current : p \in said

StreamInit ==
  /\ mode \in {"chunks", "streaming"}
  /\ heard = 0 /\ pending = <<>> /\ reader = "reading" /\ infer = "waiting" /\ held = EndMark
  /\ drops = 0 /\ errors = 0 /\ done = FALSE
  /\ said = {} /\ from = 1 /\ current = {} /\ segment = 1 /\ final = {} /\ cut = {}

------------------------------------------------------------------------------
(* The aggregator.                                                         *)

NextSegment == segment + 1

(* handle_final: an empty text falls back on the current utterance.        *)
Finals(text) == IF text = {} THEN final ELSE final \cup {[id |-> segment, text |-> text]}

HandleFinal(text) ==
  LET words == IF text = {} THEN current ELSE text
  IN /\ final' = Finals(words)
     /\ IF words = {} THEN UNCHANGED <<current, segment>> ELSE current' = {} /\ segment' = NextSegment

(* A partial replaces the utterance; fifty words or fifteen seconds force  *)
(* it final.                                                               *)
HandlePartial(text) ==
  \/ HandleFinal(text)
  \/ current' = text /\ UNCHANGED <<segment, final>>

(* slip: what is left of a chunk is forgotten with the sentence. *)
RemainderDropped(words, sentence) == {}

Remainder(words, sentence) == words \ sentence

(* A chunk is appended; the first sentence that is long enough is final,   *)
(* the rest stays.                                                         *)
HandleChunk(p) ==
  LET words == current \cup {p}
  IN \E sentence \in {{}} \cup {{w \in words : w <= n} : n \in words} :
       /\ final' = Finals(sentence)
       /\ current' = Remainder(words, sentence)
       /\ segment' = IF sentence = {} THEN segment ELSE NextSegment

(* Silence: "if we have a pending partial, finalize it instead of losing   *)
(* it".                                                                    *)
HandleClear == HandleFinal({})

aggregator == <<current, segment, final>>

------------------------------------------------------------------------------
(* The chunk pipeline.                                                     *)
Chunks == mode = "chunks" /\ ~done

(* The oldest chunk makes room.                                            *)
Queued(p) == Append(IF Len(pending) = QueueSize THEN Tail(pending) ELSE pending, p)

ReadChunk ==
  /\ Chunks /\ reader = "reading" /\ heard < MaxPieces
  /\ heard' = heard + 1
  /\ pending' = Queued(heard + 1)
  /\ drops' = IF Len(pending) = QueueSize THEN drops + 1 ELSE drops
  /\ UNCHANGED <<mode, reader, infer, held, errors, done, said, from, aggregator, cut>>

(* What was read of an unfinished chunk is queued if there is room.        *)
SourceEnds ==
  /\ Chunks /\ reader = "reading"
  /\ reader' = "closing"
  /\ \/ UNCHANGED <<heard, pending>>
     \/ heard < MaxPieces /\ heard' = heard + 1
        /\ pending' = IF Len(pending) = QueueSize THEN pending ELSE Append(pending, heard + 1)
  /\ UNCHANGED <<mode, infer, held, drops, errors, done, said, from, aggregator, cut>>

PutEnd ==
  /\ Chunks /\ reader = "closing" /\ Len(pending) < QueueSize
  /\ reader' = "ended"
  /\ pending' = Append(pending, EndMark)
  /\ UNCHANGED <<mode, heard, infer, held, drops, errors, done, said, from, aggregator, cut>>

Overloaded == drops > OverloadAfter

(* The pause empties the pending and forgets the chunk just taken.           *)
Take ==
  /\ Chunks /\ infer = "waiting" /\ pending # <<>>
  /\ IF Head(pending) = EndMark THEN infer' = "ended" /\ pending' = Tail(pending) /\ UNCHANGED held
     ELSE IF Overloaded THEN infer' = "paused" /\ pending' = <<>> /\ UNCHANGED held
     ELSE infer' = "busy" /\ pending' = Tail(pending) /\ held' = Head(pending)
  /\ UNCHANGED <<mode, heard, reader, drops, errors, done, said, from, aggregator, cut>>

Resume ==
  /\ Chunks /\ infer = "paused"
  /\ infer' = "waiting" /\ drops' = 0 /\ errors' = 0
  /\ UNCHANGED <<mode, heard, pending, reader, held, done, said, from, aggregator, cut>>

(* The answer resets both counters before the caption is broadcast.        *)
Transcribe ==
  /\ Chunks /\ infer = "busy"
  /\ infer' = "telling" /\ drops' = 0 /\ errors' = 0
  /\ UNCHANGED <<mode, heard, pending, reader, held, done, said, from, aggregator, cut>>

Tell ==
  /\ Chunks /\ infer = "telling"
  /\ \/ HandleChunk(held) /\ said' = said \cup {held}
     \/ HandleClear /\ UNCHANGED said
  /\ infer' = "waiting" /\ held' = EndMark
  /\ errors' \in {errors, errors + 1}
  /\ UNCHANGED <<mode, heard, pending, reader, drops, done, from, cut>>

(* The provider fails, or the database before the caption is published:    *)
(* then the chunk stays in the utterance.                                  *)
ChunkFails ==
  /\ Chunks /\ infer \in {"busy", "telling"}
  /\ errors' = errors + 1 /\ held' = EndMark
  /\ infer' = IF errors' >= MaxErrors THEN "ended" ELSE "waiting"
  /\ \/ UNCHANGED <<said, current>>
     \/ infer = "telling" /\ said' = said \cup {held} /\ current' = current \cup {held}
  /\ UNCHANGED <<mode, heard, pending, reader, drops, done, from, segment, final, cut>>

(* slip: the stream waits for both tasks. *)
BothEnded == reader = "ended" /\ infer = "ended"

FirstEnded == reader = "ended" \/ infer = "ended"

(* The first of the two tasks to end ends the other.                       *)
StreamReturns ==
  /\ Chunks /\ FirstEnded
  /\ done' = TRUE
  /\ UNCHANGED <<mode, heard, pending, reader, infer, held, drops, errors, said, from, aggregator, cut>>

------------------------------------------------------------------------------
(* A streaming provider tells what it has so far of an utterance, then all *)
(* of it.  A new connection begins a new utterance.                        *)
Utterance == from..heard

Speaks ==
  /\ mode = "streaming" /\ heard < MaxPieces
  /\ heard' = heard + 1 /\ said' = said \cup {heard + 1}
  /\ HandlePartial(from..(heard + 1))
  /\ UNCHANGED <<mode, audio, from, cut>>

FinishesUtterance ==
  /\ mode = "streaming" /\ Utterance # {}
  /\ HandleFinal(Utterance)
  /\ from' = heard + 1
  /\ UNCHANGED <<mode, heard, audio, said, cut>>

FallsSilent == /\ mode = "streaming" /\ HandleClear
               /\ from' = heard + 1
               /\ UNCHANGED <<mode, heard, audio, said, cut>>

Reconnects == /\ mode = "streaming" /\ from' = heard + 1 /\ cut' = cut \cup Utterance
              /\ UNCHANGED <<mode, heard, audio, said, aggregator>>

StreamNext ==
  \/ ReadChunk \/ SourceEnds \/ PutEnd \/ Take \/ Resume \/ Transcribe \/ Tell \/ ChunkFails \/ StreamReturns
  \/ Speaks \/ FinishesUtterance \/ FallsSilent \/ Reconnects

(* The event loop runs both tasks, and every provider call returns: each   *)
(* request has a timeout.                                                  *)
StreamFairness ==
  /\ WF_streamVars(PutEnd) /\ WF_streamVars(Take) /\ WF_streamVars(Resume)
  /\ WF_streamVars(Transcribe \/ ChunkFails) /\ WF_streamVars(Tell) /\ WF_streamVars(StreamReturns)

StreamSpec == StreamInit /\ [][StreamNext]_streamVars /\ StreamFairness

------------------------------------------------------------------------------
FinalText == UNION {f.text : f \in final}

(* What was understood is in a final caption or still in the current       *)
(* utterance, whatever is forced, cleared or split or fails; a reconnect of *)
(* a streaming provider loses the utterance it interrupts, and the end of    *)
(* the stream the current one.                                             *)
NothingUnderstoodIsLost == said \subseteq FinalText \cup current \cup cut

(* A listener replaces a caption by its segment id: no two finals share    *)
(* one, nor does the utterance being spoken.                               *)
SegmentsAreDistinct == \A f, g \in final : f.id # segment /\ (f.id = g.id => f = g)

(* With whole chunks nothing is captioned twice.  (A streaming provider    *)
(* repeats an utterance that was forced final.)                            *)
ChunksOnce == mode = "chunks" => \A f, g \in final : f # g => f.text \cap g.text = {}

(* What the captions of a stream keep, whatever the provider does; the     *)
(* chunks that wait are always the last ones (StreamTypeOK).               *)
StreamInv ==
  /\ StreamTypeOK
  /\ NothingUnderstoodIsLost
  /\ SegmentsAreDistinct
  /\ ChunksOnce

(* A stream whose audio ends returns, so that its worker can start again,  *)
(* though an inference that gave up leaves no room for the end mark.       *)
CaptionsEnd == reader = "closing" ~> done \/ mode = "streaming"
==============================================================================
