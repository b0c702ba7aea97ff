------------------------- MODULE TranslatedSpeech -------------------------
(***************************************************************************)
(* From a final caption to the translated voice a listener hears: the      *)
(* queue of one language, its two inference slots, the text and then the   *)
(* voice of each segment (portal/translations/worker.py), and the page     *)
(* that plays segments in their order though they arrive in any            *)
(* (portal/static/js/listener-event.js).                                   *)
(***************************************************************************)
EXTENDS FiniteSets, FiniteSetsExt, Integers, Sequences

CONSTANTS MaxSegment,  \* a bound: the final captions of one stream
          MaxQueued,   \* segments waiting or being translated (15 in the code)
          MaxStored    \* what the page keeps before it flushes (5 in the code)

ASSUME SpeechAssumption == MaxSegment \in Nat /\ MaxQueued \in Nat

Slots == 2             \* LANGUAGE_SEMAPHORES
Segment == 1..MaxSegment
NoSegment == 0

VARIABLES voice,      \* the page plays voices, or shows text only
          published,  \* the last final caption
          job,        \* what became of each segment's translation
          depth,      \* LANGUAGE_QUEUES
          bundles,    \* bundles on the way to the page
          captions,   \* final captions the page has, each kept in its store
          page        \* the segment store and what it plays

speechVars == <<voice, published, job, depth, bundles, captions, page>>

With(state) == {s \in Segment : job[s] = state}

SpeechTypeOK ==
  /\ depth = Cardinality(With("queued")) + Cardinality(With("inferring"))
  /\ depth <= MaxQueued /\ Cardinality(With("inferring")) <= Slots
  /\ \A s \in Segment : page.store[s] # "none" => page.expected # NoSegment /\ s <= published

TranslatedInit ==
  /\ voice \in BOOLEAN
  /\ published = 0 /\ job = [s \in Segment |-> "none"] /\ depth = 0 /\ bundles = <<>>
  /\ captions = 0
  /\ page = [store |-> [s \in Segment |-> "none"], expected |-> NoSegment, reading |-> NoSegment,
             timer |-> "none", again |-> FALSE, spoken |-> <<>>]

------------------------------------------------------------------------------
(* The worker.  A bundle is a text whose voice is to come, its voice, or   *)
(* mute: there is no voice, and after an error no text either.             *)
Sends(s, content) == bundles' = Append(bundles, [segment |-> s, content |-> content])
Becomes(s, state) == job' = [job EXCEPT ![s] = state]

(* Each final caption is saved and translated by a task of its own.        *)
Publish ==
  /\ published < MaxSegment
  /\ published' = published + 1 /\ Becomes(published + 1, "saving")
  /\ UNCHANGED <<voice, depth, bundles, captions, page>>

(* A segment that could not be saved, or that nobody listens to, is not    *)
(* translated, nor told of.                                                *)
NotTranslated(s) ==
  /\ job[s] = "saving" /\ Becomes(s, "closed")
  /\ UNCHANGED <<voice, published, depth, bundles, captions, page>>

Full == depth >= MaxQueued

Enqueue(s) ==
  /\ job[s] = "saving"
  /\ IF Full THEN Becomes(s, "closed") /\ Sends(s, "mute") /\ UNCHANGED depth
     ELSE Becomes(s, "queued") /\ depth' = depth + 1 /\ UNCHANGED bundles
  /\ UNCHANGED <<voice, published, captions, page>>

Infer(s) ==
  /\ job[s] = "queued" /\ Cardinality(With("inferring")) < Slots
  /\ Becomes(s, "inferring")
  /\ UNCHANGED <<voice, published, depth, bundles, captions, page>>

(* The text is told at once; the voice no longer counts against the queue. *)
Translate(s) ==
  /\ job[s] = "inferring"
  /\ Becomes(s, "voicing") /\ depth' = depth - 1 /\ Sends(s, "text")
  /\ UNCHANGED <<voice, published, captions, page>>

(* A timeout, an empty answer, a model being downloaded, a failed save.    *)
InferFails(s) ==
  /\ job[s] = "inferring"
  /\ Becomes(s, "closed") /\ depth' = depth - 1 /\ Sends(s, "mute")
  /\ UNCHANGED <<voice, published, captions, page>>

(* A voice that fails, times out or is switched off leaves the text.       *)
Synthesized == {"audio", "mute"}

Voice(s) ==
  /\ job[s] = "voicing"
  /\ Becomes(s, "closed") /\ \E content \in Synthesized : Sends(s, content)
  /\ UNCHANGED <<voice, published, depth, captions, page>>

------------------------------------------------------------------------------
(* The page.  "store" is segmentStore, "expected" expectedSeq, "timer"     *)
(* seqWaitTimer and what it waits for, "reading" the segment whose reading *)
(* delay runs, "again" the timer of the next pump, "spoken" history.       *)
Stored(p) == {s \in Segment : p.store[s] # "none"}
Deleted(p) == [p EXCEPT !.store[p.expected] = "none", !.expected = p.expected + 1, !.reading = NoSegment]
Spoken(p) == Append(p.spoken, p.expected)

(* pumpSegmentQueue: a voice is scheduled at once; what has none is read;  *)
(* a text waits for its voice.                                             *)
Pump(p) ==
  IF p.reading # NoSegment THEN p
  ELSE IF p.expected \notin Stored(p) THEN [p EXCEPT !.timer = IF @ = "none" THEN "missing" ELSE @]
  ELSE IF ~voice \/ p.store[p.expected] = "mute"
       THEN [p EXCEPT !.timer = "none", !.reading = p.expected, !.spoken = Spoken(p)]
  ELSE IF p.store[p.expected] = "audio"
       THEN [Deleted(p) EXCEPT !.timer = "none", !.again = TRUE, !.spoken = Spoken(p)]
  ELSE [p EXCEPT !.timer = "audio"]

Server == <<voice, published, job, depth>>

(* The final caption comes over another socket, and its entry is never     *)
(* deleted: the store of five fills with them.                             *)
CaptionArrives ==
  /\ captions < published
  /\ captions' = captions + 1
  /\ page' = [page EXCEPT !.expected = IF @ = NoSegment THEN captions' ELSE @]
  /\ UNCHANGED <<Server, bundles>>

Crowded(p) == Cardinality(Stored(p)) + captions > MaxStored

(* slip: a bundle that comes late is stored. *)
LateNever(s, p) == FALSE

Late(s, p) == s < p.expected

(* A store that is too full skips to its oldest segment.                   *)
BundleArrives ==
  LET b == Head(bundles)
      aligned == [page EXCEPT !.expected = IF @ = NoSegment THEN b.segment ELSE @]
      kept == [aligned EXCEPT !.store[b.segment] = b.content]
  IN /\ bundles # <<>>
     /\ bundles' = Tail(bundles)
     /\ page' = IF Late(b.segment, aligned) THEN aligned
                ELSE Pump([kept EXCEPT !.expected = IF Crowded(kept) THEN Min(Stored(kept)) ELSE @])
     /\ UNCHANGED <<Server, captions>>

PumpAgain ==
  /\ page.again
  /\ page' = Pump([page EXCEPT !.again = FALSE])
  /\ UNCHANGED <<Server, bundles, captions>>

ReadingEnds ==
  /\ page.reading # NoSegment
  /\ page' = Pump(Deleted(page))
  /\ UNCHANGED <<Server, bundles, captions>>

(* slip: the timer advances and waits for the next bundle. *)
AfterSkip(p) == p

AfterWait(p) == Pump(p)

(* Sixty-five seconds without the expected segment: on to the next one.    *)
GivesUpMissing ==
  LET later == {s \in Stored(page) : s > page.expected}
      idle == [page EXCEPT !.timer = "none"]
  IN /\ page.timer = "missing"
     /\ page' = IF later = {} THEN idle ELSE AfterWait([idle EXCEPT !.expected = Min(later)])
     /\ UNCHANGED <<Server, bundles, captions>>

(* The same without its voice: the segment is read.                        *)
GivesUpVoice ==
  /\ page.timer = "audio"
  /\ page' = AfterWait([page EXCEPT !.timer = "none", !.store[page.expected] = IF @ = "none" THEN @ ELSE "mute"])
  /\ UNCHANGED <<Server, bundles, captions>>

TranslatedNext ==
  \/ Publish \/ CaptionArrives \/ BundleArrives \/ PumpAgain \/ ReadingEnds \/ GivesUpMissing \/ GivesUpVoice
  \/ \E s \in Segment : NotTranslated(s) \/ Enqueue(s) \/ Infer(s) \/ Translate(s) \/ InferFails(s) \/ Voice(s)

(* The socket delivers, and while a timer of the page runs, one of them    *)
(* expires; nothing is assumed of the worker.                              *)
TranslatedFairness ==
  /\ WF_speechVars(BundleArrives)
  /\ WF_speechVars(PumpAgain \/ ReadingEnds \/ GivesUpMissing \/ GivesUpVoice)

TranslatedSpec == TranslatedInit /\ [][TranslatedNext]_speechVars /\ TranslatedFairness

------------------------------------------------------------------------------
(* Whatever order the two slots and the voices answer in, the listener     *)
(* hears or reads segments in the order they were spoken, none twice.      *)
InOrder == \A i, j \in DOMAIN page.spoken : i < j => page.spoken[i] < page.spoken[j]

(* The worker's counters agree with its segments, and the page with their  *)
(* order.                                                                  *)
SpeechInv == SpeechTypeOK /\ InOrder

(* The page plays out whatever segments it has, though the voice of one,   *)
(* or the bundle of an earlier one, never comes.                           *)
StoredIsPlayed == Stored(page) # {} ~> Stored(page) = {}
=============================================================================
