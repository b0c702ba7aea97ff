------------------------------ MODULE MCSpeech ------------------------------
(* What becomes of a booth's speech, for TLC: the workers that transcribe   *)
(* it, the captions of one stream, and their translations at a listener's   *)
(* page.  They share no state; a behaviour runs one of them, and the others *)
(* do nothing.  A stream and its translations are over some time.           *)
EXTENDS TranscriptionWorkers, CaptionStream, TranslatedSpeech

VARIABLE which

SpeechInit ==
  /\ WorkersInit /\ StreamInit /\ TranslatedInit
  /\ which \in {"workers", "stream", "translations"}
  /\ which # "stream" => mode = "streaming"
  /\ which # "translations" => ~voice

(* A page without voices treats every segment alike: two of them suffice.   *)
TextIsShort == voice \/ published' < MaxSegment

SpeechNext ==
  /\ which' = which
  /\ \/ which = "workers" /\ WorkersNext /\ UNCHANGED <<streamVars, speechVars>>
     \/ which = "stream" /\ StreamNext /\ UNCHANGED <<vars, speechVars>>
     \/ which = "translations" /\ TranslatedNext /\ UNCHANGED <<vars, streamVars>> /\ TextIsShort
     \/ which # "workers" /\ UNCHANGED <<vars, streamVars, speechVars>>

SpeechSpec ==
  /\ SpeechInit /\ [][SpeechNext]_<<vars, streamVars, speechVars, which>>
  /\ Fairness /\ StreamFairness /\ TranslatedFairness
=============================================================================
