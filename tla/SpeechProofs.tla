---------------------------- MODULE SpeechProofs ----------------------------
(***************************************************************************)
(* What TLAPS proves of a booth's speech.  The workers, for any number of  *)
(* booths, sessions, requests and places: a booth is never streamed twice, *)
(* no session escapes a stop, the places are bounded and every reference   *)
(* to the model is given back.  The captions of a stream and their         *)
(* translations, of any length: StreamInv and SpeechInv.                   *)
(***************************************************************************)
EXTENDS TranscriptionWorkers, CaptionStream, TranslatedSpeech, FiniteSetTheorems,
        SequenceTheorems, WellFoundedInduction, TLAPS

Ended == {"closing", "done"}

busy     == {s \in Session : loop[s] # "done"}
occupied == {b \in Booth : workers[b] # NoSession}

(* What a request remembers while it waits: its booth, and a session that  *)
(* is nobody else's as long as it is remembered.                           *)
CallsSound ==
  \A c \in Caller :
    /\ call[c] # "none" => wants[c] \in Booth
    /\ call[c] \in {"startWaits", "stopWaits", "stopCleans"} => awaits[c] \in Session
    /\ call[c] = "stopCleans" => loop[awaits[c]] = "done"

(* NoOrphan is not inductive alone: a dead session may be dropped because  *)
(* it has left its loop, and a stop may unregister what it has waited for  *)
(* because nothing reuses that session in between.                         *)
WorkersInv ==
  /\ WorkersTypeOK
  /\ NoOrphan
  /\ \A s \in Session : loop[s] \notin Ended => booth[s] \in Booth
  /\ \A s \in Session : state[s] = "STOPPED" => loop[s] \in Ended
  /\ CallsSound
  /\ RefsBalanced
  /\ Occupied <= MaxTotalWorkers

USE DEF Ended

-----------------------------------------------------------------------------
LEMMA BusyFinite == IsFiniteSet(busy) /\ Cardinality(busy) \in Nat
  BY WorkersAssumption, FS_Subset, FS_CardinalityType DEF busy

LEMMA OccupiedFinite == IsFiniteSet(occupied) /\ Cardinality(occupied) \in Nat
  BY WorkersAssumption, FS_Subset, FS_CardinalityType DEF occupied

LEMMA WorkersInitInv == WorkersInit => WorkersInv
<1> SUFFICES ASSUME WorkersInit PROVE WorkersInv
  OBVIOUS
<1> USE WorkersAssumption DEF WorkersInit
<1>1. WorkersTypeOK
  BY DEF WorkersTypeOK, State, Loop, Call
<1>2. RefsBalanced
  <2>1. {s \in Session : loop[s] # "done"} = {}
    OBVIOUS
  <2> QED BY <2>1, FS_EmptySet DEF RefsBalanced
<1>3. Occupied <= MaxTotalWorkers
  <2>1. {b \in Booth : workers[b] # NoSession} = {}
    OBVIOUS
  <2> QED BY <2>1, FS_EmptySet DEF Occupied
<1> QED BY <1>1, <1>2, <1>3 DEF WorkersInv, NoOrphan, CallsSound

-----------------------------------------------------------------------------
(* The steps of a session's task but the last: from an await of its loop   *)
(* to another one or to the finally clause.                                *)
Moves(s) ==
  /\ loop[s] \notin Ended
  /\ \E stage \in Loop \ {"done"} : Goes(s, stage)
  /\ state' \in [Session -> State]
  /\ \A t \in Session \ {s} : state'[t] = state[t]
  /\ state'[s] = "STOPPED" => loop'[s] \in Ended
  /\ Task(s)

LEMMA TaskMoves ==
  ASSUME WorkersInv, NEW s \in Session, TaskStep(s), ~Closed(s)
  PROVE  Moves(s)
<1> USE DEF Moves, WorkersInv, WorkersTypeOK, Goes, Loop, State
<1>1. CASE FirstStep(s) \/ Retry(s)
  BY <1>1 DEF FirstStep, Retry, Iterate, Finishes
<1>2. CASE Announced(s) \/ Spawned(s) \/ StreamEnds(s)
  BY <1>2 DEF Announced, Spawned, StreamEnds
<1>3. CASE SpawnFails(s) \/ Unwound(s)
  BY <1>3 DEF SpawnFails, Unwound, Finishes
<1>4. CASE Cleaned(s)
  BY <1>4 DEF Cleaned, Finishes
<1> QED BY <1>1, <1>2, <1>3, <1>4 DEF TaskStep

LEMMA MovesInv ==
  ASSUME WorkersInv, NEW s \in Session, Moves(s)
  PROVE  WorkersInv'
<1> USE DEF Moves, Task, Goes
<1>1. loop' \in [Session -> Loop] /\ \A t \in Session \ {s} : loop'[t] = loop[t]
  BY DEF WorkersInv, WorkersTypeOK
<1>2. WorkersTypeOK'
  BY <1>1 DEF WorkersInv, WorkersTypeOK, callVars
<1>3. NoOrphan' /\ (\A t \in Session : loop[t] \notin Ended => booth[t] \in Booth)'
  BY <1>1 DEF WorkersInv, NoOrphan, WorkersTypeOK
<1>4. (\A t \in Session : state[t] = "STOPPED" => loop[t] \in Ended)'
  BY <1>1 DEF WorkersInv
<1>5. CallsSound'
  BY <1>1 DEF WorkersInv, CallsSound, callVars
<1>6. RefsBalanced'
  <2>1. busy' = busy
    BY <1>1 DEF busy, WorkersInv, WorkersTypeOK
  <2> QED BY <2>1 DEF WorkersInv, RefsBalanced, busy
<1>7. (Occupied <= MaxTotalWorkers)'
  BY DEF WorkersInv, Occupied
<1> QED BY <1>2, <1>3, <1>4, <1>5, <1>6, <1>7 DEF WorkersInv

(* The last step of a task: the reference to the model is given back.      *)
LEMMA ClosedInv ==
  ASSUME WorkersInv, NEW s \in Session, Closed(s)
  PROVE  WorkersInv'
<1> USE DEF Closed, Goes
<1>1. loop' \in [Session -> Loop] /\ loop'[s] = "done"
        /\ \A t \in Session \ {s} : loop'[t] = loop[t]
  BY DEF WorkersInv, WorkersTypeOK, Loop
<1>2. WorkersTypeOK'
  BY <1>1 DEF WorkersInv, WorkersTypeOK, callVars
<1>3. NoOrphan' /\ (\A t \in Session : loop[t] \notin Ended => booth[t] \in Booth)'
        /\ (\A t \in Session : state[t] = "STOPPED" => loop[t] \in Ended)'
  BY <1>1 DEF WorkersInv, NoOrphan, WorkersTypeOK
<1>4. CallsSound'
  BY <1>1 DEF WorkersInv, CallsSound, callVars
<1>5. RefsBalanced'
  <2>1. s \in busy /\ busy' = busy \ {s}
    BY <1>1 DEF busy
  <2>2. Cardinality(busy') = Cardinality(busy) - 1
    BY <2>1, BusyFinite, FS_RemoveElement
  <2>3. modelRefs = Cardinality(busy) /\ Cardinality(busy') \in Nat
    BY <2>1, BusyFinite, FS_RemoveElement, FS_CardinalityType DEF WorkersInv, RefsBalanced, busy
  <2>4. modelRefs' = Cardinality(busy')
    BY <2>2, <2>3, BusyFinite
  <2> QED BY <2>4 DEF RefsBalanced, busy
<1>6. (Occupied <= MaxTotalWorkers)'
  BY DEF WorkersInv, Occupied
<1> QED BY <1>2, <1>3, <1>4, <1>5, <1>6 DEF WorkersInv

-----------------------------------------------------------------------------
(* Steps that leave the sessions and their places alone.                   *)
LEMMA CallOnlyInv ==
  ASSUME WorkersInv, WorkersTypeOK', CallsSound',
         UNCHANGED <<workers, sessionVars, modelRefs>>
  PROVE  WorkersInv'
  BY DEF WorkersInv, NoOrphan, RefsBalanced, Occupied, sessionVars

LEMMA TurnsSound ==
  ASSUME WorkersInv, NEW c \in Caller, NEW stage \in Call,
         NEW s \in Session \cup {NoSession},
         Turns(c, stage, s) \/ Returns(c), call[c] # "none",
         stage \in {"startWaits", "stopWaits", "stopCleans"} => s \in Session,
         stage = "stopCleans" => loop'[s] = "done",
         \A d \in Caller : call[d] = "stopCleans" => loop'[awaits[d]] = "done"
  PROVE  /\ CallsSound'
         /\ call' \in [Caller -> Call]
         /\ wants' \in [Caller -> Booth \cup {NoBooth}]
         /\ awaits' \in [Caller -> Session \cup {NoSession}]
  BY DEF WorkersInv, WorkersTypeOK, CallsSound, Turns, Returns, Call

LEMMA RequestInv ==
  ASSUME WorkersInv, NEW c \in Caller, NEW b \in Booth, NEW what \in {"start", "stop"},
         Request(c, b, what)
  PROVE  WorkersInv'
<1> USE DEF Request
<1>1. WorkersTypeOK'
  BY DEF WorkersInv, WorkersTypeOK, sessionVars, Call
<1>2. CallsSound'
  BY DEF WorkersInv, WorkersTypeOK, CallsSound, sessionVars
<1> QED BY <1>1, <1>2, CallOnlyInv

(* A request that only moves on: refused, waiting, or done waiting.        *)
LEMMA MovesOnInv ==
  ASSUME WorkersInv, NEW c \in Caller,
         StartRefused(c) \/ StartFinds(c) \/ StartAgain(c) \/ StopWaited(c)
  PROVE  WorkersInv'
<1>1. UNCHANGED <<workers, sessionVars, modelRefs>>
  BY DEF StartRefused, StartFinds, StartAgain, StopWaited
<1>2. \A d \in Caller : call[d] = "stopCleans" => loop'[awaits[d]] = "done"
  BY <1>1 DEF WorkersInv, CallsSound, sessionVars
<1>3. /\ CallsSound'
      /\ call' \in [Caller -> Call]
      /\ wants' \in [Caller -> Booth \cup {NoBooth}]
      /\ awaits' \in [Caller -> Session \cup {NoSession}]
  <2>1. CASE StartRefused(c)
    BY <2>1, <1>2, TurnsSound DEF StartRefused, Call
  <2>2. CASE StartFinds(c)
    <3>1. workers[wants[c]] \in Session
      BY <2>2 DEF StartFinds, WorkersInv, CallsSound, WorkersTypeOK
    <3> QED BY <3>1, <2>2, <1>2, TurnsSound DEF StartFinds, Call
  <2>3. CASE StartAgain(c)
    BY <2>3, <1>2, TurnsSound DEF StartAgain, Call
  <2>4. CASE StopWaited(c)
    <3>1. awaits[c] \in Session /\ loop'[awaits[c]] = "done"
      BY <2>4, <1>1 DEF StopWaited, WorkersInv, CallsSound, sessionVars
    <3> QED BY <3>1, <2>4, <1>2, TurnsSound DEF StopWaited, Call
  <2> QED BY <2>1, <2>2, <2>3, <2>4
<1>4. WorkersTypeOK'
  BY <1>1, <1>3 DEF WorkersInv, WorkersTypeOK, sessionVars
<1> QED BY <1>1, <1>3, <1>4, CallOnlyInv

(* A new session: it takes a free place and a reference.                   *)
LEMMA CreatesInv ==
  ASSUME WorkersInv, NEW c \in Caller, NEW s \in Session, StartCreates(c, s)
  PROVE  WorkersInv'
<1> DEFINE b == wants[c]
<1> USE DEF StartCreates, Goes
<1>1. b \in Booth /\ workers[b] = NoSession
  BY DEF WorkersInv, CallsSound
<1>2. /\ loop' \in [Session -> Loop] /\ loop'[s] = "scheduled"
      /\ \A t \in Session \ {s} : loop'[t] = loop[t]
  BY DEF WorkersInv, WorkersTypeOK, Loop
<1>3. \A d \in Caller : awaits[d] # s
  BY DEF Known
<1>4. \A d \in Caller : call[d] = "stopCleans" => loop'[awaits[d]] = "done"
  BY <1>2, <1>3 DEF WorkersInv, CallsSound
<1>5. /\ CallsSound'
      /\ call' \in [Caller -> Call]
      /\ wants' \in [Caller -> Booth \cup {NoBooth}]
      /\ awaits' \in [Caller -> Session \cup {NoSession}]
  BY <1>4, TurnsSound DEF Call
<1>6. WorkersTypeOK'
  BY <1>1, <1>2, <1>5 DEF WorkersInv, WorkersTypeOK, State
<1>7. NoOrphan' /\ (\A t \in Session : loop[t] \notin Ended => booth[t] \in Booth)'
        /\ (\A t \in Session : state[t] = "STOPPED" => loop[t] \in Ended)'
  <2>1. /\ booth'[s] = b /\ workers'[b] = s /\ state'[s] = "STARTING"
        /\ \A t \in Session \ {s} : booth'[t] = booth[t] /\ state'[t] = state[t]
        /\ \A d \in Booth \ {b} : workers'[d] = workers[d]
    BY <1>1 DEF WorkersInv, WorkersTypeOK
  <2>2. \A t \in Session \ {s} : loop[t] \notin Ended => booth[t] \in Booth \ {b}
    BY <1>1, WorkersAssumption DEF WorkersInv, NoOrphan
  <2> QED BY <1>1, <1>2, <2>1, <2>2 DEF WorkersInv, NoOrphan
<1>8. RefsBalanced'
  <2>1. s \notin busy /\ busy' = busy \cup {s}
    BY <1>2 DEF busy
  <2>2. Cardinality(busy') = Cardinality(busy) + 1
    BY <2>1, BusyFinite, FS_AddElement
  <2> QED BY <2>2 DEF WorkersInv, RefsBalanced, busy
<1>9. (Occupied <= MaxTotalWorkers)'
  <2>1. b \notin occupied /\ occupied' = occupied \cup {b}
    BY <1>1, WorkersAssumption DEF occupied, WorkersInv, WorkersTypeOK
  <2>2. Cardinality(occupied') = Cardinality(occupied) + 1
    BY <2>1, OccupiedFinite, FS_AddElement
  <2>3. Cardinality(occupied) < MaxTotalWorkers
    BY OccupiedFinite, WorkersAssumption DEF AtCapacity, Occupied, occupied
  <2> QED BY <2>2, <2>3, OccupiedFinite, WorkersAssumption DEF Occupied, occupied
<1> QED BY <1>5, <1>6, <1>7, <1>8, <1>9 DEF WorkersInv

(* A place given up: nobody in its loop loses its registration.            *)
LEMMA VacatedInv ==
  ASSUME WorkersInv, NEW b \in Booth, workers' = [workers EXCEPT ![b] = NoSession],
         workers[b] \in Session => loop[workers[b]] \in Ended,
         UNCHANGED <<sessionVars, modelRefs>>, CallsSound',
         call' \in [Caller -> Call],
         wants' \in [Caller -> Booth \cup {NoBooth}],
         awaits' \in [Caller -> Session \cup {NoSession}]
  PROVE  WorkersInv'
<1> USE DEF sessionVars
<1>1. WorkersTypeOK'
  BY DEF WorkersInv, WorkersTypeOK
<1>2. NoOrphan' /\ (\A t \in Session : loop[t] \notin Ended => booth[t] \in Booth)'
        /\ (\A t \in Session : state[t] = "STOPPED" => loop[t] \in Ended)'
  BY DEF WorkersInv, NoOrphan, WorkersTypeOK
<1>3. RefsBalanced'
  BY DEF WorkersInv, RefsBalanced
<1>4. (Occupied <= MaxTotalWorkers)'
  <2>1. occupied' \subseteq occupied
    BY DEF occupied, WorkersInv, WorkersTypeOK
  <2>2. Cardinality(occupied') <= Cardinality(occupied) /\ Cardinality(occupied') \in Nat
    BY <2>1, OccupiedFinite, FS_Subset, FS_CardinalityType
  <2> QED BY <2>2, OccupiedFinite, WorkersAssumption DEF WorkersInv, Occupied, occupied
<1> QED BY <1>1, <1>2, <1>3, <1>4 DEF WorkersInv

LEMMA DropsInv ==
  ASSUME WorkersInv, NEW c \in Caller, StartDrops(c)
  PROVE  WorkersInv'
<1>1. wants[c] \in Booth /\ loop[workers[wants[c]]] \in Ended
  BY DEF StartDrops, Dead, WorkersInv, WorkersTypeOK, CallsSound
<1>2. CallsSound' /\ call' = call /\ wants' = wants /\ awaits' = awaits
  BY DEF StartDrops, WorkersInv, CallsSound, callVars, sessionVars
<1> QED BY <1>1, <1>2, VacatedInv DEF StartDrops, WorkersInv, WorkersTypeOK

LEMMA CleansInv ==
  ASSUME WorkersInv, NEW c \in Caller, StopCleans(c)
  PROVE  WorkersInv'
<1>1. \A d \in Caller : call[d] = "stopCleans" => loop'[awaits[d]] = "done"
  BY DEF StopCleans, WorkersInv, CallsSound, sessionVars
<1>2. /\ CallsSound'
      /\ call' \in [Caller -> Call]
      /\ wants' \in [Caller -> Booth \cup {NoBooth}]
      /\ awaits' \in [Caller -> Session \cup {NoSession}]
  BY <1>1, TurnsSound DEF StopCleans, Call
<1>3. CASE workers[wants[c]] = awaits[c]
  <2>1. wants[c] \in Booth /\ loop[workers[wants[c]]] \in Ended
    BY <1>3 DEF StopCleans, WorkersInv, CallsSound
  <2> QED BY <1>2, <1>3, <2>1, VacatedInv DEF StopCleans, Unregister
<1>4. CASE workers[wants[c]] # awaits[c]
  <2>1. UNCHANGED <<workers, sessionVars, modelRefs>>
    BY <1>4 DEF StopCleans, Unregister
  <2>2. WorkersTypeOK'
    BY <1>2, <2>1 DEF WorkersInv, WorkersTypeOK, sessionVars
  <2> QED BY <1>2, <2>1, <2>2, CallOnlyInv
<1> QED BY <1>3, <1>4

(* A stop only redirects a session that is in its loop, or marks it.       *)
LEMMA TakesInv ==
  ASSUME WorkersInv, NEW c \in Caller, StopTakes(c)
  PROVE  WorkersInv'
<1> DEFINE s == workers[wants[c]]
<1>1. wants[c] \in Booth /\ s \in Session \cup {NoSession}
  BY DEF StopTakes, WorkersInv, WorkersTypeOK, CallsSound
<1>2. CASE s = NoSession
  <2>1. UNCHANGED <<workers, sessionVars, modelRefs>>
    BY <1>2 DEF StopTakes, sessionVars
  <2>2. /\ CallsSound'
        /\ call' \in [Caller -> Call]
        /\ wants' \in [Caller -> Booth \cup {NoBooth}]
        /\ awaits' \in [Caller -> Session \cup {NoSession}]
    <3>1. \A d \in Caller : call[d] = "stopCleans" => loop'[awaits[d]] = "done"
      BY <2>1 DEF WorkersInv, CallsSound, sessionVars
    <3> QED BY <1>2, <3>1, TurnsSound DEF StopTakes, Call
  <2>3. WorkersTypeOK'
    BY <2>1, <2>2 DEF WorkersInv, WorkersTypeOK, sessionVars
  <2> QED BY <2>1, <2>2, <2>3, CallOnlyInv
<1>3. CASE s # NoSession
  <2>1. s \in Session /\ Turns(c, "stopWaits", s) /\ StopSignal(s)
          /\ UNCHANGED <<workers, booth, modelRefs>>
    BY <1>1, <1>3 DEF StopTakes
  <2>2. /\ loop' \in [Session -> Loop]
        /\ \A t \in Session \ {s} : loop'[t] = loop[t] /\ state'[t] = state[t]
        /\ loop[s] \in Ended => loop'[s] = loop[s]
        /\ loop[s] \notin Ended => loop'[s] \notin Ended
        /\ state' \in [Session -> State]
        /\ state'[s] = "STOPPED" => state[s] = "STOPPED" /\ loop'[s] = loop[s]
    BY <2>1 DEF StopSignal, Cancelled, Goes, Loop, State, WorkersInv, WorkersTypeOK
  <2>3. \A d \in Caller : call[d] = "stopCleans" => loop'[awaits[d]] = "done"
    BY <2>2 DEF WorkersInv, CallsSound
  <2>4. /\ CallsSound'
        /\ call' \in [Caller -> Call]
        /\ wants' \in [Caller -> Booth \cup {NoBooth}]
        /\ awaits' \in [Caller -> Session \cup {NoSession}]
    BY <2>1, <2>3, TurnsSound DEF StopTakes, Call
  <2>5. WorkersTypeOK'
    BY <2>1, <2>2, <2>4 DEF WorkersInv, WorkersTypeOK
  <2>6. NoOrphan' /\ (\A t \in Session : loop[t] \notin Ended => booth[t] \in Booth)'
          /\ (\A t \in Session : state[t] = "STOPPED" => loop[t] \in Ended)'
    BY <2>1, <2>2 DEF WorkersInv, NoOrphan
  <2>7. busy' = busy
    BY <2>2 DEF busy
  <2>8. RefsBalanced'
    BY <2>1, <2>7 DEF WorkersInv, RefsBalanced, busy
  <2>9. (Occupied <= MaxTotalWorkers)'
    BY <2>1 DEF WorkersInv, Occupied
  <2> QED BY <2>4, <2>5, <2>6, <2>8, <2>9 DEF WorkersInv
<1> QED BY <1>2, <1>3

-----------------------------------------------------------------------------
(* The inductive invariant of worker.py's registry.                        *)
LEMMA WorkersInvInductive == WorkersInv /\ [WorkersNext]_vars => WorkersInv'
<1> SUFFICES ASSUME WorkersInv, [WorkersNext]_vars PROVE WorkersInv'
  OBVIOUS
<1>1. ASSUME NEW s \in Session, TaskStep(s) PROVE WorkersInv'
  BY <1>1, TaskMoves, MovesInv, ClosedInv
<1>2. ASSUME NEW c \in Caller, CallStep(c) PROVE WorkersInv'
  BY <1>2, CreatesInv, DropsInv, CleansInv, TakesInv, MovesOnInv DEF CallStep
<1>3. CASE UNCHANGED vars
  BY <1>3 DEF vars, sessionVars, callVars, WorkersInv, WorkersTypeOK, NoOrphan, CallsSound,
     RefsBalanced, Occupied
<1> QED BY <1>1, <1>2, <1>3, RequestInv DEF WorkersNext

(* The inductive invariant of the workers, whatever the calls and wherever *)
(* a session is when they come.                                            *)
THEOREM WorkersInvariance == WorkersSpec => []WorkersInv
  BY WorkersInitInv, WorkersInvInductive, PTL DEF WorkersSpec

(* Types, for any constants.                                               *)
THEOREM WorkersTypeCorrect == WorkersSpec => []WorkersTypeOK
<1>1. WorkersInv => WorkersTypeOK
  BY DEF WorkersInv
<1> QED BY <1>1, WorkersInvariance, PTL

(* No session of worker.py runs where a stop of its booth cannot find it.  *)
THEOREM NoOrphanHolds == WorkersSpec => []NoOrphan
<1>1. WorkersInv => NoOrphan
  BY DEF WorkersInv
<1> QED BY <1>1, WorkersInvariance, PTL

(* A booth is never streamed by two sessions at once: each of them would   *)
(* have to be the registered one.                                          *)
THEOREM OneStreamPerBoothHolds == WorkersSpec => []OneStreamPerBooth
<1>1. WorkersInv => OneStreamPerBooth
  BY DEF WorkersInv, NoOrphan, OneStreamPerBooth, Streaming
<1> QED BY <1>1, WorkersInvariance, PTL

(* Every reference to the local model is given back once.                  *)
THEOREM RefsBalancedHolds == WorkersSpec => []RefsBalanced
<1>1. WorkersInv => RefsBalanced
  BY DEF WorkersInv
<1> QED BY <1>1, WorkersInvariance, PTL

(* MAX_TOTAL_WORKERS bounds the ffmpeg processes: each streaming session   *)
(* occupies the place of its booth, and no two the same one.               *)
THEOREM CapacityKeptHolds == WorkersSpec => []CapacityKept
<1>1. ASSUME WorkersInv PROVE CapacityKept
  <2> DEFINE streaming == {s \in Session : Streaming(s)}
             place == [s \in streaming |-> booth[s]]
  <2>1. \A s \in streaming : booth[s] \in occupied /\ workers[booth[s]] = s
    BY <1>1, WorkersAssumption DEF WorkersInv, NoOrphan, Streaming, occupied
  <2>2. place \in Injection(streaming, occupied)
    BY <2>1 DEF Injection, IsInjective
  <2> HIDE DEF place, streaming
  <2>3. IsFiniteSet(streaming) /\ Cardinality(streaming) <= Cardinality(occupied)
    BY <2>2, OccupiedFinite, FS_Injection
  <2>4. Cardinality(streaming) \in Nat
    BY <2>3, FS_CardinalityType
  <2>5. Cardinality(streaming) <= MaxTotalWorkers
    BY <1>1, <2>3, <2>4, OccupiedFinite, WorkersAssumption DEF WorkersInv, Occupied, occupied
  <2> QED BY <2>5 DEF CapacityKept, streaming
<1> QED BY <1>1, WorkersInvariance, PTL

(* All that start, stop and _run_session promise of the workers.           *)
THEOREM WorkersSafeHolds == WorkersSpec => []WorkersSafe
BY WorkersTypeCorrect, OneStreamPerBoothHolds, NoOrphanHolds, CapacityKeptHolds,
   RefsBalancedHolds, PTL DEF WorkersSafe

-----------------------------------------------------------------------------
(* The captions of one stream: StreamInv, for a stream of any length.      *)

(* In the order in which they were heard: what was understood, the chunk   *)
(* being transcribed, the chunks that wait.                                *)
StreamTypes ==
  /\ mode \in {"chunks", "streaming"} /\ heard \in Nat
  /\ pending \in Seq(Nat) /\ held \in Nat
  /\ reader \in {"reading", "closing", "ended"}
  /\ infer \in {"waiting", "busy", "telling", "paused", "ended"}
  /\ said \subseteq 1 .. heard /\ current \subseteq said /\ cut \subseteq 1 .. heard
  /\ from \in 1 .. (heard + 1) /\ segment \in Nat
  /\ \A f \in final : f.id \in Nat /\ f.id < segment /\ f.text \subseteq said

QueueOK ==
  /\ Len(pending) <= QueueSize
  /\ \A i, j \in 1 .. Len(pending) : i < j /\ pending[j] # EndMark => pending[i] \in 1 .. (pending[j] - 1)
  /\ \A i \in 1 .. Len(pending) : pending[i] <= heard /\ (pending[i] = EndMark => reader = "ended" /\ i = Len(pending))

HeldOK ==
  /\ infer \in {"busy", "telling"} <=> held # EndMark
  /\ held <= heard
  /\ held # EndMark => \A p \in said : p < held

Ahead == \A i \in 1 .. Len(pending) :
  pending[i] # EndMark => held < pending[i] /\ \A p \in said : p < pending[i]

Apart ==
  /\ \A f \in final : f.text \cap current = {}
  /\ \A f, g \in final : f # g => f.text \cap g.text = {}

ChunksInOrder == QueueOK /\ HeldOK /\ Ahead /\ Apart

(* A streaming provider repeats its utterance: what of it is not in a      *)
(* caption is in the utterance.                                            *)
UtteranceKept ==
  /\ said = 1 .. heard
  /\ current \subseteq (from .. heard) \cup cut
  /\ pending = <<>> /\ held = EndMark /\ infer = "waiting"

StreamIInv ==
  /\ StreamTypes
  /\ NothingUnderstoodIsLost
  /\ \A f, g \in final : f.id = g.id => f = g
  /\ mode = "chunks" => ChunksInOrder
  /\ mode = "streaming" => UtteranceKept

LEMMA StreamSuffices == StreamIInv => StreamInv
<1> SUFFICES ASSUME StreamIInv PROVE StreamInv
  OBVIOUS
<1>1. SegmentsAreDistinct
  BY DEF StreamIInv, StreamTypes, SegmentsAreDistinct
<1>2. ChunksOnce
  BY DEF StreamIInv, ChunksInOrder, Apart, ChunksOnce
<1>3. StreamTypeOK
  <2>1. CASE mode = "chunks"
    BY <2>1 DEF StreamIInv, StreamTypes, ChunksInOrder, QueueOK, HeldOK, StreamTypeOK
  <2>2. CASE mode = "streaming"
    BY <2>2 DEF StreamIInv, StreamTypes, UtteranceKept, StreamTypeOK, QueueSize
  <2> QED BY <2>1, <2>2 DEF StreamIInv, StreamTypes
<1> QED BY <1>1, <1>2, <1>3 DEF StreamIInv, StreamInv

LEMMA StreamStarts == StreamInit => StreamIInv
<1> SUFFICES ASSUME StreamInit PROVE StreamIInv
  OBVIOUS
<1>1. StreamTypes
  BY DEF StreamInit, StreamTypes, EndMark
<1>2. NothingUnderstoodIsLost
  BY DEF StreamInit, NothingUnderstoodIsLost
<1>3. ChunksInOrder
  BY DEF StreamInit, ChunksInOrder, QueueOK, HeldOK, Ahead, Apart, EndMark, QueueSize
<1>4. UtteranceKept
  BY DEF StreamInit, UtteranceKept
<1> QED BY <1>1, <1>2, <1>3, <1>4 DEF StreamIInv, StreamInit

(* What the aggregator does with words: they are final under the segment's *)
(* id, which is not used again, or there are none.                         *)
LEMMA FinalsShape ==
  ASSUME StreamTypes, \A f, g \in final : f.id = g.id => f = g,
         NEW words, words \subseteq Nat, final' = Finals(words), segment' \in {segment, segment + 1},
         words # {} => segment' = segment + 1
  PROVE  /\ FinalText' = FinalText \cup words
         /\ segment' \in Nat
         /\ \A f \in final' : f.id \in Nat /\ f.id < segment'
         /\ \A f, g \in final' : f.id = g.id => f = g
         /\ \A f \in final' : f \in final \/ (f.text = words /\ words # {})
<1>1. CASE words = {}
  BY <1>1 DEF Finals, FinalText, StreamTypes
<1>2. CASE words # {}
  <2> DEFINE n == [id |-> segment, text |-> words]
  <2>1. final' = final \cup {n} /\ segment' = segment + 1
    BY <1>2 DEF Finals
  <2>2. n.id = segment /\ n.text = words
    OBVIOUS
  <2> HIDE DEF n
  <2>3. FinalText' = FinalText \cup words
    BY <2>1, <2>2 DEF FinalText
  <2>4. \A f \in final : f.id \in Nat /\ f.id < segment
    BY DEF StreamTypes
  <2>5. segment \in Nat
    BY DEF StreamTypes
  <2>6. \A f \in final : f.id # n.id
    BY <2>2, <2>4, <2>5
  <2>7. \A f \in final' : f.id \in Nat /\ f.id < segment'
    BY <2>1, <2>2, <2>4, <2>5
  <2>8. \A f, g \in final' : f.id = g.id => f = g
    BY <2>1, <2>6
  <2>9. segment' \in Nat /\ \A f \in final' : f \in final \/ (f.text = words /\ words # {})
    BY <1>2, <2>1, <2>2, <2>5
  <2> QED BY <2>3, <2>7, <2>8, <2>9
<1> QED BY <1>1, <1>2

(* The queue loses its oldest chunks, ...                                  *)
LEMMA QueueShorter ==
  ASSUME StreamTypes, QueueOK, Ahead, NEW d \in 0 .. Len(pending),
         pending' \in Seq(Nat), Len(pending') = Len(pending) - d,
         \A i \in 1 .. Len(pending) - d : pending'[i] = pending[i + d],
         heard' = heard, reader' = reader
  PROVE  QueueOK' /\ \A i \in 1 .. Len(pending') : pending'[i] # EndMark => held < pending'[i] /\ \A p \in said : p < pending'[i]
<1>1. PICK L \in Nat : L = Len(pending)
  BY LenProperties DEF StreamTypes
<1>2. \A i \in 1 .. L - d : i + d \in 1 .. L /\ i \in Nat
  BY <1>1
<1>3. Len(pending') = L - d /\ L - d <= L /\ L - d \in Nat
  BY <1>1
<1>4. \A i \in 1 .. L - d : pending'[i] = pending[i + d]
  BY <1>1
<1>5. \A i, j \in 1 .. L - d : i < j => i + d < j + d
  BY <1>1
<1>6. \A i, j \in 1 .. Len(pending') : i < j /\ pending'[j] # EndMark => pending'[i] \in 1 .. (pending'[j] - 1)
  BY <1>1, <1>2, <1>3, <1>4, <1>5 DEF QueueOK
<1>7. ASSUME NEW i \in 1 .. L - d
      PROVE  pending'[i] <= heard /\ (pending'[i] = EndMark => reader = "ended" /\ i = L - d)
  <2>1. pending[i + d] <= heard /\ (pending[i + d] = EndMark => reader = "ended" /\ i + d = L)
    BY <1>1, <1>2 DEF QueueOK
  <2>2. i + d = L => i = L - d
    <3>1. i \in Nat /\ d \in Nat /\ L \in Nat
      BY <1>1, <1>2
    <3> QED BY <3>1
  <2> QED BY <1>4, <2>1, <2>2
<1>8. Len(pending') <= QueueSize
  BY <1>1, <1>3 DEF QueueOK, QueueSize
<1>9. QueueOK'
  BY <1>3, <1>6, <1>7, <1>8 DEF QueueOK
<1>10. \A i \in 1 .. L - d : pending'[i] # EndMark => held < pending'[i] /\ \A p \in said : p < pending'[i]
  BY <1>1, <1>2, <1>4 DEF Ahead
<1> QED BY <1>3, <1>9, <1>10

(* ... and gets a new one, if it is still filled.                          *)
LEMMA QueueLonger ==
  ASSUME StreamTypes, NEW q \in Seq(Nat), NEW x \in Nat, pending' = Append(q, x),
         Len(q) < QueueSize, heard <= heard', heard' \in Nat,
         \A i, j \in 1 .. Len(q) : i < j /\ q[j] # EndMark => q[i] \in 1 .. (q[j] - 1),
         \A i \in 1 .. Len(q) : q[i] # EndMark /\ q[i] <= heard,
         x = EndMark => reader' = "ended", x # EndMark => x = heard + 1 /\ heard' = heard + 1
  PROVE  pending' \in Seq(Nat) /\ QueueOK'
<1>1. PICK L \in Nat : L = Len(q)
  BY LenProperties
<1>2. /\ pending' \in Seq(Nat) /\ Len(pending') = L + 1 /\ pending'[L + 1] = x
      /\ \A i \in 1 .. L : pending'[i] = q[i]
  BY <1>1, AppendProperties
<1>3. \A i \in 1 .. L : q[i] \in Nat
  BY <1>1, ElementOfSeq
<1>4. heard \in Nat
  BY DEF StreamTypes
<1>5. ASSUME NEW i \in 1 .. (L + 1), NEW j \in 1 .. (L + 1), i < j, pending'[j] # EndMark
      PROVE  pending'[i] \in 1 .. (pending'[j] - 1)
  <2>1. i \in 1 .. L
    BY <1>5
  <2>2. CASE j \in 1 .. L
    BY <1>1, <1>2, <1>5, <2>1, <2>2
  <2>3. CASE j = L + 1
    <3>1. pending'[j] = heard + 1 /\ pending'[i] = q[i] /\ q[i] # EndMark /\ q[i] <= heard /\ q[i] \in Nat
      BY <1>1, <1>2, <1>3, <1>5, <2>1, <2>3
    <3> QED BY <1>4, <3>1 DEF EndMark
  <2> QED BY <1>1, <2>2, <2>3
<1>6. ASSUME NEW i \in 1 .. (L + 1)
      PROVE  pending'[i] <= heard' /\ (pending'[i] = EndMark => reader' = "ended" /\ i = L + 1)
  <2>1. CASE i \in 1 .. L
    BY <1>1, <1>2, <1>3, <1>4, <2>1
  <2>2. CASE i = L + 1
    BY <1>2, <1>4, <2>2 DEF EndMark
  <2> QED BY <1>1, <2>1, <2>2
<1>7. L + 1 <= QueueSize
  BY <1>1 DEF QueueSize
<1> QED BY <1>2, <1>5, <1>6, <1>7 DEF QueueOK

AggregatorRests == UNCHANGED <<mode, said, from, current, segment, final, cut>>

(* A step of the reader, or of the inference before it tells, is one of    *)
(* the queue.                                                              *)
LEMMA WiderRange == \A n, m \in Nat : n <= m => 1 .. n \subseteq 1 .. m /\ 1 .. (n + 1) \subseteq 1 .. (m + 1)
OBVIOUS

LEMMA EmptyHasNoLength == ASSUME NEW s, s = <<>> PROVE Len(s) = 0
OBVIOUS

LEMMA TailOfTwo == ASSUME NEW s \in Seq(Nat), Len(s) = 2
                   PROVE  Tail(s) \in Seq(Nat) /\ Len(Tail(s)) = 1 /\ Tail(s)[1] = s[2]
<1> DEFINE t == Tail(s)
<1>1. s # <<>>
  <2> SUFFICES ASSUME s = <<>> PROVE FALSE
    OBVIOUS
  <2>1. Len(s) = 0
    BY EmptyHasNoLength
  <2> QED BY <2>1
<1>2. t \in Seq(Nat) /\ Len(t) = Len(s) - 1 /\ \A i \in 1 .. Len(t) : t[i] = s[i + 1]
  BY <1>1, HeadTailProperties
<1> HIDE DEF t
<1>3. Len(t) = 1
  BY <1>2
<1>4. t[1] = s[2]
  BY <1>2, <1>3
<1>5. t \in Seq(Nat) /\ Len(t) = 1 /\ t[1] = s[2]
  BY <1>2, <1>3, <1>4
<1> QED BY <1>5 DEF t

LEMMA QueueStep ==
  ASSUME StreamIInv, mode = "chunks", AggregatorRests,
         heard' \in Nat, heard <= heard', pending' \in Seq(Nat), held' \in Nat,
         reader' \in {"reading", "closing", "ended"}, infer' \in {"waiting", "busy", "telling", "paused", "ended"},
         QueueOK', HeldOK', Ahead'
  PROVE  StreamIInv'
<1>1. StreamTypes /\ ChunksInOrder
  BY DEF StreamIInv
<1>2. heard \in Nat /\ said \subseteq 1 .. heard'
  BY <1>1 DEF StreamTypes
<1>3. StreamTypes'
  <2>1. /\ from' = from /\ cut' = cut /\ from \in 1 .. (heard + 1) /\ cut \subseteq 1 .. heard
    BY <1>1 DEF StreamTypes, AggregatorRests
  <2>2. from' \in 1 .. (heard' + 1) /\ cut' \subseteq 1 .. heard'
    BY <1>2, <2>1, WiderRange
  <2>3. UNCHANGED <<mode, said, current, segment, final>>
    BY DEF AggregatorRests
  <2> QED BY <1>1, <1>2, <2>2, <2>3 DEF StreamTypes
<1>4. NothingUnderstoodIsLost' /\ \A f, g \in final' : f.id = g.id => f = g
  BY DEF StreamIInv, NothingUnderstoodIsLost, FinalText, AggregatorRests
<1>5. Apart'
  BY <1>1 DEF ChunksInOrder, Apart, AggregatorRests
<1> QED BY <1>3, <1>4, <1>5 DEF StreamIInv, ChunksInOrder, AggregatorRests

(* What is heard last comes after all that was heard before.               *)
LEMMA NewestIsAhead ==
  ASSUME StreamTypes, HeldOK, NEW q \in Seq(Nat), NEW x \in Nat, pending' = Append(q, x), x # EndMark => x = heard + 1,
         \A i \in 1 .. Len(q) : q[i] # EndMark => held < q[i] /\ \A p \in said : p < q[i],
         UNCHANGED <<said, held>>
  PROVE  Ahead'
<1>1. PICK L \in Nat : L = Len(q)
  BY LenProperties
<1>2. Len(pending') = L + 1 /\ pending'[L + 1] = x /\ \A i \in 1 .. L : pending'[i] = q[i]
  BY <1>1, AppendProperties
<1>3. heard \in Nat /\ held \in Nat /\ held <= heard /\ said \subseteq 1 .. heard
  BY DEF StreamTypes, HeldOK
<1>4. ASSUME NEW i \in 1 .. (L + 1), pending'[i] # EndMark
      PROVE  held < pending'[i] /\ \A p \in said : p < pending'[i]
  <2>1. CASE i \in 1 .. L
    BY <1>1, <1>2, <1>4, <2>1
  <2>2. CASE i = L + 1
    <3>1. pending'[i] = heard + 1
      BY <1>2, <1>4, <2>2
    <3>2. \A p \in said : p \in 1 .. heard
      BY <1>3
    <3> QED BY <1>3, <3>1, <3>2
  <2> QED BY <1>1, <2>1, <2>2
<1> QED BY <1>2, <1>4 DEF Ahead

LEMMA ReaderSteps ==
  ASSUME StreamIInv, ReadChunk \/ SourceEnds \/ PutEnd PROVE StreamIInv'
<1>1. /\ StreamTypes /\ mode = "chunks" /\ AggregatorRests /\ held' = held /\ infer' = infer
      /\ QueueOK /\ HeldOK /\ Ahead /\ reader # "ended"
  BY DEF StreamIInv, ChunksInOrder, ReadChunk, SourceEnds, PutEnd, Chunks, AggregatorRests, aggregator
<1>2. /\ heard \in Nat /\ pending \in Seq(Nat) /\ held \in Nat
      /\ infer \in {"waiting", "busy", "telling", "paused", "ended"}
      /\ said \subseteq 1 .. heard
  BY <1>1 DEF StreamTypes
<1>3. PICK L \in Nat : L = Len(pending) /\ L <= QueueSize /\ \A i \in 1 .. L : pending[i] \in Nat
  BY <1>1, <1>2, LenProperties, ElementOfSeq DEF QueueOK
<1>4. /\ \A i, j \in 1 .. L : i < j /\ pending[j] # EndMark => pending[i] \in 1 .. (pending[j] - 1)
      /\ \A i \in 1 .. L : pending[i] <= heard /\ pending[i] # EndMark
      /\ \A i \in 1 .. L : pending[i] # EndMark => held < pending[i] /\ \A p \in said : p < pending[i]
  BY <1>1, <1>3 DEF QueueOK, Ahead
<1>5. ASSUME heard' \in Nat, heard <= heard' PROVE HeldOK'
  BY <1>1, <1>2, <1>5 DEF HeldOK, AggregatorRests
<1>6. ASSUME NEW q \in Seq(Nat), Len(q) < QueueSize, NEW x \in Nat, pending' = Append(q, x), heard' \in Nat, heard <= heard',
             \A i, j \in 1 .. Len(q) : i < j /\ q[j] # EndMark => q[i] \in 1 .. (q[j] - 1),
             \A i \in 1 .. Len(q) : q[i] # EndMark /\ q[i] <= heard /\ held < q[i] /\ \A p \in said : p < q[i],
             x = EndMark => reader' = "ended", x # EndMark => x = heard + 1 /\ heard' = heard + 1,
             reader' \in {"reading", "closing", "ended"}
      PROVE  StreamIInv'
  <2>1. pending' \in Seq(Nat) /\ QueueOK'
    BY <1>1, <1>6, QueueLonger
  <2>2. Ahead'
    BY <1>1, <1>6, NewestIsAhead DEF AggregatorRests
  <2> QED BY <1>1, <1>2, <1>5, <1>6, <2>1, <2>2, QueueStep
<1>7. CASE ReadChunk
  <2>1. /\ heard' = heard + 1 /\ reader' = reader /\ reader = "reading"
        /\ pending' = Append(IF L = QueueSize THEN Tail(pending) ELSE pending, heard + 1)
    BY <1>3, <1>7 DEF ReadChunk, Queued
  <2>2. heard + 1 \in Nat /\ heard <= heard + 1 /\ heard + 1 # EndMark
    BY <1>2 DEF EndMark
  <2>3. CASE L = QueueSize
    <3>1. /\ Tail(pending) \in Seq(Nat) /\ Len(Tail(pending)) = 1
          /\ Tail(pending)[1] = pending[2]
      <4>1. Len(pending) = 2
        BY <1>3, <2>3 DEF QueueSize
      <4> QED BY <1>2, <4>1, TailOfTwo
    <3>2. pending[2] \in Nat /\ pending[2] # EndMark /\ pending[2] <= heard /\ held < pending[2] /\ \A p \in said : p < pending[2]
      BY <1>3, <1>4, <2>3 DEF QueueSize
    <3> DEFINE q == Tail(pending)
    <3>3. q \in Seq(Nat) /\ Len(q) = 1 /\ q[1] = pending[2] /\ pending' = Append(q, heard + 1)
      BY <2>1, <2>3, <3>1
    <3> HIDE DEF q
    <3>4. Len(q) < QueueSize /\ \A i, j \in 1 .. Len(q) : ~(i < j)
      BY <3>3 DEF QueueSize
    <3>5. \A i \in 1 .. Len(q) : q[i] # EndMark /\ q[i] <= heard /\ held < q[i] /\ \A p \in said : p < q[i]
      BY <3>2, <3>3
    <3> QED BY <1>6, <2>1, <2>2, <3>3, <3>4, <3>5
  <2>4. CASE L # QueueSize
    <3>1. Len(pending) < QueueSize /\ pending' = Append(pending, heard + 1)
      BY <1>3, <2>1, <2>4 DEF QueueSize
    <3> QED BY <1>2, <1>3, <1>4, <1>6, <2>1, <2>2, <3>1
  <2> QED BY <2>3, <2>4
<1>8. CASE SourceEnds
  <2>1. reader' = "closing" /\ reader = "reading"
    BY <1>8 DEF SourceEnds
  <2>2. ASSUME pending' = pending, heard' \in Nat, heard <= heard' PROVE StreamIInv'
    <3>1. QueueOK'
      BY <1>2, <1>3, <1>4, <2>2 DEF QueueOK
    <3>2. Ahead'
      BY <1>1, <2>2 DEF Ahead, AggregatorRests
    <3> QED BY <1>1, <1>2, <1>5, <2>1, <2>2, <3>1, <3>2, QueueStep
  <2>3. heard + 1 \in Nat /\ heard <= heard + 1 /\ heard + 1 # EndMark /\ heard <= heard
    BY <1>2 DEF EndMark
  <2>4. CASE UNCHANGED <<heard, pending>>
    BY <1>2, <2>2, <2>3, <2>4
  <2>5. CASE heard' = heard + 1 /\ pending' = IF Len(pending) = QueueSize THEN pending ELSE Append(pending, heard + 1)
    <3>1. CASE Len(pending) = QueueSize
      BY <2>2, <2>3, <2>5, <3>1
    <3>2. CASE Len(pending) # QueueSize
      <4>1. Len(pending) < QueueSize /\ pending' = Append(pending, heard + 1)
        BY <1>3, <2>5, <3>2 DEF QueueSize
      <4> QED BY <1>2, <1>3, <1>4, <1>6, <2>1, <2>3, <2>5, <4>1
    <3> QED BY <3>1, <3>2
  <2> QED BY <1>8, <2>4, <2>5 DEF SourceEnds
<1>9. CASE PutEnd
  <2>1. reader' = "ended" /\ pending' = Append(pending, EndMark) /\ Len(pending) < QueueSize /\ heard' = heard
    BY <1>9 DEF PutEnd
  <2>2. EndMark \in Nat /\ heard <= heard
    BY <1>2 DEF EndMark
  <2> QED BY <1>2, <1>3, <1>4, <1>6, <2>1, <2>2
<1> QED BY <1>7, <1>8, <1>9

LEMMA InferenceSteps ==
  ASSUME StreamIInv, Take \/ Resume \/ Transcribe \/ StreamReturns PROVE StreamIInv'
<1>1. /\ StreamTypes /\ mode = "chunks" /\ AggregatorRests /\ heard' = heard /\ reader' = reader
      /\ QueueOK /\ HeldOK /\ Ahead
  BY DEF StreamIInv, ChunksInOrder, Take, Resume, Transcribe, StreamReturns, Chunks, AggregatorRests, aggregator
<1>2. /\ heard \in Nat /\ pending \in Seq(Nat) /\ held \in Nat /\ heard <= heard
      /\ infer \in {"waiting", "busy", "telling", "paused", "ended"} /\ reader \in {"reading", "closing", "ended"}
      /\ said \subseteq 1 .. heard
  BY <1>1 DEF StreamTypes
<1>3. CASE Resume \/ Transcribe \/ StreamReturns
  <2>1. pending' = pending /\ held' = held /\ infer' \in {"waiting", "busy", "telling", "paused", "ended"}
    BY <1>2, <1>3 DEF Resume, Transcribe, StreamReturns
  <2>2. QueueOK' /\ Ahead'
    BY <1>1, <2>1 DEF QueueOK, Ahead, AggregatorRests
  <2>3. HeldOK'
    BY <1>1, <1>3, <2>1 DEF HeldOK, AggregatorRests, Resume, Transcribe, StreamReturns
  <2> QED BY <1>1, <1>2, <2>1, <2>2, <2>3, QueueStep
<1>4. CASE Take
  <2>0. PICK L \in Nat : L = Len(pending) /\ \A i \in 1 .. L : pending[i] \in Nat
    BY <1>2, LenProperties, ElementOfSeq
  <2>1. infer = "waiting" /\ pending # <<>> /\ L >= 1 /\ held = EndMark
    BY <1>1, <1>2, <1>4, <2>0, EmptySeq DEF Take, HeldOK
  <2>2. /\ Head(pending) = pending[1] /\ Tail(pending) \in Seq(Nat) /\ Len(Tail(pending)) = L - 1
        /\ \A i \in 1 .. L - 1 : Tail(pending)[i] = pending[i + 1]
    BY <1>2, <2>0, <2>1, HeadTailProperties
  <2>3. ASSUME pending' = Tail(pending)
        PROVE  /\ pending' \in Seq(Nat) /\ QueueOK'
               /\ \A i \in 1 .. Len(pending') : pending'[i] # EndMark => held < pending'[i] /\ \A p \in said : p < pending'[i]
    <3>1. 1 \in 0 .. L
      BY <2>1
    <3> QED BY <1>1, <2>0, <2>2, <2>3, <3>1, QueueShorter
  <2>4. CASE pending[1] = EndMark \/ Overloaded
    <3>1. held' = held /\ infer' \in {"ended", "paused"} /\ pending' \in {Tail(pending), <<>>}
      BY <1>4, <2>2, <2>4 DEF Take
    <3>2. CASE pending' = Tail(pending)
      <4>1. Ahead' /\ QueueOK' /\ pending' \in Seq(Nat)
        BY <1>1, <2>3, <3>1, <3>2 DEF Ahead, AggregatorRests
      <4>2. HeldOK'
        BY <1>1, <2>1, <3>1 DEF HeldOK, AggregatorRests
      <4> QED BY <1>1, <1>2, <3>1, <4>1, <4>2, QueueStep
    <3>3. CASE pending' = <<>>
      <4>1. Ahead' /\ QueueOK' /\ pending' \in Seq(Nat)
        BY <3>3 DEF Ahead, QueueOK, QueueSize
      <4>2. HeldOK'
        BY <1>1, <2>1, <3>1 DEF HeldOK, AggregatorRests
      <4> QED BY <1>1, <1>2, <3>1, <4>1, <4>2, QueueStep
    <3> QED BY <3>1, <3>2, <3>3
  <2>5. CASE pending[1] # EndMark /\ ~Overloaded
    <3>1. infer' = "busy" /\ pending' = Tail(pending) /\ held' = pending[1]
      BY <1>4, <2>2, <2>5 DEF Take
    <3>2. pending[1] \in Nat /\ pending[1] <= heard /\ \A p \in said : p < pending[1]
      BY <1>1, <2>0, <2>1, <2>5 DEF QueueOK, Ahead
    <3>3. HeldOK'
      BY <1>1, <2>5, <3>1, <3>2 DEF HeldOK, AggregatorRests
    <3>4. pending' \in Seq(Nat) /\ QueueOK' /\ Len(pending') = L - 1
      BY <2>2, <2>3, <3>1
    <3>5. ASSUME NEW i \in 1 .. L - 1, pending'[i] # EndMark
          PROVE  held' < pending'[i] /\ \A p \in said : p < pending'[i]
      <4>1. pending'[i] = pending[i + 1] /\ 1 < i + 1 /\ i + 1 \in 1 .. L /\ 1 \in 1 .. L
        BY <2>1, <2>2, <3>1
      <4>2. pending[1] \in 1 .. (pending[i + 1] - 1) /\ pending[i + 1] \in Nat
        BY <1>1, <2>0, <3>5, <4>1 DEF QueueOK
      <4>3. \A p \in said : p < pending'[i]
        BY <2>3, <3>1, <3>4, <3>5
      <4> QED BY <2>0, <3>1, <4>1, <4>2, <4>3
    <3>6. Ahead'
      BY <1>1, <3>4, <3>5 DEF Ahead, AggregatorRests
    <3> QED BY <1>1, <1>2, <3>1, <3>2, <3>3, <3>4, <3>6, QueueStep
  <2> QED BY <2>4, <2>5
<1> QED BY <1>3, <1>4

(* The chunk being transcribed is done with.                               *)
LEMMA ChunkDone ==
  ASSUME StreamTypes, ChunksInOrder, infer \in {"busy", "telling"}, UNCHANGED <<heard, pending, reader>>,
         held' = EndMark, infer' \in {"waiting", "ended"}, said' \in {said, said \cup {held}}
  PROVE  /\ QueueOK' /\ HeldOK' /\ Ahead' /\ said' \subseteq 1 .. heard /\ said \subseteq said'
         /\ held \in Nat /\ held \notin said
<1>1. heard \in Nat /\ held \in Nat /\ held # EndMark /\ held <= heard /\ said \subseteq 1 .. heard
  BY DEF StreamTypes, ChunksInOrder, HeldOK
<1>2. held \in 1 .. heard
  BY <1>1 DEF EndMark
<1>3. said' \subseteq 1 .. heard /\ said \subseteq said'
  BY <1>1, <1>2
<1>4. QueueOK'
  BY DEF ChunksInOrder, QueueOK
<1>5. HeldOK'
  BY <1>1 DEF HeldOK, EndMark
<1>6. held \notin said
  <2>1. \A p \in said : p < held
    BY <1>1 DEF ChunksInOrder, HeldOK
  <2> QED BY <1>1, <2>1
<1>7. Ahead'
  <2> SUFFICES ASSUME NEW i \in 1 .. Len(pending), pending[i] # EndMark
               PROVE  EndMark < pending[i] /\ \A p \in said' : p < pending[i]
    BY DEF Ahead
  <2>1. held < pending[i] /\ \A p \in said : p < pending[i]
    BY DEF ChunksInOrder, Ahead
  <2>2. pending[i] \in Nat
    BY LenProperties, ElementOfSeq DEF StreamTypes
  <2>3. EndMark < pending[i]
    BY <2>2 DEF EndMark
  <2> QED BY <2>1, <2>3
<1> QED BY <1>1, <1>3, <1>4, <1>5, <1>6, <1>7

LEMMA TellKeeps == ASSUME StreamIInv, Tell PROVE StreamIInv'
<1>1. /\ StreamTypes /\ mode = "chunks" /\ ChunksInOrder /\ infer = "telling"
      /\ infer' = "waiting" /\ held' = EndMark
      /\ UNCHANGED <<mode, heard, pending, reader, from, cut>>
  BY DEF StreamIInv, Tell, Chunks
<1>2. said' \in {said, said \cup {held}}
  BY DEF Tell
<1>3. /\ QueueOK' /\ HeldOK' /\ Ahead' /\ said' \subseteq 1 .. heard /\ said \subseteq said'
      /\ held \in Nat /\ held \notin said
  BY <1>1, <1>2, ChunkDone
<1>4. /\ \A f \in final : f.text \cap current = {} /\ f.text \subseteq said
      /\ \A f, g \in final : f # g => f.text \cap g.text = {}
      /\ \A f, g \in final : f.id = g.id => f = g
      /\ said \subseteq FinalText \cup current \cup cut /\ current \subseteq said /\ said \subseteq Nat
  <2>1. said \subseteq Nat
    BY <1>1 DEF StreamTypes
  <2> QED BY <1>1, <2>1 DEF StreamIInv, StreamTypes, ChunksInOrder, Apart, NothingUnderstoodIsLost
<1>5. PICK words \in SUBSET said' :
        /\ final' = Finals(words) /\ current' \subseteq said' /\ current' \cap words = {}
        /\ \A f \in final : f.text \cap (words \cup current') = {}
        /\ segment' \in {segment, segment + 1} /\ (words # {} => segment' = segment + 1)
        /\ said' \subseteq FinalText \cup cut \cup words \cup current'
  <2>1. CASE HandleChunk(held) /\ said' = said \cup {held}
    <3> DEFINE heap == current \cup {held}
    <3>1. PICK sentence \in SUBSET heap :
            /\ final' = Finals(sentence)
            /\ current' = heap \ sentence
            /\ segment' = IF sentence = {} THEN segment ELSE segment + 1
      BY <2>1 DEF HandleChunk, Remainder, NextSegment
    <3>2. heap \subseteq said' /\ \A f \in final : f.text \cap heap = {}
      BY <1>3, <1>4, <2>1
    <3>3. said' \subseteq FinalText \cup cut \cup heap
      BY <1>4, <2>1
    <3> HIDE DEF heap
    <3>4. sentence \in SUBSET said'
      BY <3>2
    <3> QED BY <3>1, <3>2, <3>3, <3>4
  <2>2. CASE HandleClear /\ said' = said
    <3>1. /\ final' = Finals(current) /\ current' = {}
          /\ segment' \in {segment, segment + 1} /\ (current # {} => segment' = segment + 1)
      BY <2>2 DEF HandleClear, HandleFinal, NextSegment
    <3>2. current \in SUBSET said'
      BY <1>4, <2>2
    <3> QED BY <1>4, <2>2, <3>1, <3>2
  <2> QED BY <2>1, <2>2 DEF Tell
<1>6. /\ FinalText' = FinalText \cup words /\ segment' \in Nat
      /\ \A f \in final' : f.id \in Nat /\ f.id < segment'
      /\ \A f, g \in final' : f.id = g.id => f = g
      /\ \A f \in final' : f \in final \/ (f.text = words /\ words # {})
  <2>1. words \subseteq Nat
    BY <1>1, <1>3, <1>5
  <2> QED BY <1>1, <1>4, <1>5, <2>1, FinalsShape
<1>7. \A f \in final' : f.text \cap current' = {} /\ f.text \subseteq said'
  BY <1>3, <1>4, <1>5, <1>6
<1>8. \A f, g \in final' : f # g => f.text \cap g.text = {}
  <2> SUFFICES ASSUME NEW f \in final', NEW g \in final', f # g PROVE f.text \cap g.text = {}
    OBVIOUS
  <2>1. CASE f \in final /\ g \in final
    BY <1>4, <2>1
  <2>2. CASE f \in final /\ g \notin final
    BY <1>5, <1>6, <2>2
  <2>3. CASE f \notin final /\ g \in final
    BY <1>5, <1>6, <2>3
  <2>4. CASE f \notin final /\ g \notin final
    <3>1. final' \subseteq final \cup {[id |-> segment, text |-> words]}
      BY <1>5 DEF Finals
    <3> QED BY <2>4, <3>1
  <2> QED BY <2>1, <2>2, <2>3, <2>4
<1>9. StreamTypes'
  BY <1>1, <1>3, <1>5, <1>6, <1>7 DEF StreamTypes, EndMark
<1>10. NothingUnderstoodIsLost'
  BY <1>1, <1>5, <1>6 DEF NothingUnderstoodIsLost
<1>11. ChunksInOrder'
  BY <1>3, <1>7, <1>8 DEF ChunksInOrder, Apart
<1> QED BY <1>1, <1>6, <1>9, <1>10, <1>11 DEF StreamIInv

LEMMA ChunkFailsKeeps == ASSUME StreamIInv, ChunkFails PROVE StreamIInv'
<1>1. /\ StreamTypes /\ mode = "chunks" /\ ChunksInOrder /\ infer \in {"busy", "telling"}
      /\ infer' \in {"waiting", "ended"} /\ held' = EndMark
      /\ UNCHANGED <<mode, heard, pending, reader, from, cut, segment, final>>
      /\ \/ UNCHANGED <<said, current>>
         \/ said' = said \cup {held} /\ current' = current \cup {held}
  BY DEF StreamIInv, ChunkFails, Chunks
<1>2. said' \in {said, said \cup {held}}
  BY <1>1
<1>3. /\ QueueOK' /\ HeldOK' /\ Ahead' /\ said' \subseteq 1 .. heard /\ said \subseteq said'
      /\ held \in Nat /\ held \notin said
  BY <1>1, <1>2, ChunkDone
<1>4. /\ \A f \in final : f.text \cap current = {} /\ f.text \subseteq said /\ f.id \in Nat /\ f.id < segment
      /\ \A f, g \in final : f # g => f.text \cap g.text = {}
      /\ said \subseteq FinalText \cup current \cup cut /\ current \subseteq said
  BY <1>1 DEF StreamIInv, StreamTypes, ChunksInOrder, Apart, NothingUnderstoodIsLost
<1>5. \A f \in final' : f.text \cap current' = {} /\ f.text \subseteq said' /\ f.id \in Nat /\ f.id < segment'
  BY <1>1, <1>3, <1>4
<1>6. current' \subseteq said'
  BY <1>1, <1>4
<1>7. StreamTypes'
  BY <1>1, <1>3, <1>5, <1>6 DEF StreamTypes, EndMark
<1>8. FinalText' = FinalText
  BY <1>1 DEF FinalText
<1>9. NothingUnderstoodIsLost'
  BY <1>1, <1>4, <1>8 DEF NothingUnderstoodIsLost
<1>10. ChunksInOrder'
  BY <1>1, <1>3, <1>4, <1>5 DEF ChunksInOrder, Apart
<1> QED BY <1>1, <1>7, <1>9, <1>10 DEF StreamIInv

(* A streaming provider: what of its utterance is not in the aggregator's  *)
(* is in a caption already.                                                *)
LEMMA StreamingSteps ==
  ASSUME StreamIInv, Speaks \/ FinishesUtterance \/ FallsSilent \/ Reconnects PROVE StreamIInv'
<1>1. /\ StreamTypes /\ mode = "streaming" /\ mode' = mode /\ UtteranceKept
      /\ UNCHANGED <<pending, reader, infer, held>>
  BY DEF StreamIInv, Speaks, FinishesUtterance, FallsSilent, Reconnects, audio
<1>2. /\ heard \in Nat /\ from \in 1 .. (heard + 1) /\ said = 1 .. heard /\ current \subseteq (from .. heard) \cup cut
      /\ current \subseteq said /\ cut \subseteq 1 .. heard /\ (\A f \in final : f.text \subseteq said)
      /\ \A f, g \in final : f.id = g.id => f = g
      /\ 1 .. heard \subseteq FinalText \cup current \cup cut
  BY <1>1 DEF StreamTypes, UtteranceKept, StreamIInv, NothingUnderstoodIsLost
<1>3. from .. heard \subseteq 1 .. heard /\ 1 .. (heard + 1) = (1 .. heard) \cup {heard + 1}
      /\ from .. (heard + 1) = (from .. heard) \cup {heard + 1}
  BY <1>2
<1>4. ASSUME NEW words \in SUBSET said', final' = Finals(words),
             segment' \in {segment, segment + 1}, words # {} => segment' = segment + 1,
             heard' \in {heard, heard + 1}, said' = 1 .. heard', from' \in 1 .. (heard' + 1),
             cut' \subseteq 1 .. heard', cut \subseteq cut',
             current' \subseteq said', current' \subseteq (from' .. heard') \cup cut',
             said' \subseteq FinalText \cup words \cup current' \cup cut'
      PROVE  StreamIInv'
  <2>1. words \subseteq Nat /\ said \subseteq said' /\ heard' \in Nat
    BY <1>2, <1>3, <1>4
  <2>2. /\ FinalText' = FinalText \cup words /\ segment' \in Nat
        /\ \A f \in final' : f.id \in Nat /\ f.id < segment'
        /\ \A f, g \in final' : f.id = g.id => f = g
        /\ \A f \in final' : f \in final \/ (f.text = words /\ words # {})
    BY <1>1, <1>2, <1>4, <2>1, FinalsShape
  <2>3. \A f \in final' : f.text \subseteq said'
    BY <1>2, <1>4, <2>1, <2>2
  <2>4. StreamTypes'
    BY <1>1, <1>4, <2>1, <2>2, <2>3 DEF StreamTypes
  <2>5. NothingUnderstoodIsLost'
    BY <1>4, <2>2 DEF NothingUnderstoodIsLost
  <2>6. UtteranceKept'
    BY <1>1, <1>4 DEF UtteranceKept
  <2> QED BY <1>1, <2>2, <2>4, <2>5, <2>6 DEF StreamIInv
<1>5. Finals({}) = final
  BY DEF Finals
<1>6. CASE Speaks
  <2>1. /\ heard' = heard + 1 /\ said' = 1 .. heard' /\ from' = from /\ cut' = cut
        /\ HandlePartial(from .. (heard + 1))
    BY <1>2, <1>3, <1>6 DEF Speaks
  <2>2. from' \in 1 .. (heard' + 1) /\ cut' \subseteq 1 .. heard' /\ heard + 1 \in from .. (heard + 1)
    BY <1>2, <1>3, <2>1
  <2> DEFINE u == from .. (heard + 1)
  <2>3. u \subseteq said' /\ u # {} /\ said' \subseteq FinalText \cup u \cup cut'
    BY <1>2, <1>3, <2>1, <2>2
  <2>4. CASE HandleFinal(u)
    <3>1. final' = Finals(u) /\ current' = {} /\ segment' = segment + 1
      BY <2>3, <2>4 DEF HandleFinal, NextSegment
    <3> HIDE DEF u
    <3> QED BY <1>4, <2>1, <2>2, <2>3, <3>1
  <2>5. CASE current' = u /\ UNCHANGED <<segment, final>>
    <3>1. {} \in SUBSET said' /\ current' \subseteq from' .. heard'
      BY <2>1, <2>5
    <3> HIDE DEF u
    <3> QED BY <1>4, <1>5, <2>1, <2>2, <2>3, <2>5, <3>1
  <2> QED BY <2>1, <2>4, <2>5 DEF HandlePartial
<1>7. ASSUME heard' = heard, said' = said, from' = heard + 1 PROVE from' \in 1 .. (heard' + 1) /\ said' = 1 .. heard'
  BY <1>2, <1>7
<1>8. CASE FinishesUtterance
  <2>1. /\ heard' = heard /\ said' = said /\ from' = heard + 1 /\ cut' = cut
        /\ Utterance # {} /\ HandleFinal(Utterance)
    BY <1>8 DEF FinishesUtterance
  <2>2. final' = Finals(Utterance) /\ current' = {} /\ segment' = segment + 1 /\ Utterance \in SUBSET said'
    BY <1>2, <1>3, <2>1 DEF HandleFinal, NextSegment, Utterance
  <2>3. said' \subseteq FinalText \cup Utterance \cup cut'
    BY <1>2, <2>1 DEF Utterance
  <2> QED BY <1>2, <1>4, <1>7, <2>1, <2>2, <2>3
<1>9. CASE FallsSilent
  <2>1. /\ heard' = heard /\ said' = said /\ from' = heard + 1 /\ cut' = cut /\ HandleFinal({})
    BY <1>9 DEF FallsSilent, HandleClear
  <2>2. /\ final' = Finals(current) /\ current' = {} /\ current \in SUBSET said'
        /\ segment' \in {segment, segment + 1} /\ (current # {} => segment' = segment + 1)
    BY <1>2, <2>1 DEF HandleFinal, NextSegment
  <2>3. said' \subseteq FinalText \cup current \cup cut'
    BY <1>2, <2>1
  <2> QED BY <1>2, <1>4, <1>7, <2>1, <2>2, <2>3
<1>10. CASE Reconnects
  <2>1. /\ heard' = heard /\ said' = said /\ from' = heard + 1 /\ cut' = cut \cup (from .. heard)
        /\ UNCHANGED <<current, segment, final>>
    BY <1>10 DEF Reconnects, aggregator, Utterance
  <2>2. cut' \subseteq 1 .. heard' /\ current' \subseteq cut' /\ {} \in SUBSET said' /\ cut \subseteq cut'
    BY <1>2, <1>3, <2>1
  <2>3. said' \subseteq FinalText \cup {} \cup current' \cup cut'
    BY <1>2, <2>1
  <2> QED BY <1>2, <1>4, <1>5, <1>7, <2>1, <2>2, <2>3
<1> QED BY <1>6, <1>8, <1>9, <1>10

LEMMA StreamStep == StreamIInv /\ [StreamNext]_streamVars => StreamIInv'
<1> SUFFICES ASSUME StreamIInv, [StreamNext]_streamVars PROVE StreamIInv'
  OBVIOUS
<1>1. CASE UNCHANGED streamVars
  BY <1>1 DEF streamVars, StreamIInv, StreamTypes, NothingUnderstoodIsLost, FinalText, ChunksInOrder, QueueOK, HeldOK,
              Ahead, Apart, UtteranceKept
<1> QED BY <1>1, ReaderSteps, InferenceSteps, TellKeeps, ChunkFailsKeeps, StreamingSteps DEF StreamNext

(* StreamInv: however the queue of two chunks overflows, pauses, fails or  *)
(* ends, and whatever a streaming provider repeats or interrupts, handle_* *)
(* of aggregator.py lose no understood piece, use no segment id twice and  *)
(* caption no chunk twice.                                                 *)
THEOREM StreamHolds == StreamSpec => []StreamInv
BY StreamStarts, StreamStep, StreamSuffices, PTL DEF StreamSpec

-----------------------------------------------------------------------------
(* The translations of one language and the page that plays them:          *)
(* SpeechInv, for any number of segments and any limits.                   *)

JobState == {"none", "saving", "closed", "queued", "inferring", "voicing"}
Bundle == [segment : Segment, content : {"text", "audio", "mute"}]
Page == [store : [Segment -> {"none", "text", "audio", "mute"}], expected : Nat, reading : Nat,
         timer : {"none", "missing", "audio"}, again : BOOLEAN, spoken : Seq(Nat)]

WorkerOK ==
  /\ published \in Nat /\ job \in [Segment -> JobState] /\ depth \in Nat
  /\ \A s \in Segment : job[s] # "none" => s <= published
  /\ bundles \in Seq(Bundle) /\ \A i \in 1 .. Len(bundles) : bundles[i].segment <= published
  /\ depth = Cardinality(With("queued")) + Cardinality(With("inferring"))
  /\ depth <= MaxQueued /\ Cardinality(With("inferring")) <= Slots
  /\ captions \in Nat /\ captions <= published

(* What is stored is still to be played, what was played is over, but for  *)
(* the segment that is being read; the timer waits for the one it is due   *)
(* to wait for.                                                            *)
Playable(p) ==
  /\ p \in Page
  /\ \A s \in Stored(p) : p.expected <= s /\ p.expected # NoSegment /\ s <= published
  /\ \A i, j \in 1 .. Len(p.spoken) : i < j => p.spoken[i] < p.spoken[j]
  /\ \A i \in 1 .. Len(p.spoken) : p.spoken[i] <= p.expected /\ (p.reading = NoSegment => p.spoken[i] < p.expected)
  /\ p.reading # NoSegment => p.timer = "none"

TimerDue(p) == p.timer = "missing" => p.expected \notin Stored(p)

SpeechIInv == WorkerOK /\ Playable(page) /\ TimerDue(page)

LEMMA SpeechSuffices == SpeechIInv => SpeechInv
<1> SUFFICES ASSUME SpeechIInv PROVE SpeechInv
  OBVIOUS
<1>1. SpeechTypeOK
  BY DEF SpeechIInv, WorkerOK, Playable, SpeechTypeOK, Stored
<1>2. page.spoken \in Seq(Nat)
  BY DEF SpeechIInv, Playable, Page
<1>3. DOMAIN page.spoken = 1 .. Len(page.spoken)
  BY <1>2, LenProperties
<1>4. InOrder
  BY <1>3 DEF SpeechIInv, Playable, InOrder
<1> QED BY <1>1, <1>4 DEF SpeechInv

LEMMA SpeechStarts == TranslatedInit => SpeechIInv
<1> SUFFICES ASSUME TranslatedInit PROVE SpeechIInv
  OBVIOUS
<1>1. With("queued") = {} /\ With("inferring") = {} /\ Cardinality({}) = 0
  BY FS_EmptySet DEF TranslatedInit, With
<1>2. bundles = <<>> /\ Len(bundles) = 0 /\ <<>> \in Seq(Bundle)
  BY DEF TranslatedInit
<1>3. WorkerOK
  <2>1. job \in [Segment -> JobState] /\ \A s \in Segment : job[s] = "none"
    BY DEF TranslatedInit, JobState
  <2>2. published = 0 /\ depth = 0 /\ captions = 0
    BY DEF TranslatedInit
  <2>3. \A i \in 1 .. Len(bundles) : bundles[i].segment <= published
    BY <1>2
  <2>4. /\ depth = Cardinality(With("queued")) + Cardinality(With("inferring"))
        /\ depth <= MaxQueued /\ Cardinality(With("inferring")) <= Slots
    BY <1>1, <2>2, SpeechAssumption DEF Slots
  <2> QED BY <1>2, <2>1, <2>2, <2>3, <2>4 DEF WorkerOK
<1>4. page = [store |-> [s \in Segment |-> "none"], expected |-> NoSegment, reading |-> NoSegment,
              timer |-> "none", again |-> FALSE, spoken |-> <<>>]
  BY DEF TranslatedInit
<1>5. page \in Page /\ page.spoken = <<>> /\ page.timer = "none" /\ Stored(page) = {}
  BY <1>4 DEF Page, Stored, NoSegment
<1>6. Len(page.spoken) = 0
  BY <1>5
<1>7. Playable(page) /\ TimerDue(page)
  BY <1>5, <1>6 DEF Playable, TimerDue
<1> QED BY <1>3, <1>7 DEF SpeechIInv

LEMMA LeastOf == ASSUME NEW K, K \subseteq Nat, K # {} PROVE \E m \in K : \A j \in K : m <= j
<1> DEFINE R == OpToRel(<, Nat)
<1>1. \A x, y \in Nat : <<x, y>> \in R <=> x < y
  BY DEF OpToRel
<1>2. IsWellFoundedOn(R, Nat)
  BY NatLessThanWellFounded
<1> HIDE DEF R
<1>3. PICK m \in K : \A j \in K : <<j, m>> \notin R
  BY <1>2, WFMin
<1>4. ASSUME NEW j \in K PROVE m <= j
  <2>1. m \in Nat /\ j \in Nat /\ ~(j < m)
    BY <1>1, <1>3
  <2> QED BY <2>1
<1> QED BY <1>4

LEMMA MinOf == ASSUME NEW K, K \subseteq Nat, K # {} PROVE Min(K) \in K /\ \A j \in K : Min(K) <= j
BY LeastOf DEF Min

(* Segments move from state to state one at a time.                        *)
LEMMA CountMoves ==
  ASSUME job \in [Segment -> JobState], NEW s \in Segment, NEW to \in JobState, NEW x \in JobState,
         job' = [job EXCEPT ![s] = to]
  PROVE  /\ job' \in [Segment -> JobState]
         /\ Cardinality(With(x)) \in Nat /\ Cardinality(With(x)') \in Nat
         /\ job[s] = x /\ to # x => Cardinality(With(x)') = Cardinality(With(x)) - 1
         /\ job[s] # x /\ to = x => Cardinality(With(x)') = Cardinality(With(x)) + 1
         /\ job[s] # x /\ to # x => Cardinality(With(x)') = Cardinality(With(x))
<1>1. IsFiniteSet(Segment)
  BY FS_Interval, SpeechAssumption DEF Segment
<1>2. IsFiniteSet(With(x)) /\ Cardinality(With(x)) \in Nat
  BY <1>1, FS_Subset, FS_CardinalityType DEF With
<1>3. job' \in [Segment -> JobState] /\ job'[s] = to /\ \A r \in Segment \ {s} : job'[r] = job[r]
  OBVIOUS
<1>4. IsFiniteSet(With(x)') /\ Cardinality(With(x)') \in Nat
  BY <1>1, FS_Subset, FS_CardinalityType DEF With
<1>5. CASE job[s] = x /\ to # x
  <2>1. With(x)' = With(x) \ {s} /\ s \in With(x)
    BY <1>3, <1>5 DEF With
  <2> QED BY <1>2, <1>3, <1>4, <1>5, <2>1, FS_RemoveElement
<1>6. CASE job[s] # x /\ to = x
  <2>1. With(x)' = With(x) \cup {s} /\ s \notin With(x)
    BY <1>3, <1>6 DEF With
  <2> QED BY <1>2, <1>3, <1>4, <1>6, <2>1, FS_AddElement
<1>7. CASE job[s] # x /\ to # x
  <2>1. With(x)' = With(x)
    BY <1>3, <1>7 DEF With
  <2> QED BY <1>2, <1>3, <1>4, <1>7, <2>1
<1> QED BY <1>2, <1>3, <1>4, <1>5, <1>6, <1>7

LEMMA PageParts == ASSUME NEW p \in Page
  PROVE  /\ p.store \in [Segment -> {"none", "text", "audio", "mute"}] /\ p.expected \in Nat /\ p.reading \in Nat
         /\ p.timer \in {"none", "missing", "audio"} /\ p.again \in BOOLEAN /\ p.spoken \in Seq(Nat)
BY DEF Page

LEMMA OtherTimer ==
  ASSUME NEW p, Playable(p), NEW t \in {"none", "missing", "audio"}, p.reading = NoSegment \/ t = "none"
  PROVE  Playable([p EXCEPT !.timer = t]) /\ Stored([p EXCEPT !.timer = t]) = Stored(p)
<1> DEFINE r == [p EXCEPT !.timer = t]
<1>1. p \in Page
  BY DEF Playable
<1>2. /\ r \in Page /\ r.store = p.store /\ r.expected = p.expected /\ r.reading = p.reading
      /\ r.timer = t /\ r.spoken = p.spoken
  BY <1>1 DEF Page
<1> HIDE DEF r
<1>3. Stored(r) = Stored(p)
  BY <1>2 DEF Stored
<1>4. Playable(r)
  BY <1>2, <1>3 DEF Playable
<1> QED BY <1>3, <1>4 DEF r

LEMMA OtherAgain ==
  ASSUME NEW p, Playable(p), NEW b \in BOOLEAN
  PROVE  Playable([p EXCEPT !.again = b])
<1> DEFINE r == [p EXCEPT !.again = b]
<1>1. p \in Page
  BY DEF Playable
<1>2. /\ r \in Page /\ r.store = p.store /\ r.expected = p.expected /\ r.reading = p.reading
      /\ r.timer = p.timer /\ r.spoken = p.spoken
  BY <1>1 DEF Page
<1> HIDE DEF r
<1>3. Stored(r) = Stored(p)
  BY <1>2 DEF Stored
<1>4. Playable(r)
  BY <1>2, <1>3 DEF Playable
<1> QED BY <1>4 DEF r

(* The page may turn to any later segment before the first it has stored.  *)
LEMMA LaterExpected ==
  ASSUME NEW p, Playable(p), NEW e \in Nat, p.expected <= e, e # NoSegment, \A s \in Stored(p) : e <= s
  PROVE  Playable([p EXCEPT !.expected = e]) /\ Stored([p EXCEPT !.expected = e]) = Stored(p)
<1> DEFINE r == [p EXCEPT !.expected = e]
<1>1. p \in Page
  BY DEF Playable
<1>2. /\ r \in Page /\ r.store = p.store /\ r.expected = e /\ r.reading = p.reading
      /\ r.timer = p.timer /\ r.spoken = p.spoken
  BY <1>1 DEF Page
<1> HIDE DEF r
<1>3. Stored(r) = Stored(p)
  BY <1>2 DEF Stored
<1>4. \A i \in 1 .. Len(p.spoken) : p.spoken[i] \in Nat
  BY <1>1, PageParts, ElementOfSeq
<1>5. ASSUME NEW i \in 1 .. Len(p.spoken)
      PROVE  p.spoken[i] <= e /\ (p.reading = NoSegment => p.spoken[i] < e)
  <2>1. p.expected \in Nat /\ p.spoken[i] \in Nat
    BY <1>1, <1>4, PageParts
  <2>2. p.spoken[i] <= p.expected /\ (p.reading = NoSegment => p.spoken[i] < p.expected)
    BY DEF Playable
  <2> QED BY <2>1, <2>2
<1>6. Playable(r)
  BY <1>2, <1>3, <1>5 DEF Playable
<1> QED BY <1>3, <1>6 DEF r

LEMMA DeletedPlayable == ASSUME NEW p, Playable(p) PROVE Playable(Deleted(p)) /\ (p.timer = "none" => Deleted(p).timer = "none")
<1> DEFINE st == [p.store EXCEPT ![p.expected] = "none"]
           r1 == [p EXCEPT !.store = st]
           r2 == [r1 EXCEPT !.expected = p.expected + 1]
           r3 == [r2 EXCEPT !.reading = NoSegment]
<1>1. p \in Page
  BY DEF Playable
<1>2. st \in [Segment -> {"none", "text", "audio", "mute"}] /\ \A s \in Segment : st[s] # "none" => p.store[s] # "none" /\ s # p.expected
  BY <1>1, PageParts
<1> HIDE DEF st
<1>3. r1 \in Page /\ r1.store = st /\ r1.expected = p.expected /\ r1.timer = p.timer /\ r1.spoken = p.spoken
  BY <1>1, <1>2 DEF Page
<1> HIDE DEF r1
<1>4. r2 \in Page /\ r2.store = st /\ r2.expected = p.expected + 1 /\ r2.timer = p.timer /\ r2.spoken = p.spoken
  <2>1. p.expected + 1 \in Nat
    BY <1>1, PageParts
  <2> QED BY <1>3, <2>1 DEF Page
<1> HIDE DEF r2
<1>5. r3 \in Page /\ r3.store = st /\ r3.expected = p.expected + 1 /\ r3.timer = p.timer /\ r3.spoken = p.spoken
      /\ r3.reading = NoSegment
  BY <1>4 DEF Page, NoSegment
<1> HIDE DEF r3
<1>6. Deleted(p) = r3
  BY <1>1 DEF Deleted, r3, r2, r1, st, Page
<1>7. p.expected \in Nat /\ \A i \in 1 .. Len(p.spoken) : p.spoken[i] \in Nat
  BY <1>1, PageParts, ElementOfSeq
<1>8. \A s \in Stored(r3) : s \in Stored(p) /\ s # p.expected /\ s \in Nat
  BY <1>2, <1>5 DEF Stored, Segment
<1>9. \A s \in Stored(r3) : r3.expected <= s /\ r3.expected # NoSegment /\ s <= published
  BY <1>5, <1>7, <1>8 DEF Playable, NoSegment
<1>10. ASSUME NEW i \in 1 .. Len(p.spoken) PROVE p.spoken[i] < p.expected + 1
  <2>1. p.spoken[i] <= p.expected /\ p.spoken[i] \in Nat
    BY <1>7 DEF Playable
  <2> QED BY <1>7, <2>1
<1>11. \A i \in 1 .. Len(p.spoken) : p.spoken[i] <= p.expected + 1
  BY <1>7, <1>10
<1>12. Playable(r3)
  BY <1>5, <1>9, <1>10, <1>11 DEF Playable
<1> QED BY <1>5, <1>6, <1>12

(* The expected segment is played, ...                                     *)
LEMMA SpokenGrows ==
  ASSUME NEW p, Playable(p), p.reading = NoSegment, p.expected # NoSegment
  PROVE  /\ Spoken(p) \in Seq(Nat)
         /\ \A i, j \in 1 .. Len(Spoken(p)) : i < j => Spoken(p)[i] < Spoken(p)[j]
         /\ \A i \in 1 .. Len(Spoken(p)) : Spoken(p)[i] <= p.expected
<1> DEFINE q == p.spoken
           t == Spoken(p)
<1>1. q \in Seq(Nat) /\ p.expected \in Nat
  BY PageParts DEF Playable
<1>2. PICK L \in Nat : L = Len(q)
  BY <1>1, LenProperties
<1>3. t \in Seq(Nat) /\ Len(t) = L + 1 /\ t[L + 1] = p.expected /\ \A i \in 1 .. L : t[i] = q[i]
  BY <1>1, <1>2, AppendProperties DEF Spoken
<1>4. /\ \A i, j \in 1 .. L : i < j => q[i] < q[j]
      /\ \A i \in 1 .. L : q[i] < p.expected
  BY <1>2 DEF Playable
<1>5. \A i \in 1 .. L : q[i] \in Nat
  BY <1>1, <1>2, ElementOfSeq
<1> HIDE DEF q, t
<1>6. ASSUME NEW i \in 1 .. (L + 1), NEW j \in 1 .. (L + 1), i < j PROVE t[i] < t[j]
  <2>1. i \in 1 .. L
    BY <1>2, <1>6
  <2>2. CASE j \in 1 .. L
    BY <1>3, <1>4, <1>6, <2>1, <2>2
  <2>3. CASE j = L + 1
    BY <1>3, <1>4, <2>1, <2>3
  <2> QED BY <1>2, <2>2, <2>3
<1>7. ASSUME NEW i \in 1 .. (L + 1) PROVE t[i] <= p.expected
  <2>1. CASE i \in 1 .. L
    <3>1. t[i] = q[i] /\ q[i] < p.expected /\ q[i] \in Nat
      BY <1>3, <1>4, <1>5, <2>1
    <3> QED BY <1>1, <3>1
  <2>2. CASE i = L + 1
    BY <1>1, <1>3, <2>2
  <2> QED BY <1>2, <2>1, <2>2
<1>8. t \in Seq(Nat) /\ (\A i, j \in 1 .. Len(t) : i < j => t[i] < t[j]) /\ \A i \in 1 .. Len(t) : t[i] <= p.expected
  BY <1>3, <1>6, <1>7
<1> QED BY <1>8 DEF t

(* ... read while its delay runs, or heard.                                *)
LEMMA ReadingPlayable ==
  ASSUME NEW p, Playable(p), p.reading = NoSegment, p.expected \in Stored(p)
  PROVE  /\ Playable([p EXCEPT !.timer = "none", !.reading = p.expected, !.spoken = Spoken(p)])
         /\ [p EXCEPT !.timer = "none", !.reading = p.expected, !.spoken = Spoken(p)].timer = "none"
<1> DEFINE t == Spoken(p)
           r1 == [p EXCEPT !.timer = "none"]
           r2 == [r1 EXCEPT !.reading = p.expected]
           r3 == [r2 EXCEPT !.spoken = t]
<1>0. p \in Page
  BY DEF Playable
<1>1. p.expected # NoSegment /\ p.expected \in Nat
  BY <1>0, PageParts DEF Playable
<1>2. /\ t \in Seq(Nat) /\ \A i, j \in 1 .. Len(t) : i < j => t[i] < t[j]
      /\ \A i \in 1 .. Len(t) : t[i] <= p.expected
  BY <1>1, SpokenGrows
<1> HIDE DEF t
<1>3. r1 \in Page /\ r1.store = p.store /\ r1.expected = p.expected /\ r1.timer = "none"
  BY <1>0 DEF Page
<1> HIDE DEF r1
<1>4. r2 \in Page /\ r2.store = p.store /\ r2.expected = p.expected /\ r2.timer = "none" /\ r2.reading = p.expected
  BY <1>1, <1>3 DEF Page
<1> HIDE DEF r2
<1>5. r3 \in Page /\ r3.store = p.store /\ r3.expected = p.expected /\ r3.timer = "none" /\ r3.reading = p.expected
      /\ r3.spoken = t
  BY <1>2, <1>4 DEF Page
<1> HIDE DEF r3
<1>6. [p EXCEPT !.timer = "none", !.reading = p.expected, !.spoken = Spoken(p)] = r3
  BY <1>0 DEF r3, r2, r1, t, Page
<1>7. Stored(r3) = Stored(p)
  BY <1>5 DEF Stored
<1>8. Playable(r3)
  BY <1>1, <1>2, <1>5, <1>7 DEF Playable
<1> QED BY <1>5, <1>6, <1>8

LEMMA HeardPlayable ==
  ASSUME NEW p, Playable(p), p.reading = NoSegment, p.expected \in Stored(p)
  PROVE  /\ Playable([Deleted(p) EXCEPT !.timer = "none", !.again = TRUE, !.spoken = Spoken(p)])
         /\ [Deleted(p) EXCEPT !.timer = "none", !.again = TRUE, !.spoken = Spoken(p)].timer = "none"
<1> DEFINE t == Spoken(p)
           d == Deleted(p)
           r1 == [d EXCEPT !.timer = "none"]
           r2 == [r1 EXCEPT !.again = TRUE]
           r3 == [r2 EXCEPT !.spoken = t]
<1>0. p \in Page /\ Playable(d) /\ d \in Page
  BY DeletedPlayable DEF Playable
<1>1. p.expected # NoSegment /\ p.expected \in Nat
  BY <1>0, PageParts DEF Playable
<1>2. /\ t \in Seq(Nat) /\ \A i, j \in 1 .. Len(t) : i < j => t[i] < t[j]
      /\ \A i \in 1 .. Len(t) : t[i] <= p.expected
  BY <1>1, SpokenGrows
<1>3. d.expected = p.expected + 1
  BY <1>0 DEF Deleted, Page
<1> HIDE DEF t, d
<1>4. r1 \in Page /\ r1.store = d.store /\ r1.expected = d.expected /\ r1.timer = "none" /\ r1.reading = d.reading
  BY <1>0 DEF Page
<1> HIDE DEF r1
<1>5. r2 \in Page /\ r2.store = d.store /\ r2.expected = d.expected /\ r2.timer = "none" /\ r2.reading = d.reading
  BY <1>4 DEF Page
<1> HIDE DEF r2
<1>6. r3 \in Page /\ r3.store = d.store /\ r3.expected = d.expected /\ r3.timer = "none" /\ r3.reading = d.reading
      /\ r3.spoken = t
  BY <1>2, <1>5 DEF Page
<1> HIDE DEF r3
<1>7. [Deleted(p) EXCEPT !.timer = "none", !.again = TRUE, !.spoken = Spoken(p)] = r3
  BY <1>0 DEF r3, r2, r1, t, d, Page
<1>8. Stored(r3) = Stored(d)
  BY <1>6 DEF Stored
<1>9. ASSUME NEW i \in 1 .. Len(t) PROVE t[i] <= r3.expected /\ t[i] < r3.expected
  <2>1. t[i] \in Nat
    BY <1>2, ElementOfSeq
  <2>2. t[i] <= p.expected
    BY <1>2
  <2> QED BY <1>1, <1>3, <1>6, <2>1, <2>2
<1>10. Playable(r3)
  BY <1>0, <1>2, <1>6, <1>8, <1>9 DEF Playable
<1> QED BY <1>6, <1>7, <1>10

(* pumpSegmentQueue                                                        *)
LEMMA PumpPlayable == ASSUME NEW p, Playable(p) PROVE Playable(Pump(p)) /\ TimerDue(Pump(p))
<1>0. p \in Page
  BY DEF Playable
<1>1. CASE p.reading # NoSegment
  BY <1>1 DEF Pump, Playable, TimerDue
<1>2. CASE p.reading = NoSegment /\ p.expected \notin Stored(p)
  <2> DEFINE t == IF p.timer = "none" THEN "missing" ELSE p.timer
  <2>1. t \in {"none", "missing", "audio"}
    BY <1>0, PageParts
  <2>2. Pump(p) = [p EXCEPT !.timer = t]
    BY <1>2 DEF Pump
  <2>3. [p EXCEPT !.timer = t].expected = p.expected
    BY <1>0 DEF Page
  <2> HIDE DEF t
  <2>4. Playable([p EXCEPT !.timer = t]) /\ Stored([p EXCEPT !.timer = t]) = Stored(p)
    BY <1>2, <2>1, OtherTimer
  <2> QED BY <1>2, <2>2, <2>3, <2>4 DEF TimerDue
<1>3. CASE p.reading = NoSegment /\ p.expected \in Stored(p)
  <2>1. CASE ~voice \/ p.store[p.expected] = "mute"
    <3>1. Pump(p) = [p EXCEPT !.timer = "none", !.reading = p.expected, !.spoken = Spoken(p)]
      BY <1>3, <2>1 DEF Pump
    <3> QED BY <1>3, <3>1, ReadingPlayable DEF TimerDue
  <2>2. CASE ~(~voice \/ p.store[p.expected] = "mute") /\ p.store[p.expected] = "audio"
    <3>1. Pump(p) = [Deleted(p) EXCEPT !.timer = "none", !.again = TRUE, !.spoken = Spoken(p)]
      BY <1>3, <2>2 DEF Pump
    <3> QED BY <1>3, <3>1, HeardPlayable DEF TimerDue
  <2>3. CASE ~(~voice \/ p.store[p.expected] = "mute") /\ p.store[p.expected] # "audio"
    <3>1. Pump(p) = [p EXCEPT !.timer = "audio"] /\ [p EXCEPT !.timer = "audio"].timer = "audio"
      BY <1>0, <1>3, <2>3 DEF Pump, Page
    <3> QED BY <1>3, <3>1, OtherTimer DEF TimerDue
  <2> QED BY <2>1, <2>2, <2>3
<1> QED BY <1>1, <1>2, <1>3

LEMMA PageTurned ==
  ASSUME NEW q, Playable(q), TimerDue(q), page' = q, UNCHANGED Server
  PROVE  Playable(page)' /\ TimerDue(page)'
<1>1. published' = published
  BY DEF Server
<1>2. Stored(page)' = Stored(q)
  BY DEF Stored
<1> QED BY <1>1, <1>2 DEF Playable, TimerDue

LEMMA PageRests ==
  ASSUME SpeechIInv, page' = page, published' \in Nat, published <= published'
  PROVE  Playable(page)' /\ TimerDue(page)'
<1>1. Stored(page)' = Stored(page)
  BY DEF Stored
<1>2. \A s \in Stored(page) : s \in Nat /\ s <= published
  BY DEF SpeechIInv, Playable, Stored, Segment
<1>3. published \in Nat
  BY DEF SpeechIInv, WorkerOK
<1>4. \A s \in Stored(page) : s <= published'
  BY <1>2, <1>3
<1> QED BY <1>1, <1>4 DEF SpeechIInv, Playable, TimerDue

LEMMA PageSteps ==
  ASSUME SpeechIInv, PumpAgain \/ ReadingEnds \/ GivesUpMissing \/ GivesUpVoice
  PROVE  SpeechIInv'
<1>0. UNCHANGED Server /\ UNCHANGED <<bundles, captions>> /\ Playable(page) /\ TimerDue(page) /\ page \in Page
  BY DEF SpeechIInv, Playable, PumpAgain, ReadingEnds, GivesUpMissing, GivesUpVoice
<1>1. WorkerOK'
  BY <1>0 DEF Server, SpeechIInv, WorkerOK, With
<1>2. ASSUME NEW q, Playable(q), TimerDue(q), page' = q PROVE SpeechIInv'
  BY <1>0, <1>1, <1>2, PageTurned DEF SpeechIInv
<1>3. CASE PumpAgain
  BY <1>0, <1>2, <1>3, OtherAgain, PumpPlayable DEF PumpAgain
<1>4. CASE ReadingEnds
  BY <1>0, <1>2, <1>4, DeletedPlayable, PumpPlayable DEF ReadingEnds
<1>5. CASE GivesUpMissing
  <2> DEFINE later == {s \in Stored(page) : s > page.expected}
             idle == [page EXCEPT !.timer = "none"]
  <2>1. page.timer = "missing" /\ page' = IF later = {} THEN idle ELSE Pump([idle EXCEPT !.expected = Min(later)])
    BY <1>5 DEF GivesUpMissing, AfterWait
  <2>2. Playable(idle) /\ Stored(idle) = Stored(page)
    BY <1>0, OtherTimer
  <2>3. idle.timer = "none" /\ idle.expected = page.expected
    BY <1>0 DEF Page
  <2>4. CASE later = {}
    BY <1>2, <2>1, <2>2, <2>3, <2>4 DEF TimerDue
  <2>5. CASE later # {}
    <3>1. later \subseteq Nat /\ page.expected \in Nat
      BY <1>0, PageParts DEF Stored, Segment
    <3>2. Min(later) \in later /\ \A s \in later : Min(later) <= s
      BY <2>5, <3>1, MinOf
    <3>3. \A s \in Stored(page) : s \in later
      <4>1. page.expected \notin Stored(page)
        BY <1>0, <2>1 DEF TimerDue
      <4>2. \A s \in Stored(page) : page.expected <= s /\ s \in Nat
        BY <1>0 DEF Playable, Stored, Segment
      <4> QED BY <3>1, <4>1, <4>2
    <3>4. Min(later) \in Nat /\ page.expected <= Min(later) /\ Min(later) # NoSegment
      BY <3>1, <3>2 DEF Stored, Segment, NoSegment
    <3> HIDE DEF later, idle
    <3>5. Playable([idle EXCEPT !.expected = Min(later)])
      BY <2>2, <2>3, <3>2, <3>3, <3>4, LaterExpected
    <3> QED BY <1>2, <2>1, <2>5, <3>5, PumpPlayable
  <2> QED BY <2>4, <2>5
<1>6. CASE GivesUpVoice
  <2> DEFINE st == [page.store EXCEPT ![page.expected] = IF page.store[page.expected] = "none" THEN "none" ELSE "mute"]
             r1 == [page EXCEPT !.timer = "none"]
             r2 == [r1 EXCEPT !.store = st]
  <2>1. page' = Pump([page EXCEPT !.timer = "none",
                        !.store[page.expected] = IF page.store[page.expected] = "none" THEN page.store[page.expected] ELSE "mute"])
    BY <1>6 DEF GivesUpVoice, AfterWait
  <2>2. /\ st \in [Segment -> {"none", "text", "audio", "mute"}]
        /\ \A s \in Segment : st[s] # "none" <=> page.store[s] # "none"
    BY <1>0, PageParts
  <2>3. [page EXCEPT !.timer = "none",
           !.store[page.expected] = IF page.store[page.expected] = "none" THEN page.store[page.expected] ELSE "mute"]
        = [page EXCEPT !.timer = "none", !.store = st]
    <3>1. st = [page.store EXCEPT ![page.expected] = IF page.store[page.expected] = "none" THEN page.store[page.expected] ELSE "mute"]
      OBVIOUS
    <3> HIDE DEF st
    <3> QED BY <3>1
  <2> HIDE DEF st
  <2>4. Playable(r1) /\ r1 \in Page /\ Stored(r1) = Stored(page)
    BY <1>0, OtherTimer DEF Playable
  <2>5. [page EXCEPT !.timer = "none", !.store = st] = r2
    BY <1>0 DEF Page
  <2> HIDE DEF r1
  <2>6. /\ r2 \in Page /\ r2.store = st /\ r2.expected = r1.expected /\ r2.reading = r1.reading
        /\ r2.timer = r1.timer /\ r2.spoken = r1.spoken
    BY <2>2, <2>4 DEF Page
  <2> HIDE DEF r2
  <2>7. Stored(r2) = Stored(r1)
    BY <2>2, <2>4, <2>6 DEF Stored
  <2>8. Playable(r2)
    BY <2>4, <2>6, <2>7 DEF Playable
  <2>9. page' = Pump(r2)
    BY <2>1, <2>3, <2>5
  <2> QED BY <1>2, <2>8, <2>9, PumpPlayable
<1> QED BY <1>3, <1>4, <1>5, <1>6

LEMMA CaptionKeeps == ASSUME SpeechIInv, CaptionArrives PROVE SpeechIInv'
<1>0. /\ UNCHANGED Server /\ UNCHANGED bundles /\ Playable(page) /\ TimerDue(page) /\ page \in Page
      /\ captions' = captions + 1 /\ captions < published /\ captions \in Nat /\ published \in Nat
  BY DEF SpeechIInv, WorkerOK, Playable, CaptionArrives
<1>1. WorkerOK'
  BY <1>0 DEF Server, SpeechIInv, WorkerOK, With
<1>2. ASSUME NEW q, Playable(q), TimerDue(q), page' = q PROVE SpeechIInv'
  BY <1>0, <1>1, <1>2, PageTurned DEF SpeechIInv
<1>3. page' = [page EXCEPT !.expected = IF page.expected = NoSegment THEN captions + 1 ELSE page.expected]
  BY <1>0 DEF CaptionArrives
<1>4. CASE page.expected = NoSegment
  <2> DEFINE c == captions + 1
  <2>1. Stored(page) = {} /\ page.expected <= c /\ c \in Nat /\ c # NoSegment
    BY <1>0, <1>4 DEF Playable, NoSegment
  <2>2. page' = [page EXCEPT !.expected = c]
    BY <1>3, <1>4
  <2> HIDE DEF c
  <2>3. Playable([page EXCEPT !.expected = c]) /\ Stored([page EXCEPT !.expected = c]) = {}
    BY <1>0, <2>1, LaterExpected
  <2> QED BY <1>2, <2>2, <2>3 DEF TimerDue
<1>5. CASE page.expected # NoSegment
  <2>1. page' = page
    BY <1>0, <1>3, <1>5 DEF Page
  <2> QED BY <1>0, <1>2, <2>1
<1> QED BY <1>4, <1>5

(* A bundle that is late changes nothing; one that is not is kept, and a   *)
(* store with too many turns to its oldest segment.                        *)
LEMMA BundleKeeps == ASSUME SpeechIInv, BundleArrives PROVE SpeechIInv'
<1> DEFINE b == Head(bundles)
           aligned == [page EXCEPT !.expected = IF page.expected = NoSegment THEN b.segment ELSE page.expected]
           kept == [aligned EXCEPT !.store[b.segment] = b.content]
<1>0. /\ UNCHANGED Server /\ UNCHANGED captions /\ Playable(page) /\ TimerDue(page) /\ page \in Page
      /\ bundles # <<>> /\ bundles' = Tail(bundles) /\ bundles \in Seq(Bundle)
      /\ \A i \in 1 .. Len(bundles) : bundles[i].segment <= published
      /\ published \in Nat
  BY DEF SpeechIInv, WorkerOK, Playable, BundleArrives
<1>1. /\ Tail(bundles) \in Seq(Bundle) /\ Len(Tail(bundles)) = Len(bundles) - 1
      /\ \A i \in 1 .. Len(Tail(bundles)) : Tail(bundles)[i] = bundles[i + 1]
  BY <1>0, HeadTailProperties
<1>2. Len(bundles) \in Nat \ {0}
  BY <1>0, EmptySeq
<1>3. b \in Bundle /\ b = bundles[1]
  BY <1>0, <1>2, HeadTailProperties
<1>4. b.segment \in Segment /\ b.content \in {"text", "audio", "mute"} /\ b.segment <= published
      /\ b.segment \in Nat /\ b.segment # NoSegment
  BY <1>0, <1>2, <1>3 DEF Bundle, Segment, NoSegment
<1>5. WorkerOK'
  <2>1. bundles' \in Seq(Bundle) /\ \A i \in 1 .. Len(bundles') : bundles'[i].segment <= published
    <3> DEFINE t == Tail(bundles)
    <3>1. t \in Seq(Bundle) /\ Len(t) = Len(bundles) - 1 /\ \A i \in 1 .. Len(t) : t[i] = bundles[i + 1]
      BY <1>1
    <3> HIDE DEF t
    <3>2. \A i \in 1 .. Len(t) : i + 1 \in 1 .. Len(bundles)
      BY <1>2, <3>1
    <3>3. \A i \in 1 .. Len(t) : t[i].segment <= published
      BY <1>0, <3>1, <3>2
    <3>4. bundles' = t
      BY <1>0 DEF t
    <3> QED BY <3>1, <3>3, <3>4
  <2> QED BY <1>0, <2>1 DEF Server, SpeechIInv, WorkerOK, With
<1>6. ASSUME NEW q, Playable(q), TimerDue(q), page' = q PROVE SpeechIInv'
  BY <1>0, <1>5, <1>6, PageTurned DEF SpeechIInv
<1>7. page' = IF Late(b.segment, aligned) THEN aligned
              ELSE Pump([kept EXCEPT !.expected = IF Crowded(kept) THEN Min(Stored(kept)) ELSE kept.expected])
  BY DEF BundleArrives
<1> HIDE DEF b
<1>8. /\ Playable(aligned) /\ TimerDue(aligned) /\ aligned \in Page
      /\ aligned.expected \in Nat /\ aligned.expected # NoSegment
      /\ aligned.reading = page.reading /\ aligned.timer = page.timer /\ aligned.spoken = page.spoken
  <2>1. CASE page.expected = NoSegment
    <3>1. aligned = [page EXCEPT !.expected = b.segment]
      BY <2>1
    <3>2. Stored(page) = {} /\ page.expected <= b.segment
      BY <1>0, <1>4, <2>1 DEF Playable, NoSegment
    <3>3. Playable(aligned) /\ Stored(aligned) = {}
      BY <1>0, <1>4, <3>1, <3>2, LaterExpected
    <3>4. aligned \in Page /\ aligned.expected = b.segment
          /\ aligned.reading = page.reading /\ aligned.timer = page.timer /\ aligned.spoken = page.spoken
      BY <1>0, <1>4, <3>1 DEF Page
    <3> HIDE DEF aligned
    <3> QED BY <1>4, <3>3, <3>4 DEF TimerDue
  <2>2. CASE page.expected # NoSegment
    <3>1. aligned = page
      BY <1>0, <2>2 DEF Page
    <3> HIDE DEF aligned
    <3> QED BY <1>0, <2>2, <3>1, PageParts
  <2> QED BY <2>1, <2>2
<1> HIDE DEF aligned
<1>9. CASE Late(b.segment, aligned)
  BY <1>6, <1>7, <1>8, <1>9
<1>10. CASE ~Late(b.segment, aligned)
  <2> DEFINE st == [aligned.store EXCEPT ![b.segment] = b.content]
  <2>1. /\ st \in [Segment -> {"none", "text", "audio", "mute"}] /\ st[b.segment] # "none"
        /\ \A s \in Segment : st[s] # "none" <=> s = b.segment \/ aligned.store[s] # "none"
    BY <1>4, <1>8, PageParts
  <2>2. kept = [aligned EXCEPT !.store = st]
    OBVIOUS
  <2> HIDE DEF st, kept
  <2>3. /\ kept \in Page /\ kept.store = st /\ kept.expected = aligned.expected /\ kept.reading = aligned.reading
        /\ kept.timer = aligned.timer /\ kept.spoken = aligned.spoken
    BY <1>8, <2>1, <2>2 DEF Page
  <2>4. Stored(kept) = Stored(aligned) \cup {b.segment}
    BY <1>4, <2>1, <2>3 DEF Stored
  <2>5. aligned.expected <= b.segment
    BY <1>4, <1>8, <1>10 DEF Late
  <2>6. \A s \in Stored(kept) : kept.expected <= s /\ kept.expected # NoSegment /\ s <= published
    BY <1>4, <1>8, <2>3, <2>4, <2>5 DEF Playable
  <2>7. Playable(kept)
    BY <1>8, <2>3, <2>6 DEF Playable
  <2>8. CASE Crowded(kept)
    <3>1. Stored(kept) \subseteq Nat /\ Stored(kept) # {}
      BY <2>4 DEF Stored, Segment
    <3>2. Min(Stored(kept)) \in Stored(kept) /\ \A s \in Stored(kept) : Min(Stored(kept)) <= s
      BY <3>1, MinOf
    <3>3. Min(Stored(kept)) \in Nat /\ kept.expected <= Min(Stored(kept)) /\ Min(Stored(kept)) # NoSegment
      <4>1. Min(Stored(kept)) \in Segment
        BY <3>2 DEF Stored
      <4> QED BY <2>6, <3>2, <4>1 DEF Segment, NoSegment
    <3>4. Playable([kept EXCEPT !.expected = Min(Stored(kept))])
      BY <2>7, <3>2, <3>3, LaterExpected
    <3> QED BY <1>6, <1>7, <1>10, <2>8, <3>4, PumpPlayable
  <2>9. CASE ~Crowded(kept)
    <3>1. [kept EXCEPT !.expected = kept.expected] = kept
      BY <2>3 DEF Page
    <3> QED BY <1>6, <1>7, <1>10, <2>7, <2>9, <3>1, PumpPlayable
  <2> QED BY <2>8, <2>9
<1> QED BY <1>9, <1>10

LEMMA BundleSent ==
  ASSUME WorkerOK, NEW s \in Segment, job[s] # "none", NEW c \in {"text", "audio", "mute"}, Sends(s, c), published' = published
  PROVE  bundles' \in Seq(Bundle) /\ \A i \in 1 .. Len(bundles') : bundles'[i].segment <= published'
<1> DEFINE b == [segment |-> s, content |-> c]
<1>1. b \in Bundle /\ b.segment = s /\ bundles' = Append(bundles, b) /\ bundles \in Seq(Bundle)
  BY DEF Bundle, Sends, WorkerOK
<1> HIDE DEF b
<1>2. PICK L \in Nat : L = Len(bundles)
  BY <1>1, LenProperties
<1>3. /\ bundles' \in Seq(Bundle) /\ Len(bundles') = L + 1 /\ bundles'[L + 1] = b
      /\ \A i \in 1 .. L : bundles'[i] = bundles[i]
  BY <1>1, <1>2, AppendProperties
<1>4. s <= published /\ \A i \in 1 .. L : bundles[i].segment <= published
  BY <1>2 DEF WorkerOK
<1>5. ASSUME NEW i \in 1 .. (L + 1) PROVE bundles'[i].segment <= published
  <2>1. CASE i \in 1 .. L
    BY <1>3, <1>4, <2>1
  <2>2. CASE i = L + 1
    BY <1>1, <1>3, <1>4, <2>2
  <2> QED BY <1>2, <2>1, <2>2
<1> QED BY <1>3, <1>5

(* What one segment's step does to the counters.                           *)
LEMMA SegmentStep ==
  ASSUME SpeechIInv, NEW s \in Segment, NotTranslated(s) \/ Enqueue(s) \/ Infer(s) \/ Translate(s) \/ InferFails(s) \/ Voice(s)
  PROVE  SpeechIInv'
<1>0. /\ WorkerOK /\ job \in [Segment -> JobState] /\ depth \in Nat /\ published \in Nat /\ MaxQueued \in Nat
      /\ depth = Cardinality(With("queued")) + Cardinality(With("inferring"))
      /\ depth <= MaxQueued /\ Cardinality(With("inferring")) <= Slots
      /\ bundles \in Seq(Bundle) /\ \A i \in 1 .. Len(bundles) : bundles[i].segment <= published
  BY SpeechAssumption DEF SpeechIInv, WorkerOK
<1>1. UNCHANGED <<published, captions, page>> /\ job[s] # "none"
  BY DEF NotTranslated, Enqueue, Infer, Translate, InferFails, Voice
<1>2. Playable(page)' /\ TimerDue(page)'
  BY <1>0, <1>1, PageRests
<1>3. ASSUME NEW to \in JobState, to # "none", Becomes(s, to), depth' \in Nat,
             bundles' \in Seq(Bundle), \A i \in 1 .. Len(bundles') : bundles'[i].segment <= published',
             depth' = Cardinality(With("queued")') + Cardinality(With("inferring")'),
             depth' <= MaxQueued, Cardinality(With("inferring")') <= Slots
      PROVE  SpeechIInv'
  <2>1. job' \in [Segment -> JobState] /\ \A r \in Segment : job'[r] # "none" => job[r] # "none"
    BY <1>0, <1>1, <1>3 DEF Becomes
  <2>2. WorkerOK'
    BY <1>0, <1>1, <1>3, <2>1 DEF WorkerOK
  <2> QED BY <1>2, <2>2 DEF SpeechIInv
<1>4. ASSUME NEW to \in JobState, Becomes(s, to), NEW x \in {"queued", "inferring"}
      PROVE  /\ Cardinality(With(x)) \in Nat /\ Cardinality(With(x)') \in Nat
             /\ job[s] = x /\ to # x => Cardinality(With(x)') = Cardinality(With(x)) - 1
             /\ job[s] # x /\ to = x => Cardinality(With(x)') = Cardinality(With(x)) + 1
             /\ job[s] # x /\ to # x => Cardinality(With(x)') = Cardinality(With(x))
  <2>1. x \in JobState
    BY DEF JobState
  <2> QED BY <1>0, <1>4, <2>1, CountMoves DEF Becomes
<1> DEFINE Q == Cardinality(With("queued"))
           I == Cardinality(With("inferring"))
           Qn == Cardinality(With("queued")')
           In == Cardinality(With("inferring")')
<1>5. ASSUME NEW to \in JobState, Becomes(s, to)
      PROVE  /\ Q \in Nat /\ I \in Nat /\ Qn \in Nat /\ In \in Nat
             /\ job[s] = "queued" /\ to # "queued" => Qn = Q - 1
             /\ job[s] # "queued" /\ to = "queued" => Qn = Q + 1
             /\ job[s] # "queued" /\ to # "queued" => Qn = Q
             /\ job[s] = "inferring" /\ to # "inferring" => In = I - 1
             /\ job[s] # "inferring" /\ to = "inferring" => In = I + 1
             /\ job[s] # "inferring" /\ to # "inferring" => In = I
  BY <1>4, <1>5
<1>6. "closed" \in JobState /\ "queued" \in JobState /\ "inferring" \in JobState /\ "voicing" \in JobState
  BY DEF JobState
<1>7. depth = Q + I /\ I <= Slots
  BY <1>0
<1> HIDE DEF Q, I, Qn, In
<1>8. ASSUME NEW to \in JobState, to # "none", Becomes(s, to), depth' \in Nat,
             bundles' \in Seq(Bundle), \A i \in 1 .. Len(bundles') : bundles'[i].segment <= published',
             depth' = Qn + In, depth' <= MaxQueued, In <= Slots
      PROVE  SpeechIInv'
  BY <1>3, <1>8 DEF Qn, In
<1>9. CASE NotTranslated(s)
  <2>1. job[s] = "saving" /\ Becomes(s, "closed") /\ UNCHANGED <<depth, bundles>>
    BY <1>9 DEF NotTranslated
  <2>2. Qn = Q /\ In = I
    BY <1>5, <1>6, <2>1
  <2> QED BY <1>0, <1>1, <1>6, <1>7, <1>8, <2>1, <2>2
<1>10. CASE Enqueue(s)
  <2>0. job[s] = "saving"
    BY <1>10 DEF Enqueue
  <2>1. CASE Full
    <3>1. Becomes(s, "closed") /\ Sends(s, "mute") /\ UNCHANGED depth
      BY <1>10, <2>1 DEF Enqueue
    <3>2. Qn = Q /\ In = I
      BY <1>5, <1>6, <2>0, <3>1
    <3>3. bundles' \in Seq(Bundle) /\ \A i \in 1 .. Len(bundles') : bundles'[i].segment <= published'
      BY <1>0, <1>1, <3>1, BundleSent
    <3> QED BY <1>0, <1>6, <1>7, <1>8, <3>1, <3>2, <3>3
  <2>2. CASE ~Full
    <3>1. Becomes(s, "queued") /\ depth' = depth + 1 /\ UNCHANGED bundles /\ depth < MaxQueued
      BY <1>0, <1>10, <2>2 DEF Enqueue, Full
    <3>2. Qn = Q + 1 /\ In = I /\ Q \in Nat /\ I \in Nat
      BY <1>5, <1>6, <2>0, <3>1
    <3>3. depth' \in Nat /\ depth' = Qn + In /\ depth' <= MaxQueued /\ In <= Slots
      BY <1>0, <1>7, <3>1, <3>2
    <3> QED BY <1>0, <1>1, <1>6, <1>8, <3>1, <3>3
  <2> QED BY <2>1, <2>2
<1>11. CASE Infer(s)
  <2>1. job[s] = "queued" /\ Becomes(s, "inferring") /\ UNCHANGED <<depth, bundles>> /\ I < Slots
    BY <1>11 DEF Infer, I
  <2>2. Qn = Q - 1 /\ In = I + 1 /\ Q \in Nat /\ I \in Nat
    BY <1>5, <1>6, <2>1
  <2>3. depth' = Qn + In /\ In <= Slots
    BY <1>7, <2>1, <2>2 DEF Slots
  <2> QED BY <1>0, <1>1, <1>6, <1>8, <2>1, <2>3
<1>12. CASE Translate(s) \/ InferFails(s)
  <2>1. PICK to \in {"voicing", "closed"}, c \in {"text", "mute"} :
          job[s] = "inferring" /\ Becomes(s, to) /\ depth' = depth - 1 /\ Sends(s, c)
    BY <1>12 DEF Translate, InferFails
  <2>2. Qn = Q /\ In = I - 1 /\ Q \in Nat /\ I \in Nat /\ In \in Nat
    BY <1>5, <1>6, <2>1
  <2>3. depth' \in Nat /\ depth' = Qn + In /\ depth' <= MaxQueued /\ In <= Slots
    BY <1>0, <1>7, <2>1, <2>2 DEF Slots
  <2>4. bundles' \in Seq(Bundle) /\ \A i \in 1 .. Len(bundles') : bundles'[i].segment <= published'
    BY <1>0, <1>1, <2>1, BundleSent
  <2> QED BY <1>6, <1>8, <2>1, <2>3, <2>4
<1>13. CASE Voice(s)
  <2>1. PICK c \in Synthesized : job[s] = "voicing" /\ Becomes(s, "closed") /\ Sends(s, c) /\ UNCHANGED depth
    BY <1>13 DEF Voice
  <2>2. Qn = Q /\ In = I
    BY <1>5, <1>6, <2>1
  <2>3. bundles' \in Seq(Bundle) /\ \A i \in 1 .. Len(bundles') : bundles'[i].segment <= published'
    BY <1>0, <1>1, <2>1, BundleSent DEF Synthesized
  <2> QED BY <1>0, <1>6, <1>7, <1>8, <2>1, <2>2, <2>3
<1> QED BY <1>9, <1>10, <1>11, <1>12, <1>13

LEMMA PublishKeeps == ASSUME SpeechIInv, Publish PROVE SpeechIInv'
<1> DEFINE s == published + 1
<1>0. /\ WorkerOK /\ job \in [Segment -> JobState] /\ depth \in Nat /\ published \in Nat
      /\ published' = s /\ s \in Segment /\ Becomes(s, "saving")
      /\ UNCHANGED <<depth, bundles, captions, page>>
      /\ bundles \in Seq(Bundle) /\ \A i \in 1 .. Len(bundles) : bundles[i].segment <= published
      /\ captions \in Nat /\ captions <= published
  BY SpeechAssumption DEF SpeechIInv, WorkerOK, Publish, Segment
<1>1. job[s] = "none"
  BY <1>0 DEF WorkerOK
<1>2. published <= s /\ s \in Nat /\ captions <= s
  BY <1>0
<1> HIDE DEF s
<1>3. "saving" \in JobState /\ "queued" \in JobState /\ "inferring" \in JobState
  BY DEF JobState
<1>4. Cardinality(With("queued")') = Cardinality(With("queued"))
  BY <1>0, <1>1, <1>3, CountMoves DEF Becomes
<1>5. Cardinality(With("inferring")') = Cardinality(With("inferring"))
  BY <1>0, <1>1, <1>3, CountMoves DEF Becomes
<1>6. job' \in [Segment -> JobState] /\ \A r \in Segment : job'[r] # "none" => r = s \/ job[r] # "none"
  BY <1>0, <1>3 DEF Becomes
<1>7. ASSUME NEW r \in Segment, job'[r] # "none" PROVE r <= s
  <2>1. r = s \/ r <= published
    BY <1>0, <1>6, <1>7 DEF WorkerOK
  <2> QED BY <1>0, <1>2, <2>1 DEF Segment
<1>8. ASSUME NEW i \in 1 .. Len(bundles) PROVE bundles[i].segment <= s
  <2>1. bundles[i] \in Bundle
    BY <1>0, ElementOfSeq
  <2>2. bundles[i].segment \in Nat /\ bundles[i].segment <= published
    BY <1>0, <2>1 DEF Bundle, Segment
  <2> QED BY <1>0, <1>2, <2>2
<1>9. WorkerOK'
  BY <1>0, <1>2, <1>4, <1>5, <1>6, <1>7, <1>8 DEF WorkerOK
<1>10. Playable(page)' /\ TimerDue(page)'
  BY <1>0, <1>2, PageRests
<1> QED BY <1>9, <1>10 DEF SpeechIInv

LEMMA SpeechStep == SpeechIInv /\ [TranslatedNext]_speechVars => SpeechIInv'
<1> SUFFICES ASSUME SpeechIInv, [TranslatedNext]_speechVars PROVE SpeechIInv'
  OBVIOUS
<1>1. CASE UNCHANGED speechVars
  <2>1. WorkerOK'
    BY <1>1 DEF speechVars, SpeechIInv, WorkerOK, With
  <2>2. published \in Nat /\ published <= published
    BY DEF SpeechIInv, WorkerOK
  <2>3. Playable(page)' /\ TimerDue(page)'
    BY <1>1, <2>2, PageRests DEF speechVars
  <2> QED BY <2>1, <2>3 DEF SpeechIInv
<1> QED BY <1>1, PageSteps, CaptionKeeps, BundleKeeps, SegmentStep, PublishKeeps DEF TranslatedNext

(* SpeechInv: whatever order slots, voices and sockets answer in, and      *)
(* whatever fails, the worker's LANGUAGE_QUEUES counts exactly what waits  *)
(* or is being translated, and pumpSegmentQueue plays segments in their    *)
(* order, none twice.                                                      *)
THEOREM SpeechHolds == TranslatedSpec => []SpeechInv
BY SpeechStarts, SpeechStep, SpeechSuffices, PTL DEF TranslatedSpec

=============================================================================
