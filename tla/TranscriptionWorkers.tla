------------------------ MODULE TranscriptionWorkers ------------------------
(***************************************************************************)
(* portal/transcription/worker.py: the sessions that pull a booth's audio  *)
(* through ffmpeg into a speech-to-text provider, the registry of the      *)
(* active ones, and the calls that start and stop them.                    *)
(*                                                                         *)
(* A call takes active_workers_lock around steps that await nothing, so a  *)
(* locked section is one action; between sections a call may wait for a    *)
(* session's task to end. A session's task runs between its awaits; the    *)
(* awaits are the stages of loop. Every session is of the local provider,  *)
(* the one that counts references to its model.                            *)
(***************************************************************************)
EXTENDS Naturals, FiniteSets

CONSTANTS Booth,            \* booth identifiers
          Session,          \* sessions; a finished, unknown one may be used again
          Caller,           \* requests that start or stop a booth's worker
          NoSession,        \* None, where a session is expected
          NoBooth,          \* the booth of a session or request that is none
          MaxTotalWorkers   \* MAX_TOTAL_WORKERS

ASSUME WorkersAssumption ==
  /\ NoSession \notin Session
  /\ NoBooth \notin Booth
  /\ MaxTotalWorkers \in Nat
  /\ IsFiniteSet(Booth)
  /\ IsFiniteSet(Session)

VARIABLES
  workers,     \* active_workers: the registered session of each booth
  state,       \* session.state, "STOPPED" before it is constructed
  loop,        \* the await at which the session's task is
  booth,       \* session.booth_id
  modelRefs,   \* _active_booths_per_model of the model
  call,        \* where each request is
  wants,       \* the booth it is about
  awaits       \* the session it waits for, or is about to clean up

sessionVars == <<state, loop, booth>>
callVars    == <<call, wants, awaits>>
vars        == <<workers, sessionVars, modelRefs, callVars>>

State == {"STARTING", "RUNNING", "STOPPING", "STOPPED"}
Loop  == {"scheduled",    \* created, its first step not run
          "announcing",   \* enqueue_webhook("booth.transcription.started")
          "spawning",     \* FfmpegProcess.__aenter__
          "streaming",    \* the provider reads ffmpeg
          "cleaning",     \* FfmpegProcess.__aexit__, after which the loop goes on
          "unwinding",    \* FfmpegProcess.__aexit__, with a CancelledError to pass on
          "pausing",      \* the wait before a retry
          "cancelled",    \* anywhere else, with a CancelledError due
          "closing",      \* enqueue_webhook("booth.transcription.stopped")
          "done"}
Call  == {"none", "start", "startWaits", "stop", "stopWaits", "stopCleans"}

WorkersTypeOK ==
  /\ workers \in [Booth -> Session \cup {NoSession}]
  /\ state \in [Session -> State]
  /\ loop \in [Session -> Loop]
  /\ booth \in [Session -> Booth \cup {NoBooth}]
  /\ modelRefs \in Nat
  /\ call \in [Caller -> Call]
  /\ wants \in [Caller -> Booth \cup {NoBooth}]
  /\ awaits \in [Caller -> Session \cup {NoSession}]

WorkersInit ==
  /\ workers = [b \in Booth |-> NoSession]
  /\ state = [s \in Session |-> "STOPPED"]
  /\ loop = [s \in Session |-> "done"]
  /\ booth = [s \in Session |-> NoBooth]
  /\ modelRefs = 0
  /\ call = [c \in Caller |-> "none"]
  /\ wants = [c \in Caller |-> NoBooth]
  /\ awaits = [c \in Caller |-> NoSession]

-----------------------------------------------------------------------------
(* ffmpeg runs for a session from the end of __aenter__ to that of __aexit__*)
Streaming(s) == loop[s] \in {"streaming", "cleaning", "unwinding"}

registered == {workers[b] : b \in Booth} \ {NoSession}

Known(s) == s \in registered \/ \E c \in Caller : awaits[c] = s

Goes(s, stage) == loop' = [loop EXCEPT ![s] = stage]

Turns(c, stage, s) ==
  /\ call' = [call EXCEPT ![c] = stage]
  /\ awaits' = [awaits EXCEPT ![c] = s]
  /\ UNCHANGED wants

Returns(c) ==
  /\ call' = [call EXCEPT ![c] = "none"]
  /\ awaits' = [awaits EXCEPT ![c] = NoSession]
  /\ wants' = [wants EXCEPT ![c] = NoBooth]

-----------------------------------------------------------------------------
(* The task of a session. A step that takes it to its finally clause sets  *)
(* STOPPED before the clause awaits anything.                              *)
Finishes(s) ==
  /\ Goes(s, "closing")
  /\ state' = [state EXCEPT ![s] = "STOPPED"]

Task(s) == UNCHANGED <<workers, booth, modelRefs, callVars>>

(* The top of the while loop.                                              *)
Iterate(s) ==
  IF state[s] = "STOPPING"
    THEN Finishes(s)
    ELSE Goes(s, "announcing") /\ state' = [state EXCEPT ![s] = "RUNNING"]

FirstStep(s) == loop[s] = "scheduled" /\ Iterate(s) /\ Task(s)

Announced(s) ==
  loop[s] = "announcing" /\ Goes(s, "spawning") /\ UNCHANGED state /\ Task(s)

Spawned(s) ==
  loop[s] = "spawning" /\ Goes(s, "streaming") /\ UNCHANGED state /\ Task(s)

(* ffmpeg cannot be started: nothing in the loop catches that.             *)
SpawnFails(s) == loop[s] = "spawning" /\ Finishes(s) /\ Task(s)

(* The stream ends or the provider fails; either is caught.                *)
StreamEnds(s) ==
  loop[s] = "streaming" /\ Goes(s, "cleaning") /\ UNCHANGED state /\ Task(s)

Cleaned(s) ==
  /\ loop[s] = "cleaning"
  /\ IF state[s] = "STOPPING" THEN Finishes(s)
                              ELSE Goes(s, "pausing") /\ UNCHANGED state
  /\ Task(s)

(* The CancelledError reaches the finally clause.                          *)
Unwound(s) == loop[s] \in {"unwinding", "cancelled"} /\ Finishes(s) /\ Task(s)

Retry(s) == loop[s] = "pausing" /\ Iterate(s) /\ Task(s)

(* The end of the finally clause.                                          *)
Closed(s) ==
  /\ loop[s] = "closing"
  /\ Goes(s, "done")
  /\ modelRefs' = IF modelRefs = 0 THEN 0 ELSE modelRefs - 1
  /\ UNCHANGED <<workers, state, booth, callVars>>

(* task.cancel(), as it will be delivered where the task waits: __aexit__  *)
(* shields its clean-up and passes the error on when that is complete.     *)
Cancelled(s) ==
  CASE loop[s] \in {"streaming", "cleaning"}              -> "unwinding"
    [] loop[s] \in {"announcing", "spawning", "pausing"}  -> "cancelled"
    [] OTHER                                              -> loop[s]

-----------------------------------------------------------------------------
(* A request to start or stop a booth's worker comes in.                   *)
Request(c, b, what) ==
  /\ call[c] = "none"
  /\ call' = [call EXCEPT ![c] = what]
  /\ wants' = [wants EXCEPT ![c] = b]
  /\ UNCHANGED <<workers, sessionVars, modelRefs, awaits>>

Occupied == Cardinality({b \in Booth : workers[b] # NoSession})

AtCapacity == Occupied >= MaxTotalWorkers

(* start_transcription_worker, its locked section: refused, ...            *)
StartRefused(c) ==
  /\ call[c] = "start"
  /\ workers[wants[c]] = NoSession
  /\ AtCapacity
  /\ Returns(c)
  /\ UNCHANGED <<workers, sessionVars, modelRefs>>

(* ... a session constructed, registered and its task created, ...         *)
StartCreates(c, s) ==
  /\ call[c] = "start"
  /\ workers[wants[c]] = NoSession
  /\ ~AtCapacity
  /\ loop[s] = "done" /\ ~Known(s)
  /\ workers' = [workers EXCEPT ![wants[c]] = s]
  /\ state' = [state EXCEPT ![s] = "STARTING"]
  /\ Goes(s, "scheduled")
  /\ booth' = [booth EXCEPT ![s] = wants[c]]
  /\ modelRefs' = modelRefs + 1
  /\ Returns(c)

Dead(s) == state[s] = "STOPPED"

(* ... a dead session dropped before another attempt, ...                  *)
StartDrops(c) ==
  /\ call[c] = "start"
  /\ workers[wants[c]] # NoSession
  /\ Dead(workers[wants[c]])
  /\ workers' = [workers EXCEPT ![wants[c]] = NoSession]
  /\ UNCHANGED <<sessionVars, modelRefs, callVars>>

(* ... a stopping session waited for, or a running one found.              *)
StartFinds(c) ==
  LET s == workers[wants[c]]
  IN  /\ call[c] = "start"
      /\ s # NoSession
      /\ ~Dead(s)
      /\ IF state[s] = "STOPPING" THEN Turns(c, "startWaits", s) ELSE Returns(c)
      /\ UNCHANGED <<workers, sessionVars, modelRefs>>

StartAgain(c) ==
  /\ call[c] = "startWaits"
  /\ loop[awaits[c]] = "done"
  /\ Turns(c, "start", NoSession)
  /\ UNCHANGED <<workers, sessionVars, modelRefs>>

(* slip: the task is left to notice *)
StopSignalFlagOnly(s) ==
  /\ state' = [state EXCEPT ![s] = IF @ = "STOPPED" THEN @ ELSE "STOPPING"]
  /\ UNCHANGED loop

(* TranscriptionWorkerSession.stop, which cancels the task if it was entered*)
StopSignal(s) ==
  IF state[s] \in {"STOPPING", "STOPPED"}
    THEN UNCHANGED <<state, loop>>
    ELSE /\ state' = [state EXCEPT ![s] = "STOPPING"]
         /\ Goes(s, Cancelled(s))

(* stop_transcription_worker, its first locked section.                    *)
StopTakes(c) ==
  LET s == workers[wants[c]]
  IN  /\ call[c] = "stop"
      /\ IF s = NoSession
           THEN Returns(c) /\ UNCHANGED <<state, loop>>
           ELSE Turns(c, "stopWaits", s) /\ StopSignal(s)
      /\ UNCHANGED <<workers, booth, modelRefs>>

StopWaited(c) ==
  /\ call[c] = "stopWaits"
  /\ loop[awaits[c]] = "done"
  /\ Turns(c, "stopCleans", awaits[c])
  /\ UNCHANGED <<workers, sessionVars, modelRefs>>

(* slip: whatever is registered by now goes *)
UnregisterAny(b, s) == workers' = [workers EXCEPT ![b] = NoSession]

Unregister(b, s) ==
  workers' = IF workers[b] = s THEN [workers EXCEPT ![b] = NoSession] ELSE workers

(* Its second one: only if it has not been replaced meanwhile.             *)
StopCleans(c) ==
  /\ call[c] = "stopCleans"
  /\ Unregister(wants[c], awaits[c])
  /\ Returns(c)
  /\ UNCHANGED <<sessionVars, modelRefs>>

-----------------------------------------------------------------------------
TaskStep(s) ==
  \/ FirstStep(s) \/ Announced(s) \/ Spawned(s) \/ SpawnFails(s)
  \/ StreamEnds(s) \/ Cleaned(s) \/ Unwound(s) \/ Retry(s) \/ Closed(s)

CallStep(c) ==
  \/ StartRefused(c)
  \/ \E s \in Session : StartCreates(c, s)
  \/ StartDrops(c) \/ StartFinds(c) \/ StartAgain(c)
  \/ StopTakes(c) \/ StopWaited(c) \/ StopCleans(c)

WorkersNext ==
  \/ \E s \in Session : TaskStep(s)
  \/ \E c \in Caller : CallStep(c)
  \/ \E c \in Caller, b \in Booth, what \in {"start", "stop"} : Request(c, b, what)

WorkersSpec == WorkersInit /\ [][WorkersNext]_vars

(* The event loop runs every task that can run, and ffmpeg is killed if it *)
(* does not end (SIGTERM, then SIGKILL). Nothing is assumed of a webhook   *)
(* insert, a spawn or a stream that nobody cancels, except that the last   *)
(* insert of a session, which nobody cancels, comes to an end.             *)
Fairness ==
  /\ \A s \in Session : WF_vars(FirstStep(s) \/ Cleaned(s) \/ Unwound(s) \/ Closed(s))
  /\ \A c \in Caller : WF_vars(CallStep(c))

FairWorkersSpec == WorkersSpec /\ Fairness

-----------------------------------------------------------------------------
(* A booth's audio is never pulled and transcribed twice, however starts   *)
(* and stops overlap: an old session's ffmpeg is gone before the next one. *)
OneStreamPerBooth ==
  \A s, t \in Session :
    Streaming(s) /\ Streaming(t) /\ booth[s] = booth[t] => s = t

(* No session runs that a stop of its booth would not find.                *)
NoOrphan ==
  \A s \in Session : loop[s] \notin {"closing", "done"} => workers[booth[s]] = s

(* MAX_TOTAL_WORKERS bounds the ffmpeg processes, the stopping ones too.   *)
CapacityKept == Cardinality({s \in Session : Streaming(s)}) <= MaxTotalWorkers

(* Every session gives its reference to the model back exactly once,       *)
(* whether its task ends by itself, is cancelled anywhere or is stopped    *)
(* before it has run at all; otherwise the model is evicted while in use,  *)
(* or never.                                                               *)
RefsBalanced == modelRefs = Cardinality({s \in Session : loop[s] # "done"})

(* A stop returns: no provider, webhook or ffmpeg can hold it up.          *)
StopReturns == \A c \in Caller : call[c] = "stop" ~> call[c] = "none"

(* However starts, stops and failures overlap: one stream per booth, none  *)
(* that a stop would miss, no more than there are places, every reference  *)
(* to the model given back.                                                *)
WorkersSafe ==
  /\ WorkersTypeOK
  /\ OneStreamPerBooth
  /\ NoOrphan
  /\ CapacityKept
  /\ RefsBalanced
=============================================================================
