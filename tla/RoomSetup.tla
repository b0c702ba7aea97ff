----------------------------- MODULE RoomSetup -----------------------------
(***************************************************************************)
(* What a room offers its listeners, and the forms that decide it          *)
(* (portal/room_setup.py, the room pages of portal/routers/admin.py, the   *)
(* room upsert of portal/routers/api_v1.py).  The setup form shows the     *)
(* room as a plan (load_snapshot), is read back (parse_plan) and makes the *)
(* room match (apply_plan); the older pages and the API write the same     *)
(* columns one at a time, in states the form then has to show and repair.  *)
(* Engines and models are left out: they change no offer.                  *)
(***************************************************************************)
EXTENDS FiniteSets

CONSTANTS Language, Elsewhere   \* a spoken language that is not offered

Delivery == {"off", "interpreter", "both", "ai_voice", "ai_text"}
Choosable == Delivery \ {"both"}   \* shown by the form, never taken from it
AI == {"both", "ai_voice", "ai_text"}
Human == {"interpreter", "both"}

VARIABLES booths,       \* languages with a booth
          liveBooths,   \* those the registry has as connected
          row,          \* room_translation_languages
          captions,     \* floor_transcription_enabled
          translating,  \* floor_translation_enabled
          voice,        \* floor_tts_enabled
          spoken,       \* floor_language_code
          saved         \* the plan just applied, until something changes

setupVars == <<booths, liveBooths, row, captions, translating, voice, spoken, saved>>

NoLanguageRow == [there |-> FALSE, enabled |-> FALSE, tts |-> FALSE]
NotSaved == [is |-> FALSE, chosen |-> [l \in Language |-> "off"],
             captions |-> FALSE, kept |-> {}]

(* Types; and a live booth has its row: no form takes it away.             *)
SetupTypeOK ==
  /\ booths \subseteq Language
  /\ liveBooths \subseteq booths
  /\ row \in [Language -> [there : BOOLEAN, enabled : BOOLEAN, tts : BOOLEAN]]
  /\ {captions, translating, voice} \subseteq BOOLEAN
  /\ spoken \in Language \cup {Elsewhere}
  /\ saved.chosen \in [Language -> Choosable]
  /\ saved.kept \subseteq booths

(* A new room: create_room, before any plan.                               *)
SetupInit ==
  /\ booths = {} /\ liveBooths = {}
  /\ row = [l \in Language |-> NoLanguageRow]
  /\ captions = FALSE /\ translating = FALSE /\ voice = FALSE
  /\ spoken = Elsewhere
  /\ saved = NotSaved

------------------------------------------------------------------------------
(* The room as the form shows it.                                          *)
Translated == IF translating THEN {l \in Language : row[l].enabled} ELSE {}

Snapshot == [l \in Language |->
  IF l \in booths THEN IF l \in Translated THEN "both" ELSE "interpreter"
  ELSE IF l \notin Translated THEN "off"
  ELSE IF voice /\ row[l].tts THEN "ai_voice" ELSE "ai_text"]

(* The form as it is read: the room's own language needs no channel unless *)
(* a booth already has it, and AI needs captions.                          *)
Parsed(chosen, lang) == [l \in Language |->
  IF l = lang /\ l \notin booths THEN "off" ELSE chosen[l]]
Uses(plan, kinds) == {l \in Language : plan[l] \in kinds}
NeedsCaptions(plan, asked) == asked \/ Uses(plan, AI) # {}

------------------------------------------------------------------------------
(* slip: a language that is no longer chosen keeps its row on              *)
SyncRowsOnly(ai, speak) ==
  [l \in Language |-> IF l \in ai
     THEN [there |-> TRUE, enabled |-> TRUE, tts |-> l \in speak]
     ELSE row[l]]

(* Rows that are there are switched; a chosen language without one gets it. *)
SyncRows(ai, speak) ==
  [l \in Language |-> IF l \in ai \/ row[l].there
     THEN [there |-> TRUE, enabled |-> l \in ai, tts |-> l \in speak]
     ELSE row[l]]

(* Booths that are live now stay, whatever was chosen for their language.  *)
KeptLive(plan) == (booths \cap liveBooths) \ Uses(plan, Human)

AiCodes(plan) == Uses(plan, AI) \ KeptLive(plan)

WantsCaptions(plan, asked) == NeedsCaptions(plan, asked)

(* The setup form is saved, under the room's lock.                         *)
Save(chosen, asked, lang) ==
  LET plan == Parsed(chosen, lang)
      kept == KeptLive(plan)
      ai == AiCodes(plan)
  IN /\ Uses(plan, {"off"}) # Language \/ NeedsCaptions(plan, asked)
     /\ spoken' = lang
     /\ booths' = Uses(plan, Human) \cup kept
     /\ captions' = WantsCaptions(plan, asked)
     /\ translating' = (ai # {})
     /\ row' = SyncRows(ai, Uses(plan, {"ai_voice"}))
     /\ voice' = (ai # {} /\ Uses(plan, {"ai_voice"}) # {})
     /\ saved' = [is |-> TRUE, chosen |-> plan, captions |-> asked, kept |-> kept]
     /\ UNCHANGED liveBooths

(* The room page: one section of the form at a time.                       *)
EditTranscription(on, lang) ==
  /\ captions' = on /\ spoken' = lang
  /\ saved' = NotSaved
  /\ UNCHANGED <<booths, liveBooths, row, translating, voice>>

EditTranslation(on, langs) ==
  /\ translating' = on
  /\ row' = [l \in Language |->
       IF l \in langs THEN [there |-> TRUE, enabled |-> TRUE,
                            tts |-> IF row[l].there THEN row[l].tts ELSE TRUE]
       ELSE [row[l] EXCEPT !.enabled = FALSE]]
  /\ saved' = NotSaved
  /\ UNCHANGED <<booths, liveBooths, captions, voice, spoken>>

EditVoice(on) ==
  /\ voice' = on
  /\ saved' = NotSaved
  /\ UNCHANGED <<booths, liveBooths, row, captions, translating, spoken>>

(* PUT of the OAuth API: the switches it sends, and a booth and a language *)
(* row for each target; those of other languages go.                       *)
ApiUpsert(on, ai, langs) ==
  /\ (booths \ langs) \cap liveBooths = {}
  /\ captions' = on /\ translating' = ai
  /\ booths' = langs
  /\ row' = [l \in Language |->
       IF l \notin langs THEN NoLanguageRow
       ELSE IF row[l].there THEN row[l]
       ELSE [there |-> TRUE, enabled |-> TRUE, tts |-> TRUE]]
  /\ saved' = NotSaved
  /\ UNCHANGED <<liveBooths, voice, spoken>>

(* The booth pages.                                                        *)
AddBooth(l) ==
  /\ l \notin booths
  /\ booths' = booths \cup {l} /\ saved' = NotSaved
  /\ UNCHANGED <<liveBooths, row, captions, translating, voice, spoken>>

DropBooth(l) ==
  /\ l \in booths
  /\ booths' = booths \ {l} /\ liveBooths' = liveBooths \ {l} /\ saved' = NotSaved
  /\ UNCHANGED <<row, captions, translating, voice, spoken>>

OnAir(l) ==
  /\ l \in booths
  /\ liveBooths' = IF l \in liveBooths THEN liveBooths \ {l} ELSE liveBooths \cup {l}
  /\ UNCHANGED <<booths, row, captions, translating, voice, spoken, saved>>

SetupNext ==
  \/ \E chosen \in [Language -> Choosable], asked \in BOOLEAN,
        lang \in Language \cup {Elsewhere} : Save(chosen, asked, lang)
  \/ \E on \in BOOLEAN, lang \in Language \cup {Elsewhere} : EditTranscription(on, lang)
  \/ \E on, ai \in BOOLEAN, langs \in SUBSET Language :
       EditTranslation(on, langs) \/ ApiUpsert(on, ai, langs)
  \/ \E on \in BOOLEAN : EditVoice(on)
  \/ \E l \in Language : AddBooth(l) \/ DropBooth(l) \/ OnAir(l)

SetupSpec == SetupInit /\ [][SetupNext]_setupVars

------------------------------------------------------------------------------
(* The form opened after a save shows what was chosen, except that a booth *)
(* kept because it was live is an interpreter's channel: parse, apply and  *)
(* snapshot agree, whatever rows and switches earlier pages left behind.   *)
ShowsWhatWasChosen ==
  saved.is => Snapshot = [l \in Language |->
    IF l \in saved.kept THEN "interpreter" ELSE saved.chosen[l]]

(* "AI interpretation is made from the live captions, so they are on       *)
(* whenever it is": after any save, also one that asked for no captions.   *)
CaptionsUnderAI == saved.is /\ translating => captions

(* Parse, apply and snapshot agree, and no switch contradicts another.     *)
SetupInv ==
  /\ SetupTypeOK
  /\ ShowsWhatWasChosen
  /\ CaptionsUnderAI
==============================================================================
