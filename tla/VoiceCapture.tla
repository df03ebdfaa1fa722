---------------------------- MODULE VoiceCapture ----------------------------
(***************************************************************************)
(* A report dictated (ReportForm.jsx): the microphone, the recorder, the   *)
(* browser's speech recogniser and the transcription service, for the      *)
(* description and for the location.                                       *)
(*                                                                         *)
(* startVoiceRecognition awaits the microphone, the recorder reports its   *)
(* stop in an event, the recogniser its end in another, and the            *)
(* transcription comes later still; what they use is held in refs that the *)
(* next capture overwrites.  The recogniser and the recorder are the       *)
(* browser's: all that is assumed is that what was asked for ends, and that *)
(* a microphone that is granted can be recorded.                           *)
(*                                                                         *)
(* A text is the set of its parts, each with the field it was meant for:   *)
(* what was typed, and what was said in a capture.  Left out: the clock,   *)
(* the volume, the playback, reading aloud, the category guessed from the  *)
(* words and the error texts.                                              *)
(***************************************************************************)
EXTENDS Integers, Sequences, FiniteSets

CONSTANT MaxCaptures   \* bound on the captures of one form

ASSUME VoiceAssumption == MaxCaptures \in Nat \ {0}

Captures == 1..MaxCaptures
Fields == {"description", "location"}
None == 0
Numbers == Captures \cup {None}
Typed(f) == <<f, None>>

VARIABLES
  mounted,      \* isMountedRef; a form that is closed stays closed
  text,         \* form.description and form.location
  timer,        \* a start that waits for a timer: {} or {its kind and its base}
  fieldOf,      \* the field of every capture so far
  asks,         \* captures that wait for the microphone
  open,         \* captures whose microphone is open
  listening,    \* the fields whose button says so: isListening, isListeningLoc
  live, target, base,           \* isListeningRef, activeTargetFieldRef,
                                \* initialTextBeforeVoiceRef
  stream, recorder, recogniser, \* mediaStreamRef, mediaRecorderRef, recognitionRef
  chunks,       \* audioChunksRef: the captures whose sound it holds
  recording,    \* captures whose recorder runs
  stopping,     \* captures whose recorder was told to stop, with their target
  hears,        \* captures whose recogniser runs
  closing,      \* captures whose recogniser was stopped or aborted, before its end
  requests,     \* transcriptions waited for: the target and the sound
  transcribing, \* isTranscribing
  note,         \* capturedAudioBlob: the captures whose sound it holds
  crossed       \* a capture began before the last was over, or the form closed
                \* before a microphone asked for was there

refs == <<live, target, base>>
devices == <<asks, open, stream>>
taping == <<recorder, chunks, recording, stopping>>
speech == <<recogniser, hears, closing>>
answers == <<requests, transcribing, note>>
vars == <<mounted, text, timer, fieldOf, listening, crossed, refs, devices, taping, speech,
          answers>>

TypeOK ==
  /\ mounted \in BOOLEAN /\ live \in BOOLEAN /\ transcribing \in BOOLEAN
  /\ text \in [Fields -> SUBSET (Fields \X Numbers)] /\ base \subseteq Fields \X Numbers
  /\ \A t \in timer : t.kind \in {"auto", "again"} /\ t.base \subseteq Fields \X Numbers
  /\ fieldOf \in Seq(Fields) /\ target \in Fields /\ listening \subseteq Fields
  /\ {stream, recorder, recogniser} \subseteq Numbers
  /\ asks \cup open \cup chunks \cup recording \cup hears \cup closing \cup note
       \subseteq Captures
  /\ stopping \subseteq Captures \X Fields
  /\ requests \subseteq [to : Fields, said : SUBSET Captures]
  /\ crossed \in BOOLEAN

\* The form opens, by its own button or in voice mode.
Init ==
  /\ mounted = TRUE /\ text = [f \in Fields |-> {}] /\ fieldOf = <<>>
  /\ timer \in {{}, {[kind |-> "auto", base |-> {}]}}
  /\ asks = {} /\ open = {} /\ stream = None /\ listening = {}
  /\ live = FALSE /\ target = "description" /\ base = {}
  /\ recorder = None /\ chunks = {} /\ recording = {} /\ stopping = {}
  /\ recogniser = None /\ hears = {} /\ closing = {}
  /\ requests = {} /\ transcribing = FALSE /\ note = {}
  /\ crossed = FALSE

----------------------------------------------------------------------------
(* Starting                                                                *)

\* A capture is not over before its recogniser has ended and its transcription
\* is there.
Busy ==
  \/ asks # {} \/ listening # {} \/ stopping # {} \/ requests # {}
  \/ hears # {} \/ closing # {}

\* Mutated form: the target of the first capture stays.
TakesBase(f, before) == live' = TRUE /\ base' = before /\ UNCHANGED target

\* The refs a capture takes at once.
Takes(f, before) == live' = TRUE /\ target' = f /\ base' = before

\* startVoiceRecognition up to its await; its form is that of the render whose
\* handler called it.
Start(f, before) ==
  LET n == Len(fieldOf) + 1 IN
  /\ n \in Captures
  /\ fieldOf' = Append(fieldOf, f)
  /\ Takes(f, before)
  /\ hears' = hears \ {recogniser} /\ closing' = closing \cup (hears \cap {recogniser})
  /\ chunks' = {}
  /\ asks' = asks \cup {n}
  /\ crossed' = (crossed \/ Busy \/ ~mounted)
  /\ UNCHANGED <<mounted, text, listening, open, stream, recorder, recording, stopping,
                 recogniser, answers>>

\* The buttons: "Voice Input", which waits for a transcription, and "Speak".
VoiceInputReady == "description" \notin listening /\ ~transcribing
SpeakReady == "location" \notin listening

\* toggleVoiceRecognition and toggleVoiceLocation, when they start.
StartButton(f) ==
  /\ mounted
  /\ IF f = "description" THEN VoiceInputReady ELSE SpeakReady
  /\ Start(f, text[f])
  /\ UNCHANGED timer

\* The timer of voice mode, or of "Re-record"; the latter outlives the form.
TimedStart ==
  /\ \E t \in timer : Start("description", t.base)
  /\ timer' = {}

\* The rest of startVoiceRecognition: button, clock and a new recogniser, where
\* the browser has one.
Listens(n) ==
  /\ listening' = IF mounted THEN listening \cup {fieldOf[n]} ELSE listening
  /\ \/ recogniser' = n /\ hears' = hears \cup {n}
     \/ UNCHANGED <<recogniser, hears>>
  /\ UNCHANGED <<mounted, text, timer, fieldOf, refs, stopping, closing, chunks, answers,
                 crossed>>

\* The citizen grants the microphone: the new recorder and stream take the refs.
Granted(n) ==
  /\ n \in asks /\ asks' = asks \ {n}
  /\ open' = open \cup {n} /\ stream' = n
  /\ recorder' = n /\ recording' = recording \cup {n}
  /\ Listens(n)

\* There is no microphone: the recogniser goes on without a recording.
NoMicrophone(n) ==
  /\ n \in asks /\ asks' = asks \ {n}
  /\ Listens(n)
  /\ UNCHANGED <<open, stream, recorder, recording>>

\* The citizen denies it: nothing of the capture is left but its refs.
Denied(n) ==
  /\ n \in asks /\ asks' = asks \ {n}
  /\ live' = FALSE
  /\ UNCHANGED <<mounted, text, timer, fieldOf, listening, target, base, open, stream, taping,
                 speech, answers, crossed>>

----------------------------------------------------------------------------
(* Listening                                                               *)

\* applyTranscribedText: the text before the voice, and what was said in the
\* captures.
Apply(f, said) ==
  text' = IF mounted
          THEN [text EXCEPT ![f] = base \cup {<<fieldOf[n], n>> : n \in said}]
          ELSE text

\* onresult with a final result; a recogniser told to stop may still have one.
Heard(n) ==
  /\ n \in hears \cup closing
  /\ Apply(fieldOf[n], {n})
  /\ UNCHANGED <<mounted, timer, fieldOf, listening, crossed, refs, devices, taping, speech,
                 answers>>

\* onend, told to or not: the one in the ref starts again while the flag is up.
RecogniserEnds(n) ==
  /\ n \in hears \cup closing
  /\ closing' = closing \ {n}
  /\ hears' = IF live /\ recogniser = n THEN hears \cup {n} ELSE hears \ {n}
  /\ UNCHANGED <<mounted, text, timer, fieldOf, listening, crossed, refs, devices, taping,
                 recogniser, answers>>

\* ondataavailable: every recorder writes into the array of the ref.
Slice(n) ==
  /\ n \in recording \ chunks
  /\ chunks' = chunks \cup {n}
  /\ UNCHANGED <<mounted, text, timer, fieldOf, listening, crossed, refs, devices, recorder,
                 recording, stopping, speech, answers>>

----------------------------------------------------------------------------
(* Stopping                                                                *)

\* The panel with "Done"; the toggles of the buttons that say they listen.
Panel == "description" \in listening
Toggles == \E f \in Fields : f \in listening

\* stopVoiceRecognition: only what is in the refs is stopped.
Stop ==
  /\ mounted
  /\ Panel \/ Toggles
  /\ live' = FALSE /\ listening' = {}
  /\ hears' = hears \ {recogniser} /\ closing' = closing \cup (hears \cap {recogniser})
  /\ stopping' = stopping \cup ((recording \cap {recorder}) \X {target})
  /\ recording' = recording \ {recorder}
  /\ UNCHANGED <<mounted, text, timer, fieldOf, target, base, crossed, devices, recorder,
                 chunks, recogniser, answers>>

\* Mutated form: the ref is cleared and the tracks go on.
ForgetStream == stream' = None /\ UNCHANGED open

\* The tracks of the stream in the ref are stopped.
CloseStream == open' = open \ {stream} /\ stream' = None

\* onstop, after the last slice: the microphone in the ref is closed; a sound
\* of some length becomes the note and is sent.
Recorded(s) ==
  LET sound == chunks \cup {s[1]} IN
  /\ s \in stopping /\ stopping' = stopping \ {s}
  /\ CloseStream
  /\ \/ /\ chunks' = sound
        /\ note' = IF mounted THEN sound ELSE note
        /\ requests' = requests \cup {[to |-> s[2], said |-> sound]}
        /\ transcribing' = mounted
     \/ UNCHANGED <<chunks, answers>>
  /\ UNCHANGED <<mounted, text, timer, fieldOf, listening, crossed, refs, asks, recorder,
                 recording, speech>>

\* Mutated form: a failure leaves the flag up.
TranscribedOnly(r) ==
  /\ r \in requests /\ requests' = requests \ {r}
  /\ \/ Apply(r.to, r.said) /\ transcribing' = FALSE
     \/ UNCHANGED <<text, transcribing>>
  /\ UNCHANGED <<mounted, timer, fieldOf, listening, note, crossed, refs, devices, taping,
                 speech>>

\* The transcription comes, or fails, or is empty; then nothing is written.
Transcribed(r) ==
  /\ r \in requests /\ requests' = requests \ {r}
  /\ transcribing' = FALSE
  /\ Apply(r.to, r.said) \/ UNCHANGED text
  /\ UNCHANGED <<mounted, timer, fieldOf, listening, note, crossed, refs, devices, taping,
                 speech>>

----------------------------------------------------------------------------
(* The rest of the form                                                    *)

\* The text fields and the presets.
TypeText(f, words) ==
  /\ mounted
  /\ text' = [text EXCEPT ![f] = words]
  /\ UNCHANGED <<mounted, timer, fieldOf, listening, crossed, refs, devices, taping, speech,
                 answers>>

\* The player of the note is hidden while the description is dictated.
Player == note # {} /\ "description" \notin listening

\* handleDeleteAudio and, with a timer, handleReRecordAudio.
DeleteNote(again) ==
  /\ mounted /\ Player
  /\ note' = {}
  /\ timer' = IF again THEN {[kind |-> "again", base |-> text["description"]]} ELSE timer
  /\ UNCHANGED <<mounted, text, fieldOf, listening, requests, transcribing, crossed, refs,
                 devices, taping, speech>>

\* The form closes, submitted or not, and its state is gone.  The cleanup
\* aborts, stops and closes what is in the refs; the flag and the timer of
\* "Re-record" stay.
Unmount ==
  /\ mounted /\ mounted' = FALSE
  /\ text' = [f \in Fields |-> {}] /\ listening' = {} /\ note' = {} /\ transcribing' = FALSE
  /\ timer' = {t \in timer : t.kind = "again"}
  /\ hears' = hears \ {recogniser} /\ closing' = closing \cup (hears \cap {recogniser})
  /\ recording' = recording \ {recorder}
  /\ open' = open \ {stream}
  /\ crossed' = (crossed \/ asks # {})
  /\ UNCHANGED <<fieldOf, refs, asks, stream, recorder, chunks, stopping, recogniser,
                 requests>>

----------------------------------------------------------------------------
Next ==
  \/ \E f \in Fields : StartButton(f) \/ \E words \in {{}, {Typed(f)}} : TypeText(f, words)
  \/ TimedStart \/ Stop \/ Unmount
  \/ \E n \in Captures :
       Granted(n) \/ NoMicrophone(n) \/ Denied(n) \/ Heard(n) \/ RecogniserEnds(n) \/ Slice(n)
  \/ \E s \in stopping : Recorded(s)
  \/ \E r \in requests : Transcribed(r)
  \/ \E again \in BOOLEAN : DeleteNote(again)

\* The recorder that was told to stop does, and the service answers or fails.
Spec ==
  /\ Init /\ [][Next]_vars
  /\ WF_vars(\E s \in stopping : Recorded(s))
  /\ WF_vars(\E r \in requests : Transcribed(r))

----------------------------------------------------------------------------
(* Properties                                                              *)

\* The microphone is open only while the form is there and a button says it
\* listens, or the recorder has not yet stopped: whichever way a capture ends,
\* it is closed, unless captures crossed (ReportForm.jsx:241-271, 416-472,
\* 539-572).
MicrophoneReleased ==
  ~crossed /\ open # {} => mounted /\ (listening # {} \/ stopping # {})

\* What is said is written into the field it was said for, behind what that
\* field held and not the other, unless captures crossed (ReportForm.jsx:356-402,
\* 493-511, 582-587).
FieldsApart ==
  ~crossed => \A f \in Fields : \A part \in text[f] : part[1] = f

\* A capture that was stopped is over at last: its recorder has stopped, the
\* button that waits for its transcription is free and, unless captures crossed,
\* its own microphone is closed (ReportForm.jsx:539-604).
StoppedIsOver ==
  \A n \in Captures :
    (\E s \in stopping : s[1] = n) ~>
      /\ \A s \in stopping : s[1] # n
      /\ ~transcribing
      /\ crossed \/ n \notin open

\* "Cleanup Speech & Audio on Unmount" (ReportForm.jsx:234): no recogniser
\* starts again on a form that is closed.
SilentAfterClose == [][~mounted => hears' \subseteq hears]_vars
=============================================================================
