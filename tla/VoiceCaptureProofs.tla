------------------------- MODULE VoiceCaptureProofs -------------------------
(***************************************************************************)
(* Theorems of VoiceCapture, for any number of captures.                   *)
(***************************************************************************)
EXTENDS VoiceCapture, SequenceTheorems, TLAPS

----------------------------------------------------------------------------
(* The inductive invariant                                                 *)

\* The capture the form asked for last, 0 before the first.
Last == Len(fieldOf)

\* What is at work belongs to captures that were begun.
Begun ==
  /\ asks \cup chunks \cup recording \cup hears \cup closing \subseteq DOMAIN fieldOf
  /\ \A s \in stopping : s[1] \in DOMAIN fieldOf
  /\ \A r \in requests : r.said \subseteq DOMAIN fieldOf

\* What still runs belongs to the last capture, and the refs are its own.
OneCapture ==
  /\ asks \cup recording \cup hears \cup closing \subseteq {Last}
  /\ stopping \subseteq {<<Last, target>>}
  /\ recording \subseteq {recorder} /\ open \subseteq {stream}
  /\ Last > 0 => fieldOf[Last] = target

\* A capture waits for the microphone, or listens, or its recorder stops; its
\* microphone is open only in the last two, and recorded from until the stop.
InTurn ==
  /\ asks # {} => mounted /\ open = {} /\ recording = {} /\ listening = {} /\ stopping = {}
  /\ listening # {} => stopping = {}
  /\ recording # {} => listening # {}
  /\ open # {} => mounted /\ (recording # {} \/ stopping # {})

\* Texts, and what will be written into them, keep to their field.
OfTheirField ==
  /\ \A f \in Fields : \A part \in text[f] : part[1] = f
  /\ \A part \in base : part[1] = target
  /\ \A t \in timer : \A part \in t.base : part[1] = "description"
  /\ \A n \in chunks : fieldOf[n] = target
  /\ \A r \in requests : r.to = target /\ \A n \in r.said : fieldOf[n] = target

VoiceInv == TypeOK /\ Begun /\ (~crossed => OneCapture /\ InTurn /\ OfTheirField)

----------------------------------------------------------------------------
(* Starting                                                                *)

\* A capture is counted when it begins.
LEMMA StartEffect ==
  ASSUME TypeOK, NEW f \in Fields, NEW before, Start(f, before)
  PROVE  /\ fieldOf' \in Seq(Fields)
         /\ Last \in Nat /\ Last' = Last + 1 /\ Last' \in Captures
         /\ DOMAIN fieldOf = 1..Last /\ DOMAIN fieldOf' = 1..Last'
         /\ \A n \in DOMAIN fieldOf : n \in DOMAIN fieldOf' /\ fieldOf'[n] = fieldOf[n]
         /\ fieldOf'[Last'] = f
<1>1. fieldOf' = Append(fieldOf, f) /\ Len(fieldOf) + 1 \in Captures
  BY DEF Start
<1>2. fieldOf \in Seq(Fields) /\ Len(fieldOf) \in Nat
  BY DEF TypeOK
<1>3. /\ fieldOf' \in Seq(Fields) /\ Len(fieldOf') = Len(fieldOf) + 1
      /\ \A n \in 1..Len(fieldOf) : fieldOf'[n] = fieldOf[n]
      /\ fieldOf'[Len(fieldOf) + 1] = f
  BY <1>1, <1>2, AppendProperties
<1>4. DOMAIN fieldOf = 1..Len(fieldOf) /\ DOMAIN fieldOf' = 1..Len(fieldOf')
  BY <1>2, <1>3, LenProperties
<1> QED
  BY <1>1, <1>2, <1>3, <1>4 DEF Last

\* A capture that begins when the last is over is the only one.
LEMMA StartStep ==
  ASSUME VoiceInv, NEW f \in Fields, NEW before \in SUBSET (Fields \X Numbers),
         Start(f, before), timer' \subseteq timer,
         ~crossed => \A part \in before : part[1] = f
  PROVE  VoiceInv'
<1>0. TypeOK /\ Begun
  BY DEF VoiceInv
<1> DEFINE n == Len(fieldOf) + 1
<1>1. /\ live' = TRUE /\ target' = f /\ base' = before
      /\ hears' = hears \ {recogniser} /\ closing' = closing \cup (hears \cap {recogniser})
      /\ chunks' = {} /\ asks' = asks \cup {n} /\ n \in Captures
      /\ UNCHANGED <<mounted, text, listening, open, stream, recorder, recording, stopping,
                     recogniser, requests, transcribing, note>>
  BY DEF Start, Takes, answers
<1>2. crossed' = (crossed \/ Busy \/ ~mounted)
  BY DEF Start
<1>3. /\ fieldOf' \in Seq(Fields) /\ n \in DOMAIN fieldOf' /\ n = Last'
      /\ \A m \in DOMAIN fieldOf : m \in DOMAIN fieldOf' /\ fieldOf'[m] = fieldOf[m]
      /\ fieldOf'[n] = f
  BY <1>0, StartEffect DEF Last
<1> HIDE DEF n
<1>4. TypeOK'
  <2>1. crossed' \in BOOLEAN
    BY <1>0, <1>2 DEF TypeOK, Busy
  <2>2. \A t \in timer' : t.kind \in {"auto", "again"} /\ t.base \subseteq Fields \X Numbers
    BY <1>0 DEF TypeOK
  <2>3. asks' \cup open' \cup chunks' \cup recording' \cup hears' \cup closing' \cup note'
          \subseteq Captures
    BY <1>0, <1>1 DEF TypeOK
  <2> QED
    BY <1>0, <1>1, <1>3, <2>1, <2>2, <2>3 DEF TypeOK
<1>5. Begun'
  BY <1>0, <1>1, <1>3 DEF Begun
<1>6. ASSUME ~crossed' PROVE OneCapture' /\ InTurn' /\ OfTheirField'
  <2>1. /\ ~crossed /\ mounted /\ asks = {} /\ listening = {} /\ stopping = {}
        /\ requests = {} /\ hears = {} /\ closing = {}
    BY <1>2, <1>6 DEF Busy
  <2>2. OneCapture /\ InTurn /\ OfTheirField
    BY <2>1 DEF VoiceInv
  <2>3. recording = {} /\ open = {}
    BY <2>1, <2>2 DEF InTurn
  <2>4. OneCapture'
    BY <1>1, <1>3, <2>1, <2>2, <2>3 DEF OneCapture
  <2>5. InTurn'
    BY <1>1, <2>1, <2>3 DEF InTurn
  <2>6. OfTheirField'
    BY <1>1, <2>1, <2>2 DEF OfTheirField
  <2> QED
    BY <2>4, <2>5, <2>6
<1> QED
  BY <1>4, <1>5, <1>6 DEF VoiceInv

\* The microphone is granted, or there is none, and the form listens.
LEMMA ListensStep ==
  ASSUME VoiceInv, NEW n \in Captures, Granted(n) \/ NoMicrophone(n)
  PROVE  VoiceInv'
<1>0. TypeOK /\ Begun
  BY DEF VoiceInv
<1>1. /\ n \in asks /\ asks' = asks \ {n}
      /\ listening' = IF mounted THEN listening \cup {fieldOf[n]} ELSE listening
      /\ UNCHANGED <<mounted, text, timer, fieldOf, live, target, base, stopping, closing,
                     chunks, requests, transcribing, note, crossed>>
  BY DEF Granted, NoMicrophone, Listens, refs, answers
<1>2. /\ hears' \subseteq hears \cup {n} /\ recogniser' \in {recogniser, n}
  BY DEF Granted, NoMicrophone, Listens
<1>3. \/ /\ open' = open \cup {n} /\ stream' = n
         /\ recorder' = n /\ recording' = recording \cup {n}
      \/ UNCHANGED <<open, stream, recorder, recording>>
  BY DEF Granted, NoMicrophone
<1>4. n \in DOMAIN fieldOf /\ fieldOf[n] \in Fields
  <2>1. n \in DOMAIN fieldOf /\ fieldOf \in Seq(Fields)
    BY <1>0, <1>1 DEF Begun, TypeOK
  <2> QED
    BY <2>1, LenProperties, ElementOfSeq
<1>5. TypeOK'
  <2>1. /\ {stream', recorder', recogniser'} \subseteq Numbers /\ listening' \subseteq Fields
    BY <1>0, <1>1, <1>2, <1>3, <1>4 DEF TypeOK, Numbers
  <2>2. asks' \cup open' \cup chunks' \cup recording' \cup hears' \cup closing' \cup note'
          \subseteq Captures
    BY <1>0, <1>1, <1>2, <1>3 DEF TypeOK
  <2> QED
    BY <1>0, <1>1, <2>1, <2>2 DEF TypeOK
<1>6. Begun'
  BY <1>0, <1>1, <1>2, <1>3, <1>4 DEF Begun
<1>7. ASSUME ~crossed' PROVE OneCapture' /\ InTurn' /\ OfTheirField'
  <2>1. OneCapture /\ InTurn /\ OfTheirField
    BY <1>1, <1>7 DEF VoiceInv
  <2>2. /\ n = Last /\ mounted /\ open = {} /\ recording = {} /\ listening = {}
        /\ stopping = {} /\ asks' = {}
    BY <1>1, <2>1 DEF OneCapture, InTurn
  <2>3. listening' # {}
    BY <1>1, <2>2
  <2>4. Last' = Last
    BY <1>1 DEF Last
  <2>5. OneCapture'
    BY <1>1, <1>2, <1>3, <2>1, <2>2, <2>4 DEF OneCapture
  <2>6. InTurn'
    BY <1>1, <1>3, <2>2, <2>3 DEF InTurn
  <2>7. OfTheirField'
    BY <1>1, <2>1 DEF OfTheirField
  <2> QED
    BY <2>5, <2>6, <2>7
<1> QED
  BY <1>5, <1>6, <1>7 DEF VoiceInv

----------------------------------------------------------------------------
(* Listening                                                               *)

\* What is said is put behind the base, with the field it was meant for.
LEMMA ApplyStep ==
  ASSUME TypeOK, NEW f \in Fields, NEW said \in SUBSET DOMAIN fieldOf, said \subseteq Captures,
         Apply(f, said)
  PROVE  /\ text' \in [Fields -> SUBSET (Fields \X Numbers)]
         /\ OfTheirField /\ f = target /\ (\A n \in said : fieldOf[n] = target)
              => \A g \in Fields : \A part \in text'[g] : part[1] = g
<1> DEFINE words == base \cup {<<fieldOf[n], n>> : n \in said}
<1>1. text' = IF mounted THEN [text EXCEPT ![f] = words] ELSE text
  BY DEF Apply
<1>2. \A n \in said : fieldOf[n] \in Fields /\ n \in Numbers
  <2>1. fieldOf \in Seq(Fields)
    BY DEF TypeOK
  <2> QED
    BY <2>1, LenProperties, ElementOfSeq DEF Numbers
<1>3. words \in SUBSET (Fields \X Numbers)
  BY <1>2 DEF TypeOK
<1>4. ASSUME OfTheirField, f = target, \A n \in said : fieldOf[n] = target
      PROVE  \A part \in words : part[1] = f
  BY <1>4 DEF OfTheirField
<1> HIDE DEF words
<1>5. text' \in [Fields -> SUBSET (Fields \X Numbers)]
  BY <1>1, <1>3 DEF TypeOK
<1>6. ASSUME OfTheirField, f = target, \A n \in said : fieldOf[n] = target
      PROVE  \A g \in Fields : \A part \in text'[g] : part[1] = g
  <2>1. text \in [Fields -> SUBSET (Fields \X Numbers)]
    BY DEF TypeOK
  <2>2. \A g \in Fields : text'[g] = text[g] \/ (g = f /\ text'[g] = words)
    <3>1. CASE mounted
      <4>1. text' = [text EXCEPT ![f] = words]
        BY <1>1, <3>1
      <4> QED
        BY <2>1, <4>1
    <3>2. CASE ~mounted
      BY <1>1, <3>2
    <3> QED
      BY <3>1, <3>2
  <2>3. \A part \in words : part[1] = f
    BY <1>4, <1>6
  <2> QED
    BY <1>6, <2>2, <2>3 DEF OfTheirField
<1> QED
  BY <1>5, <1>6

\* A result of the recogniser is written into the field of its capture.
LEMMA HeardStep ==
  ASSUME VoiceInv, NEW n \in Captures, Heard(n)
  PROVE  VoiceInv'
<1>0. TypeOK /\ Begun
  BY DEF VoiceInv
<1>1. /\ n \in hears \cup closing /\ Apply(fieldOf[n], {n})
      /\ UNCHANGED <<mounted, timer, fieldOf, listening, crossed, live, target, base, asks, open,
                     stream, recorder, chunks, recording, stopping, recogniser, hears, closing,
                     requests, transcribing, note>>
  BY DEF Heard, refs, devices, taping, speech, answers
<1>2. n \in DOMAIN fieldOf /\ fieldOf[n] \in Fields
  <2>1. n \in DOMAIN fieldOf /\ fieldOf \in Seq(Fields)
    BY <1>0, <1>1 DEF Begun, TypeOK
  <2> QED
    BY <2>1, LenProperties, ElementOfSeq
<1>3. text' \in [Fields -> SUBSET (Fields \X Numbers)]
  BY <1>0, <1>1, <1>2, ApplyStep
<1>4. TypeOK'
  BY <1>0, <1>1, <1>3 DEF TypeOK
<1>5. Begun'
  BY <1>0, <1>1 DEF Begun
<1>6. ASSUME ~crossed' PROVE OneCapture' /\ InTurn' /\ OfTheirField'
  <2>1. OneCapture /\ InTurn /\ OfTheirField
    BY <1>1, <1>6 DEF VoiceInv
  <2>2. n = Last /\ Last > 0
    BY <1>1, <2>1 DEF OneCapture, Captures
  <2>3. fieldOf[n] = target
    BY <2>1, <2>2 DEF OneCapture
  <2>4. \A g \in Fields : \A part \in text'[g] : part[1] = g
    BY <1>0, <1>1, <1>2, <2>1, <2>3, ApplyStep
  <2>5. OneCapture' /\ InTurn'
    BY <1>1, <2>1 DEF OneCapture, InTurn, Last
  <2>6. OfTheirField'
    BY <1>1, <2>1, <2>4 DEF OfTheirField
  <2> QED
    BY <2>5, <2>6
<1> QED
  BY <1>4, <1>5, <1>6 DEF VoiceInv

\* The microphone is denied, a recogniser ends or starts again, a slice comes.
LEMMA BrowserStep ==
  ASSUME VoiceInv, NEW n \in Captures, Denied(n) \/ RecogniserEnds(n) \/ Slice(n)
  PROVE  VoiceInv'
<1>0. TypeOK /\ Begun
  BY DEF VoiceInv
<1>1. UNCHANGED <<mounted, text, timer, fieldOf, listening, target, base, open, stream, recorder,
                  recording, stopping, recogniser, requests, transcribing, note, crossed>>
  BY DEF Denied, RecogniserEnds, Slice, refs, devices, taping, speech, answers
<1>2. /\ asks' \subseteq asks /\ hears' \subseteq hears \cup closing
      /\ closing' \subseteq closing /\ live' \in BOOLEAN
      /\ \A m \in chunks' : m \in chunks \/ m \in recording
  BY <1>0 DEF Denied, RecogniserEnds, Slice, refs, devices, taping, speech, TypeOK
<1>3. TypeOK'
  <2>1. asks' \cup open' \cup chunks' \cup recording' \cup hears' \cup closing' \cup note'
          \subseteq Captures
    BY <1>0, <1>1, <1>2 DEF TypeOK
  <2> QED
    BY <1>0, <1>1, <1>2, <2>1 DEF TypeOK
<1>4. Begun'
  BY <1>0, <1>1, <1>2 DEF Begun
<1>5. ASSUME ~crossed' PROVE OneCapture' /\ InTurn' /\ OfTheirField'
  <2>1. OneCapture /\ InTurn /\ OfTheirField
    BY <1>1, <1>5 DEF VoiceInv
  <2>2. OneCapture'
    BY <1>1, <1>2, <2>1 DEF OneCapture, Last
  <2>3. InTurn'
    BY <1>1, <1>2, <2>1 DEF InTurn
  <2>4. \A m \in recording : fieldOf[m] = target
    BY <1>0, <2>1 DEF OneCapture, TypeOK, Captures
  <2>5. OfTheirField'
    BY <1>1, <1>2, <2>1, <2>4 DEF OfTheirField
  <2> QED
    BY <2>2, <2>3, <2>5
<1> QED
  BY <1>3, <1>4, <1>5 DEF VoiceInv

----------------------------------------------------------------------------
(* Stopping                                                                *)

\* The recorder that is stopped is the one whose microphone is open.
LEMMA StopStep ==
  ASSUME VoiceInv, Stop
  PROVE  VoiceInv'
<1>0. TypeOK /\ Begun
  BY DEF VoiceInv
<1>1. /\ mounted /\ live' = FALSE /\ listening # {} /\ listening' = {}
      /\ hears' = hears \ {recogniser} /\ closing' = closing \cup (hears \cap {recogniser})
      /\ UNCHANGED <<mounted, text, timer, fieldOf, target, base, crossed, asks, open, stream,
                     recorder, chunks, recogniser, requests, transcribing, note>>
  BY DEF Stop, Panel, Toggles, devices, answers
<1>2. /\ stopping' = stopping \cup ((recording \cap {recorder}) \X {target})
      /\ recording' = recording \ {recorder}
  BY DEF Stop
<1>3. /\ \A s \in stopping' : s \in stopping \/ (s = <<recorder, target>> /\ recorder \in recording)
      /\ recorder \in recording => <<recorder, target>> \in stopping'
  <2>1. \A s \in (recording \cap {recorder}) \X {target} :
          s = <<recorder, target>> /\ recorder \in recording
    OBVIOUS
  <2>2. recorder \in recording => <<recorder, target>> \in (recording \cap {recorder}) \X {target}
    OBVIOUS
  <2> QED
    BY <1>2, <2>1, <2>2
<1>4. TypeOK'
  <2>1. asks' \cup open' \cup chunks' \cup recording' \cup hears' \cup closing' \cup note'
          \subseteq Captures
    BY <1>0, <1>1, <1>2 DEF TypeOK
  <2>2. stopping' \subseteq Captures \X Fields
    BY <1>0, <1>3 DEF TypeOK
  <2> QED
    BY <1>0, <1>1, <2>1, <2>2 DEF TypeOK
<1>5. Begun'
  <2>1. \A s \in stopping' : s[1] \in DOMAIN fieldOf
    BY <1>0, <1>3 DEF Begun
  <2> QED
    BY <1>0, <1>1, <1>2, <2>1 DEF Begun
<1>6. ASSUME ~crossed' PROVE OneCapture' /\ InTurn' /\ OfTheirField'
  <2>1. OneCapture /\ InTurn /\ OfTheirField
    BY <1>1, <1>6 DEF VoiceInv
  <2>2. stopping' \subseteq {<<Last, target>>}
    BY <1>3, <2>1 DEF OneCapture
  <2>3. OneCapture'
    BY <1>1, <1>2, <2>1, <2>2 DEF OneCapture, Last
  <2>4. recording' = {} /\ asks = {} /\ stopping = {}
    BY <1>1, <1>2, <2>1 DEF OneCapture, InTurn
  <2>5. open # {} => mounted /\ stopping' # {}
    BY <1>3, <2>1, <2>4 DEF OneCapture, InTurn
  <2>6. InTurn'
    BY <1>1, <2>4, <2>5 DEF InTurn
  <2>7. OfTheirField'
    BY <1>1, <2>1 DEF OfTheirField
  <2> QED
    BY <2>3, <2>6, <2>7
<1> QED
  BY <1>4, <1>5, <1>6 DEF VoiceInv

\* When it has stopped, its microphone is closed and its sound is sent.
LEMMA RecordedStep ==
  ASSUME VoiceInv, NEW s \in stopping, Recorded(s)
  PROVE  VoiceInv'
<1> DEFINE sound == chunks \cup {s[1]}
           request == [to |-> s[2], said |-> sound]
<1>0. TypeOK /\ Begun
  BY DEF VoiceInv
<1>1. /\ stopping' = stopping \ {s} /\ open' = open \ {stream} /\ stream' = None
      /\ UNCHANGED <<mounted, text, timer, fieldOf, listening, crossed, live, target, base, asks,
                     recorder, recording, recogniser, hears, closing>>
  BY DEF Recorded, CloseStream, refs, speech
<1>2. \/ /\ chunks' = sound /\ note' \in {sound, note}
         /\ requests' = requests \cup {request} /\ transcribing' = mounted
      \/ UNCHANGED <<chunks, requests, transcribing, note>>
  BY DEF Recorded, answers
<1>3. /\ s[1] \in Captures /\ s[2] \in Fields /\ s = <<s[1], s[2]>>
      /\ s[1] \in DOMAIN fieldOf
  BY <1>0 DEF TypeOK, Begun
<1>4. sound \subseteq Captures /\ sound \subseteq DOMAIN fieldOf
  BY <1>0, <1>3 DEF TypeOK, Begun
<1>5. request \in [to : Fields, said : SUBSET Captures] /\ request.to = s[2] /\ request.said = sound
  BY <1>3, <1>4
<1> HIDE DEF request
<1>6. ASSUME OneCapture, OfTheirField PROVE s[2] = target /\ \A n \in sound : fieldOf[n] = target
  <2>1. s[1] = Last /\ s[2] = target
    BY <1>3, <1>6 DEF OneCapture
  <2> QED
    BY <1>3, <1>6, <2>1 DEF OneCapture, OfTheirField, Captures
<1> HIDE DEF sound
<1>7. TypeOK'
  <2>1. asks' \cup open' \cup chunks' \cup recording' \cup hears' \cup closing' \cup note'
          \subseteq Captures
    BY <1>0, <1>1, <1>2, <1>4 DEF TypeOK
  <2>2. requests' \subseteq [to : Fields, said : SUBSET Captures]
    BY <1>0, <1>2, <1>5 DEF TypeOK
  <2>3. transcribing' \in BOOLEAN
    BY <1>0, <1>2 DEF TypeOK
  <2>4. {stream', recorder', recogniser'} \subseteq Numbers /\ stopping' \subseteq Captures \X Fields
    BY <1>0, <1>1 DEF TypeOK, Numbers
  <2> QED
    BY <1>0, <1>1, <2>1, <2>2, <2>3, <2>4 DEF TypeOK
<1>8. Begun'
  BY <1>0, <1>1, <1>2, <1>4, <1>5 DEF Begun
<1>9. ASSUME ~crossed' PROVE OneCapture' /\ InTurn' /\ OfTheirField'
  <2>1. OneCapture /\ InTurn /\ OfTheirField
    BY <1>1, <1>9 DEF VoiceInv
  <2>2. open' = {} /\ listening = {}
    BY <1>1, <2>1 DEF OneCapture, InTurn
  <2>3. OneCapture'
    BY <1>1, <2>1, <2>2 DEF OneCapture, Last
  <2>4. InTurn'
    BY <1>1, <2>1, <2>2 DEF InTurn
  <2>5. /\ \A n \in chunks' : fieldOf[n] = target
        /\ \A r \in requests' : r.to = target /\ \A n \in r.said : fieldOf[n] = target
    BY <1>2, <1>5, <1>6, <2>1 DEF OfTheirField
  <2>6. OfTheirField'
    BY <1>1, <2>1, <2>5 DEF OfTheirField
  <2> QED
    BY <2>3, <2>4, <2>6
<1> QED
  BY <1>7, <1>8, <1>9 DEF VoiceInv

\* The transcription is written into the field it was asked for.
LEMMA TranscribedStep ==
  ASSUME VoiceInv, NEW r \in requests, Transcribed(r)
  PROVE  VoiceInv'
<1>0. TypeOK /\ Begun
  BY DEF VoiceInv
<1>1. /\ requests' = requests \ {r} /\ transcribing' = FALSE
      /\ Apply(r.to, r.said) \/ text' = text
      /\ UNCHANGED <<mounted, timer, fieldOf, listening, note, crossed, live, target, base, asks,
                     open, stream, recorder, chunks, recording, stopping, recogniser, hears,
                     closing>>
  BY DEF Transcribed, refs, devices, taping, speech
<1>2. r.to \in Fields /\ r.said \subseteq Captures /\ r.said \in SUBSET DOMAIN fieldOf
  BY <1>0 DEF TypeOK, Begun
<1>3. text' \in [Fields -> SUBSET (Fields \X Numbers)]
  <2>1. CASE Apply(r.to, r.said)
    BY <1>0, <1>2, <2>1, ApplyStep
  <2>2. CASE text' = text
    BY <1>0, <2>2 DEF TypeOK
  <2> QED
    BY <1>1, <2>1, <2>2
<1>4. TypeOK'
  BY <1>0, <1>1, <1>3 DEF TypeOK
<1>5. Begun'
  BY <1>0, <1>1 DEF Begun
<1>6. ASSUME ~crossed' PROVE OneCapture' /\ InTurn' /\ OfTheirField'
  <2>1. OneCapture /\ InTurn /\ OfTheirField
    BY <1>1, <1>6 DEF VoiceInv
  <2>2. r.to = target /\ \A n \in r.said : fieldOf[n] = target
    BY <2>1 DEF OfTheirField
  <2>3. \A g \in Fields : \A part \in text'[g] : part[1] = g
    <3>1. CASE Apply(r.to, r.said)
      BY <1>0, <1>2, <2>1, <2>2, <3>1, ApplyStep
    <3>2. CASE text' = text
      BY <2>1, <3>2 DEF OfTheirField
    <3> QED
      BY <1>1, <3>1, <3>2
  <2>4. OneCapture' /\ InTurn'
    BY <1>1, <2>1 DEF OneCapture, InTurn, Last
  <2>5. OfTheirField'
    BY <1>1, <2>1, <2>3 DEF OfTheirField
  <2> QED
    BY <2>4, <2>5
<1> QED
  BY <1>4, <1>5, <1>6 DEF VoiceInv

----------------------------------------------------------------------------
(* The rest of the form                                                    *)

\* What is typed belongs to its field, and "Re-record" keeps the description.
LEMMA FieldsStep ==
  ASSUME VoiceInv,
         \/ \E f \in Fields : \E words \in {{}, {Typed(f)}} : TypeText(f, words)
         \/ \E again \in BOOLEAN : DeleteNote(again)
  PROVE  VoiceInv'
<1>0. TypeOK /\ Begun
  BY DEF VoiceInv
<1>1. /\ UNCHANGED <<mounted, fieldOf, listening, crossed, live, target, base, asks, open, stream,
                     recorder, chunks, recording, stopping, recogniser, hears, closing, requests,
                     transcribing>>
      /\ note' \in {note, {}}
  BY DEF TypeText, DeleteNote, refs, devices, taping, speech, answers
<1>2. /\ text' \in [Fields -> SUBSET (Fields \X Numbers)]
      /\ OfTheirField => \A g \in Fields : \A part \in text'[g] : part[1] = g
  <2>1. CASE \E again \in BOOLEAN : DeleteNote(again)
    BY <1>0, <2>1 DEF DeleteNote, TypeOK, OfTheirField
  <2>2. ASSUME NEW f \in Fields, NEW words \in {{}, {Typed(f)}}, TypeText(f, words)
        PROVE  /\ text' \in [Fields -> SUBSET (Fields \X Numbers)]
               /\ OfTheirField => \A g \in Fields : \A part \in text'[g] : part[1] = g
    <3>1. /\ text' = [text EXCEPT ![f] = words]
          /\ text \in [Fields -> SUBSET (Fields \X Numbers)]
      BY <1>0, <2>2 DEF TypeText, TypeOK
    <3>2. words \in SUBSET (Fields \X Numbers) /\ \A part \in words : part[1] = f
      BY DEF Typed, Numbers
    <3>3. \A g \in Fields : text'[g] = IF g = f THEN words ELSE text[g]
      BY <3>1
    <3> QED
      BY <3>1, <3>2, <3>3 DEF OfTheirField
  <2> QED
    BY <2>1, <2>2
<1>3. ASSUME NEW t \in timer', t \notin timer
      PROVE  t = [kind |-> "again", base |-> text["description"]]
  <2>1. CASE \E again \in BOOLEAN : DeleteNote(again)
    BY <1>3, <2>1 DEF DeleteNote
  <2>2. CASE \E f \in Fields : \E words \in {{}, {Typed(f)}} : TypeText(f, words)
    BY <1>3, <2>2 DEF TypeText
  <2> QED
    BY <2>1, <2>2
<1>4. TypeOK'
  <2>1. \A t \in timer' : t.kind \in {"auto", "again"} /\ t.base \subseteq Fields \X Numbers
    <3>1. text["description"] \subseteq Fields \X Numbers
      BY <1>0 DEF TypeOK, Fields
    <3> QED
      BY <1>0, <1>3, <3>1 DEF TypeOK
  <2>2. asks' \cup open' \cup chunks' \cup recording' \cup hears' \cup closing' \cup note'
          \subseteq Captures
    BY <1>0, <1>1 DEF TypeOK
  <2> QED
    BY <1>0, <1>1, <1>2, <2>1, <2>2 DEF TypeOK
<1>5. Begun'
  BY <1>0, <1>1 DEF Begun
<1>6. ASSUME ~crossed' PROVE OneCapture' /\ InTurn' /\ OfTheirField'
  <2>1. OneCapture /\ InTurn /\ OfTheirField
    BY <1>1, <1>6 DEF VoiceInv
  <2>2. OneCapture' /\ InTurn'
    BY <1>1, <2>1 DEF OneCapture, InTurn, Last
  <2>3. \A t \in timer' : \A part \in t.base : part[1] = "description"
    BY <1>3, <2>1 DEF OfTheirField, Fields
  <2>4. OfTheirField'
    BY <1>1, <1>2, <2>1, <2>3 DEF OfTheirField
  <2> QED
    BY <2>2, <2>4
<1> QED
  BY <1>4, <1>5, <1>6 DEF VoiceInv

\* A form that closes closes the microphone in the ref.
LEMMA UnmountStep ==
  ASSUME VoiceInv, Unmount
  PROVE  VoiceInv'
<1>0. TypeOK /\ Begun
  BY DEF VoiceInv
<1>1. /\ mounted' = FALSE /\ text' = [f \in Fields |-> {}] /\ listening' = {} /\ note' = {}
      /\ transcribing' = FALSE /\ timer' \subseteq timer
      /\ hears' = hears \ {recogniser} /\ closing' = closing \cup (hears \cap {recogniser})
      /\ recording' = recording \ {recorder} /\ open' = open \ {stream}
      /\ UNCHANGED <<fieldOf, live, target, base, asks, stream, recorder, chunks, stopping,
                     recogniser, requests>>
  BY DEF Unmount, refs
<1>2. crossed' = (crossed \/ asks # {})
  BY DEF Unmount
<1>3. TypeOK'
  <2>1. asks' \cup open' \cup chunks' \cup recording' \cup hears' \cup closing' \cup note'
          \subseteq Captures
    BY <1>0, <1>1 DEF TypeOK
  <2>2. crossed' \in BOOLEAN
    BY <1>0, <1>2 DEF TypeOK
  <2>3. \A t \in timer' : t.kind \in {"auto", "again"} /\ t.base \subseteq Fields \X Numbers
    BY <1>0, <1>1 DEF TypeOK
  <2>4. text' \in [Fields -> SUBSET (Fields \X Numbers)]
    BY <1>1
  <2> QED
    BY <1>0, <1>1, <2>1, <2>2, <2>3, <2>4 DEF TypeOK
<1>4. Begun'
  BY <1>0, <1>1 DEF Begun
<1>5. ASSUME ~crossed' PROVE OneCapture' /\ InTurn' /\ OfTheirField'
  <2>1. OneCapture /\ InTurn /\ OfTheirField /\ asks = {}
    BY <1>2, <1>5 DEF VoiceInv
  <2>2. OneCapture'
    BY <1>1, <2>1 DEF OneCapture, Last
  <2>3. recording' = {} /\ open' = {}
    BY <1>1, <2>1 DEF OneCapture
  <2>4. InTurn'
    BY <1>1, <2>1, <2>3 DEF InTurn
  <2>5. OfTheirField'
    BY <1>1, <2>1 DEF OfTheirField
  <2> QED
    BY <2>2, <2>4, <2>5
<1> QED
  BY <1>3, <1>4, <1>5 DEF VoiceInv

----------------------------------------------------------------------------
(* The theorems                                                            *)

\* A button or a timer begins a capture with the text of its field.
LEMMA BeginStep ==
  ASSUME VoiceInv, TimedStart \/ \E f \in Fields : StartButton(f)
  PROVE  VoiceInv'
<1>0. TypeOK /\ (~crossed => OfTheirField)
  BY DEF VoiceInv
<1>1. CASE TimedStart
  <2>1. PICK t \in timer : Start("description", t.base)
    BY <1>1 DEF TimedStart
  <2>2. t.base \in SUBSET (Fields \X Numbers) /\ "description" \in Fields /\ timer' \subseteq timer
    BY <1>0, <1>1 DEF TypeOK, Fields, TimedStart
  <2>3. ~crossed => \A part \in t.base : part[1] = "description"
    BY <1>0 DEF OfTheirField
  <2> QED
    BY <2>1, <2>2, <2>3, StartStep
<1>2. ASSUME NEW f \in Fields, StartButton(f) PROVE VoiceInv'
  <2>1. Start(f, text[f]) /\ timer' \subseteq timer
    BY <1>2 DEF StartButton
  <2>2. text[f] \in SUBSET (Fields \X Numbers)
    BY <1>0 DEF TypeOK
  <2>3. ~crossed => \A part \in text[f] : part[1] = f
    BY <1>0 DEF OfTheirField
  <2> QED
    BY <2>1, <2>2, <2>3, StartStep
<1> QED
  BY <1>1, <1>2

\* The invariant holds when the form opens.
LEMMA InitStep == Init => VoiceInv
<1> SUFFICES ASSUME Init PROVE VoiceInv
  OBVIOUS
<1>1. /\ mounted = TRUE /\ text = [f \in Fields |-> {}] /\ fieldOf = <<>>
      /\ asks = {} /\ open = {} /\ stream = None /\ listening = {}
      /\ live = FALSE /\ target = "description" /\ base = {}
      /\ recorder = None /\ chunks = {} /\ recording = {} /\ stopping = {}
      /\ recogniser = None /\ hears = {} /\ closing = {}
      /\ requests = {} /\ transcribing = FALSE /\ note = {} /\ crossed = FALSE
  BY DEF Init
<1>2. \A t \in timer : t.kind = "auto" /\ t.base = {}
  BY DEF Init
<1>3. fieldOf \in Seq(Fields) /\ Last = 0
  BY <1>1, EmptySeq DEF Last
<1>4. TypeOK
  BY <1>1, <1>2, <1>3 DEF TypeOK, Fields, Numbers
<1>5. Begun /\ InTurn
  BY <1>1 DEF Begun, InTurn
<1>6. OneCapture
  BY <1>1, <1>3 DEF OneCapture
<1>7. OfTheirField
  BY <1>1, <1>2 DEF OfTheirField
<1> QED
  BY <1>4, <1>5, <1>6, <1>7 DEF VoiceInv

\* It holds throughout.
THEOREM VoiceInvariant == Spec => []VoiceInv
<1>1. VoiceInv /\ [Next]_vars => VoiceInv'
  <2> SUFFICES ASSUME VoiceInv, [Next]_vars PROVE VoiceInv'
    OBVIOUS
  <2>1. CASE UNCHANGED vars
    BY <2>1 DEF vars, refs, devices, taping, speech, answers, VoiceInv, TypeOK, Begun,
       OneCapture, InTurn, OfTheirField, Last
  <2>2. CASE Next
    BY <2>2, BeginStep, FieldsStep, StopStep, UnmountStep, ListensStep, BrowserStep, HeardStep,
       RecordedStep, TranscribedStep DEF Next
  <2> QED
    BY <2>1, <2>2
<1> QED
  BY <1>1, InitStep, PTL DEF Spec

\* The form, its refs and its devices have their types.
THEOREM VoiceTypeCorrect == Spec => []TypeOK
<1>1. VoiceInv => TypeOK
  BY DEF VoiceInv
<1> QED
  BY <1>1, VoiceInvariant, PTL

\* Unless captures crossed, an open microphone has a button that says it
\* listens, or a recorder about to close it, however its capture ended and
\* however many there were (ReportForm.jsx:241-271, 416-472, 539-572).
THEOREM MicrophoneIsReleased == Spec => []MicrophoneReleased
<1>1. VoiceInv => MicrophoneReleased
  BY DEF VoiceInv, InTurn, MicrophoneReleased
<1> QED
  BY <1>1, VoiceInvariant, PTL

\* Unless captures crossed, what is said is written into the field it was said
\* for, by the recogniser, late results included, and by the transcription
\* (ReportForm.jsx:356-402, 493-511, 582-587).
THEOREM FieldsStayApart == Spec => []FieldsApart
<1>1. VoiceInv => FieldsApart
  BY DEF VoiceInv, OfTheirField, FieldsApart
<1> QED
  BY <1>1, VoiceInvariant, PTL
=============================================================================
