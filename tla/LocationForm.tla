---------------------------- MODULE LocationForm ----------------------------
(***************************************************************************)
(* Where a report says it is: the location text and the coordinates of     *)
(* ReportForm.jsx, and the dialog that pins them on a map                  *)
(* (MapPinPickerModal.jsx).                                                *)
(*                                                                         *)
(* A position of the browser and the address of a point come after awaits, *)
(* in any order, and nothing cancels them.  The dialog's component lives   *)
(* as long as the form: closing it hides it and removes the map, and keeps *)
(* its position and its address.                                           *)
(*                                                                         *)
(* A point stands for its coordinates and for every text made of it: the   *)
(* address, or the coordinates when the geocoder fails.  Left out: the     *)
(* error texts, and a spoken location, which is one that is typed.         *)
(***************************************************************************)
EXTENDS Integers, Sequences, SequencesExt

CONSTANTS Points,      \* points a citizen may mean
          Centre,      \* DEFAULT_CENTER, where the map opens
          MaxLookups   \* bound on the geocoder's answers waited for at a time

Empty == "empty"
Typed == "typed"

ASSUME LocationAssumption ==
  /\ Centre \in Points /\ {Empty, Typed} \cap Points = {}
  /\ MaxLookups \in Nat \ {0}

VARIABLES
  location,     \* form.location: Empty, Typed or a point
  pin,          \* form.lat and form.lng: a point, Empty when null
  locatingGps,  \* of the form
  geocoding,    \* the points whose address the form waits for, oldest first
  isOpen,       \* mapPickerOpen
  position, address,  \* of the dialog
  pickerGps,    \* locatingGps of the dialog
  marker,       \* the map's marker, Empty without a map
  lookups,      \* the points whose address the dialog waits for, oldest first
  overtaken,    \* of the answers the dialog waits for, one came before an older
  apart,        \* the map opened with its marker elsewhere than the position
  unsettled     \* the pin of the form was confirmed before its address was there

field == <<location, pin, unsettled>>
picker == <<position, address, pickerGps, lookups, overtaken, apart>>
map == <<isOpen, marker>>
vars == <<field, locatingGps, geocoding, picker, map>>

TypeOK ==
  /\ location \in Points \cup {Empty, Typed} /\ pin \in Points \cup {Empty}
  /\ locatingGps \in BOOLEAN /\ pickerGps \in BOOLEAN /\ isOpen \in BOOLEAN
  /\ position \in Points /\ address \in Points \cup {Empty}
  /\ marker \in (IF isOpen THEN Points \cup {Empty} ELSE {Empty})
  /\ geocoding \in Seq(Points) /\ lookups \in Seq(Points)
  /\ overtaken \in BOOLEAN /\ apart \in BOOLEAN /\ unsettled \in BOOLEAN

\* The form mounts, and the dialog with it: its first position and address are
\* those of the empty form.
Init ==
  /\ location = Empty /\ pin = Empty /\ locatingGps = FALSE /\ geocoding = <<>>
  /\ isOpen = FALSE /\ position = Centre /\ address = Empty /\ pickerGps = FALSE
  /\ marker = Empty /\ lookups = <<>>
  /\ overtaken = FALSE /\ apart = FALSE /\ unsettled = FALSE

----------------------------------------------------------------------------
(* The form; the dialog covers it                                          *)

\* The text field: the coordinates stay.
TypeLocation(text) ==
  /\ ~isOpen
  /\ location' = text
  /\ UNCHANGED <<pin, unsettled, locatingGps, geocoding, picker, map>>

\* The button "Live GPS" waits for the position before.
GpsReady == ~isOpen /\ ~locatingGps

\* handleQuickGps.
QuickGps ==
  /\ GpsReady /\ locatingGps' = TRUE
  /\ UNCHANGED <<field, geocoding, picker, map>>

\* The position comes; the button is free again before the address is there.
GpsPosition(p) ==
  /\ locatingGps /\ locatingGps' = FALSE
  /\ Len(geocoding) < MaxLookups /\ geocoding' = Append(geocoding, p)
  /\ UNCHANGED <<field, picker, map>>

GpsFails ==
  /\ locatingGps /\ locatingGps' = FALSE
  /\ UNCHANGED <<field, geocoding, picker, map>>

\* Mutated form: the answer writes the text alone.
LocatesText(p) == location' = p /\ unsettled' = FALSE /\ UNCHANGED pin

\* What an answer of the geocoder writes into the form.
Locates(p) == location' = p /\ pin' = p /\ unsettled' = FALSE

Geocoded(k) ==
  /\ Locates(geocoding[k])
  /\ geocoding' = RemoveAt(geocoding, k)
  /\ UNCHANGED <<locatingGps, picker, map>>

----------------------------------------------------------------------------
(* The dialog                                                              *)

OpenPicker ==
  /\ ~isOpen /\ isOpen' = TRUE
  /\ UNCHANGED <<field, locatingGps, geocoding, picker, marker>>

\* reverseGeocode up to its await.
LookUp(p) ==
  /\ Len(lookups) < MaxLookups /\ lookups' = Append(lookups, p)
  /\ overtaken' = (overtaken /\ lookups # <<>>)

\* The timer of the effect: the map and its marker, at the first position.
MapReady ==
  /\ isOpen /\ marker = Empty
  /\ marker' = Centre
  /\ LookUp(Centre)
  /\ apart' = (position # Centre)
  /\ UNCHANGED <<field, locatingGps, geocoding, position, address, pickerGps, isOpen>>

\* Mutated form: the address asked for is that of the position before.
ChooseStale(p) ==
  /\ position' = p
  /\ marker' = IF marker # Empty THEN p ELSE Empty
  /\ apart' = FALSE
  /\ LookUp(position)

\* A position is chosen: it is kept, a map that is there follows, and its
\* address is asked for.
Choose(p) ==
  /\ position' = p
  /\ marker' = IF marker # Empty THEN p ELSE Empty
  /\ apart' = FALSE
  /\ LookUp(p)

\* A click on the map, or the marker dragged.
ClickMap(p) ==
  /\ isOpen /\ marker # Empty
  /\ Choose(p)
  /\ UNCHANGED <<field, locatingGps, geocoding, address, pickerGps, isOpen>>

\* The button "Locate Me", likewise.
LiveGpsReady == isOpen /\ ~pickerGps

\* handleUseLiveGps.
UseLiveGps ==
  /\ LiveGpsReady /\ pickerGps' = TRUE
  /\ UNCHANGED <<field, locatingGps, geocoding, position, address, lookups, overtaken, apart,
                 map>>

\* The position comes, the map not yet ready or the dialog closed again.
LivePosition(p) ==
  /\ pickerGps /\ pickerGps' = FALSE
  /\ Choose(p)
  /\ UNCHANGED <<field, locatingGps, geocoding, address, isOpen>>

LiveGpsFails ==
  /\ pickerGps /\ pickerGps' = FALSE
  /\ UNCHANGED <<field, locatingGps, geocoding, position, address, lookups, overtaken, apart,
                 map>>

\* An address comes: it is shown, whatever the position is by then.
LookedUp(k) ==
  /\ address' = lookups[k]
  /\ lookups' = RemoveAt(lookups, k)
  /\ overtaken' = (overtaken \/ k > 1)
  /\ UNCHANGED <<field, locatingGps, geocoding, position, pickerGps, apart, map>>

\* onClose, with the effect's cleanup: the map goes, the state stays.
Closes == isOpen /\ isOpen' = FALSE /\ marker' = Empty /\ UNCHANGED picker

\* The backdrop, the button of the header and "Cancel".
ClosePicker ==
  /\ Closes
  /\ UNCHANGED <<field, locatingGps, geocoding>>

\* handleMapConfirm of the form.
MapConfirm(text, p) == location' = text /\ pin' = p

\* handleConfirm: without an address, the coordinates.
Confirm ==
  /\ Closes
  /\ MapConfirm(IF address # Empty THEN address ELSE position, position)
  /\ unsettled' = (lookups # <<>> \/ overtaken \/ apart)
  /\ UNCHANGED <<locatingGps, geocoding>>

\* The form closes, submitted or not: everything unmounts with it.
CloseForm ==
  /\ ~isOpen
  /\ location' = Empty /\ pin' = Empty /\ locatingGps' = FALSE /\ geocoding' = <<>>
  /\ position' = Centre /\ address' = Empty /\ pickerGps' = FALSE /\ lookups' = <<>>
  /\ overtaken' = FALSE /\ apart' = FALSE /\ unsettled' = FALSE
  /\ UNCHANGED map

----------------------------------------------------------------------------
Next ==
  \/ \E text \in {Empty, Typed} : TypeLocation(text)
  \/ QuickGps \/ GpsFails \/ OpenPicker \/ MapReady \/ UseLiveGps \/ LiveGpsFails
  \/ ClosePicker \/ Confirm \/ CloseForm
  \/ \E p \in Points : GpsPosition(p) \/ ClickMap(p) \/ LivePosition(p)
  \/ \E k \in DOMAIN geocoding : Geocoded(k)
  \/ \E k \in DOMAIN lookups : LookedUp(k)

Spec == Init /\ [][Next]_vars

----------------------------------------------------------------------------
(* Properties                                                              *)

\* The text and the coordinates a report carries belong to one point, in
\* whatever order the form's and the dialog's positions and addresses came,
\* unless the text was typed or the pin was confirmed before its address was
\* there (ReportForm.jsx:183-204, 214-222, MapPinPickerModal.jsx:187-194).
PlacedTogether == location \in Points => pin = location \/ unsettled

\* In the dialog the marker, the position and the address belong to one point,
\* as soon as no address is missing, also when the position came from the
\* browser or the dialog was closed meanwhile; unless the map opened elsewhere
\* and no position was chosen since, or an address overtook an older one
\* (MapPinPickerModal.jsx:26-65, 119-140, 162-176).
DialogAgrees ==
  ~apart => /\ marker # Empty => marker = position
            /\ lookups = <<>> /\ ~overtaken => address \in {Empty, position}

\* "Reverse geocode initial position if address is empty"
\* (MapPinPickerModal.jsx:137); what is tested is the address of the first
\* mount, so every opening looks the default centre up.
LookUpOnlyIfEmpty == [][marker = Empty /\ marker' # Empty => address = Empty]_vars
=============================================================================
