------------------------- MODULE LocationFormProofs -------------------------
(***************************************************************************)
(* Theorems of LocationForm, for any set of points and any number of       *)
(* addresses waited for.                                                   *)
(***************************************************************************)
EXTENDS LocationForm, SequenceTheorems, TLAPS

----------------------------------------------------------------------------
(* Lists of points                                                         *)

\* What is left of a list without one of its elements; unless that was the
\* last one, the last one stays.
LEMMA RemoveAtType ==
  ASSUME NEW S, NEW s \in Seq(S), NEW k \in DOMAIN s
  PROVE  /\ RemoveAt(s, k) \in Seq(S)
         /\ Len(RemoveAt(s, k)) = Len(s) - 1
         /\ k < Len(s) => RemoveAt(s, k)[Len(s) - 1] = s[Len(s)]
<1>1. k \in 1..Len(s) /\ Len(s) \in Nat
  OBVIOUS
<1> DEFINE front == SubSeq(s, 1, k - 1)
           back == SubSeq(s, k + 1, Len(s))
<1>2. front \in Seq(S) /\ Len(front) = k - 1
  BY <1>1, SubSeqProperties
<1>3. /\ back \in Seq(S) /\ Len(back) = Len(s) - k
      /\ \A i \in 1..(Len(s) - k) : back[i] = s[k + i]
  BY <1>1, SubSeqProperties
<1>4. RemoveAt(s, k) = front \o back
  BY DEF RemoveAt
<1>5. /\ front \o back \in Seq(S) /\ Len(front \o back) = Len(s) - 1
      /\ \A i \in 1..(Len(s) - 1) :
           (front \o back)[i] = IF i <= k - 1 THEN front[i] ELSE back[i - (k - 1)]
  <2>. HIDE DEF front, back
  <2>1. /\ front \o back \in Seq(S) /\ Len(front \o back) = Len(front) + Len(back)
        /\ \A i \in 1..(Len(front) + Len(back)) :
             (front \o back)[i] = IF i <= Len(front) THEN front[i]
                                  ELSE back[i - Len(front)]
    BY <1>2, <1>3, ConcatProperties
  <2>2. Len(front) + Len(back) = Len(s) - 1
    BY <1>1, <1>2, <1>3
  <2>. QED
    BY <1>2, <2>1, <2>2
<1>6. ASSUME k < Len(s) PROVE (front \o back)[Len(s) - 1] = s[Len(s)]
  <2>. HIDE DEF front, back
  <2>1. Len(s) - 1 \in 1..(Len(s) - 1) /\ ~(Len(s) - 1 <= k - 1)
    BY <1>1, <1>6
  <2>2. (front \o back)[Len(s) - 1] = back[Len(s) - k]
    BY <1>1, <1>5, <2>1
  <2>3. back[Len(s) - k] = s[k + (Len(s) - k)]
    <3>1. Len(s) - k \in 1..(Len(s) - k)
      BY <1>1, <1>6
    <3> QED
      BY <1>3, <3>1
  <2>4. k + (Len(s) - k) = Len(s)
    BY <1>1
  <2>. QED
    BY <2>2, <2>3, <2>4
<1> QED
  BY <1>4, <1>5, <1>6

\* A point added to a list is its last.
LEMMA AppendType ==
  ASSUME NEW s \in Seq(Points), NEW p \in Points
  PROVE  /\ Append(s, p) \in Seq(Points) /\ Append(s, p) # <<>>
         /\ Append(s, p)[Len(Append(s, p))] = p
BY AppendProperties

----------------------------------------------------------------------------
(* Types                                                                   *)

\* Every variable has its type after every step, a marker only in the open
\* dialog (ReportForm.jsx, MapPinPickerModal.jsx).
LEMMA TypeStep ==
  ASSUME TypeOK, [Next]_vars
  PROVE  TypeOK'
<1> USE LocationAssumption DEF TypeOK, field, picker, map
<1>1. ASSUME NEW text \in {Empty, Typed}, TypeLocation(text) PROVE TypeOK'
  BY <1>1 DEF TypeLocation
<1>2. CASE QuickGps
  BY <1>2 DEF QuickGps
<1>3. CASE GpsFails
  BY <1>3 DEF GpsFails
<1>4. CASE OpenPicker
  BY <1>4 DEF OpenPicker
<1>5. CASE MapReady
  <2>1. lookups' \in Seq(Points)
    BY <1>5, AppendType DEF MapReady, LookUp
  <2>2. overtaken' \in BOOLEAN /\ apart' \in BOOLEAN
    BY <1>5 DEF MapReady, LookUp
  <2> QED
    BY <1>5, <2>1, <2>2 DEF MapReady
<1>6. CASE UseLiveGps
  BY <1>6 DEF UseLiveGps
<1>7. CASE LiveGpsFails
  BY <1>7 DEF LiveGpsFails
<1>8. CASE ClosePicker
  BY <1>8 DEF ClosePicker, Closes
<1>9. CASE Confirm
  <2>1. unsettled' \in BOOLEAN
    BY <1>9 DEF Confirm
  <2> QED
    BY <1>9, <2>1 DEF Confirm, Closes, MapConfirm
<1>10. CASE CloseForm
  <2>1. geocoding' \in Seq(Points) /\ lookups' \in Seq(Points)
    BY <1>10, EmptySeq DEF CloseForm
  <2> QED
    BY <1>10, <2>1 DEF CloseForm
<1>11. ASSUME NEW p \in Points, GpsPosition(p) PROVE TypeOK'
  BY <1>11, AppendType DEF GpsPosition
<1>12. ASSUME NEW p \in Points, Choose(p)
       PROVE  /\ position' \in Points /\ apart' \in BOOLEAN /\ overtaken' \in BOOLEAN
              /\ lookups' \in Seq(Points)
              /\ marker' = IF marker # Empty THEN p ELSE Empty
  <2>1. lookups' \in Seq(Points)
    BY <1>12, AppendType DEF Choose, LookUp
  <2> QED
    BY <1>12, <2>1 DEF Choose, LookUp
<1>13. ASSUME NEW p \in Points, ClickMap(p) PROVE TypeOK'
  BY <1>12, <1>13 DEF ClickMap
<1>14. ASSUME NEW p \in Points, LivePosition(p) PROVE TypeOK'
  BY <1>12, <1>14 DEF LivePosition
<1>15. ASSUME NEW k \in DOMAIN geocoding, Geocoded(k) PROVE TypeOK'
  <2>1. geocoding[k] \in Points /\ geocoding' \in Seq(Points)
    BY <1>15, RemoveAtType DEF Geocoded
  <2> QED
    BY <1>15, <2>1 DEF Geocoded, Locates
<1>16. ASSUME NEW k \in DOMAIN lookups, LookedUp(k) PROVE TypeOK'
  <2>1. lookups[k] \in Points /\ lookups' \in Seq(Points)
    BY <1>16, RemoveAtType DEF LookedUp
  <2>2. overtaken' \in BOOLEAN
    BY <1>16 DEF LookedUp
  <2> QED
    BY <1>16, <2>1, <2>2 DEF LookedUp
<1>17. CASE UNCHANGED vars
  BY <1>17 DEF vars
<1> QED
  BY <1>1, <1>2, <1>3, <1>4, <1>5, <1>6, <1>7, <1>8, <1>9, <1>10, <1>11, <1>13, <1>14,
     <1>15, <1>16, <1>17 DEF Next

\* The form and its dialog are well typed throughout.
THEOREM LocationTypeCorrect == Spec => []TypeOK
<1>1. Init => TypeOK
  <2>1. <<>> \in Seq(Points)
    BY EmptySeq
  <2> QED
    BY <2>1, LocationAssumption DEF Init, TypeOK
<1> QED
  BY <1>1, TypeStep, PTL DEF Spec

----------------------------------------------------------------------------
(* One point                                                               *)

\* Unless the map opened elsewhere or an answer overtook another, the address
\* that comes last is the position's; the marker is on the position.
MarkerAgrees == ~apart /\ marker # Empty => marker = position
AddressAgrees ==
  ~apart /\ ~overtaken =>
    IF lookups = <<>> THEN address \in {Empty, position}
    ELSE lookups[Len(lookups)] = position

PlaceInv == TypeOK /\ MarkerAgrees /\ AddressAgrees /\ PlacedTogether

\* A position chosen on the map or by the browser takes marker and address along.
LEMMA ChooseAgrees ==
  ASSUME PlaceInv, NEW p \in Points, Choose(p)
  PROVE  MarkerAgrees' /\ AddressAgrees'
<1>1. lookups' # <<>> /\ lookups'[Len(lookups')] = p
  BY AppendType DEF PlaceInv, TypeOK, Choose, LookUp
<1> QED
  BY <1>1 DEF Choose, MarkerAgrees, AddressAgrees

\* The map that becomes ready on the position does so too.
LEMMA MapReadyAgrees ==
  ASSUME PlaceInv, MapReady
  PROVE  MarkerAgrees' /\ AddressAgrees'
<1>1. lookups' # <<>> /\ lookups'[Len(lookups')] = Centre
  BY AppendType, LocationAssumption DEF PlaceInv, TypeOK, MapReady, LookUp
<1>2. ~apart' => position' = Centre
  BY DEF MapReady
<1> QED
  BY <1>1, <1>2 DEF MapReady, MarkerAgrees, AddressAgrees

\* An address that comes in its turn leaves the position's to come, or is it.
LEMMA LookedUpAgrees ==
  ASSUME PlaceInv, NEW k \in DOMAIN lookups, LookedUp(k)
  PROVE  MarkerAgrees' /\ AddressAgrees'
<1>1. lookups \in Seq(Points) /\ k \in 1..Len(lookups) /\ Len(lookups) \in Nat
  BY DEF PlaceInv, TypeOK
<1>2. UNCHANGED <<position, apart, marker>>
  BY DEF LookedUp, map
<1>3. MarkerAgrees'
  BY <1>2 DEF PlaceInv, MarkerAgrees
<1>4. ASSUME ~apart', ~overtaken'
      PROVE  IF lookups' = <<>> THEN address' \in {Empty, position'}
             ELSE lookups'[Len(lookups')] = position'
  <2>1. ~overtaken /\ k = 1
    <3>1. overtaken' = (overtaken \/ k > 1)
      BY DEF LookedUp
    <3>2. ~(overtaken \/ k > 1)
      BY <1>4, <3>1, Zenon
    <3> QED
      BY <1>1, <3>2
  <2>2. lookups # <<>> /\ lookups[Len(lookups)] = position
    BY <1>1, <1>2, <1>4, <2>1 DEF PlaceInv, AddressAgrees
  <2>3. lookups' \in Seq(Points) /\ Len(lookups') = Len(lookups) - 1
    BY <1>1, RemoveAtType DEF LookedUp
  <2>4. CASE Len(lookups) = 1
    <3>1. address' = position
      BY <2>1, <2>2, <2>4 DEF LookedUp
    <3>2. lookups' = <<>>
      BY <2>3, <2>4
    <3> QED
      BY <1>2, <3>1, <3>2
  <2>5. CASE Len(lookups) # 1
    <3>1. k < Len(lookups)
      <4>1. k = 1
        BY <2>1
      <4>2. \A n \in Nat : 1 <= n /\ n # 1 => 1 < n
        OBVIOUS
      <4>3. 1 <= Len(lookups)
        BY <1>1
      <4> QED
        BY <1>1, <2>5, <4>1, <4>2, <4>3
    <3>2. lookups'[Len(lookups')] = lookups[Len(lookups)]
      BY <1>1, <2>3, <3>1, RemoveAtType DEF LookedUp
    <3>3. lookups' # <<>>
      BY <1>1, <2>3, <3>1
    <3> QED
      BY <1>2, <2>2, <3>2, <3>3
  <2> QED
    BY <2>4, <2>5
<1> QED
  BY <1>3, <1>4 DEF AddressAgrees

\* The dialog hands over one point, or says that it may not.
LEMMA ConfirmAgrees ==
  ASSUME PlaceInv, Confirm
  PROVE  MarkerAgrees' /\ AddressAgrees' /\ PlacedTogether'
<1>1. marker' = Empty /\ UNCHANGED picker
  BY DEF Confirm, Closes
<1>2. ~unsettled' => lookups = <<>> /\ ~overtaken /\ ~apart
  BY DEF Confirm, PlaceInv, TypeOK
<1>3. ~unsettled' => address \in {Empty, position}
  BY <1>2 DEF PlaceInv, AddressAgrees
<1>4. ~unsettled' => location' = pin'
  BY <1>3 DEF Confirm, MapConfirm
<1> QED
  BY <1>1, <1>4 DEF PlaceInv, MarkerAgrees, AddressAgrees, PlacedTogether, picker

\* A step keeps the form and the dialog on one point.
LEMMA PlaceStep ==
  ASSUME PlaceInv, [Next]_vars
  PROVE  PlaceInv'
<1>1. TypeOK'
  BY TypeStep DEF PlaceInv
<1>2. ASSUME UNCHANGED <<location, pin, unsettled>> PROVE PlacedTogether'
  BY <1>2 DEF PlaceInv, PlacedTogether
<1>3. ASSUME UNCHANGED picker, marker' \in {marker, Empty}
      PROVE  MarkerAgrees' /\ AddressAgrees'
  BY <1>3 DEF PlaceInv, MarkerAgrees, AddressAgrees, picker
<1>4. ASSUME NEW text \in {Empty, Typed}, TypeLocation(text) PROVE PlaceInv'
  <2>1. location' \notin Points
    BY <1>4, LocationAssumption DEF TypeLocation
  <2> QED
    BY <1>1, <1>3, <1>4, <2>1 DEF TypeLocation, map, PlaceInv, PlacedTogether
<1>5. CASE QuickGps
  BY <1>1, <1>2, <1>3, <1>5 DEF QuickGps, field, map, PlaceInv
<1>6. CASE GpsFails
  BY <1>1, <1>2, <1>3, <1>6 DEF GpsFails, field, map, PlaceInv
<1>7. CASE OpenPicker
  BY <1>1, <1>2, <1>3, <1>7 DEF OpenPicker, field, PlaceInv
<1>8. CASE MapReady
  BY <1>1, <1>2, <1>8, MapReadyAgrees DEF MapReady, field, PlaceInv
<1>9. ASSUME UNCHANGED <<field, position, address, lookups, overtaken, apart, map>>
      PROVE  PlaceInv'
  BY <1>1, <1>9 DEF field, map, PlaceInv, PlacedTogether, MarkerAgrees, AddressAgrees
<1>10. CASE UseLiveGps
  BY <1>9, <1>10 DEF UseLiveGps
<1>11. CASE LiveGpsFails
  BY <1>9, <1>11 DEF LiveGpsFails
<1>12. CASE ClosePicker
  BY <1>1, <1>2, <1>3, <1>12 DEF ClosePicker, Closes, field, PlaceInv
<1>13. CASE Confirm
  BY <1>1, <1>13, ConfirmAgrees DEF PlaceInv
<1>14. CASE CloseForm
  <2>1. location' \notin Points /\ marker' = marker /\ ~isOpen
    BY <1>14, LocationAssumption DEF CloseForm, map
  <2>2. marker = Empty
    BY <2>1 DEF PlaceInv, TypeOK
  <2> QED
    BY <1>1, <1>14, <2>1, <2>2
       DEF CloseForm, PlaceInv, PlacedTogether, MarkerAgrees, AddressAgrees
<1>15. ASSUME NEW p \in Points, GpsPosition(p) PROVE PlaceInv'
  BY <1>1, <1>2, <1>3, <1>15 DEF GpsPosition, field, map, PlaceInv
<1>16. ASSUME NEW p \in Points, ClickMap(p) PROVE PlaceInv'
  BY <1>1, <1>2, <1>16, ChooseAgrees DEF ClickMap, field, PlaceInv
<1>17. ASSUME NEW p \in Points, LivePosition(p) PROVE PlaceInv'
  BY <1>1, <1>2, <1>17, ChooseAgrees DEF LivePosition, field, PlaceInv
<1>18. ASSUME NEW k \in DOMAIN geocoding, Geocoded(k) PROVE PlaceInv'
  BY <1>1, <1>3, <1>18 DEF Geocoded, Locates, map, PlaceInv, PlacedTogether
<1>19. ASSUME NEW k \in DOMAIN lookups, LookedUp(k) PROVE PlaceInv'
  BY <1>1, <1>2, <1>19, LookedUpAgrees DEF LookedUp, field, PlaceInv
<1>20. CASE UNCHANGED vars
  BY <1>9, <1>20 DEF vars, picker
<1> QED
  BY <1>4, <1>5, <1>6, <1>7, <1>8, <1>10, <1>11, <1>12, <1>13, <1>14, <1>15, <1>16, <1>17,
     <1>18, <1>19, <1>20 DEF Next

\* PlaceInv holds throughout.
LEMMA PlaceAlways == Spec => []PlaceInv
<1>1. Init => PlaceInv
  <2>1. <<>> \in Seq(Points)
    BY EmptySeq
  <2>2. Init => TypeOK
    BY <2>1, LocationAssumption DEF Init, TypeOK
  <2> QED
    BY <2>2, LocationAssumption
       DEF Init, PlaceInv, MarkerAgrees, AddressAgrees, PlacedTogether
<1> QED
  BY <1>1, PlaceStep, PTL DEF Spec

\* The text and the coordinates of a report belong to one point unless the text
\* was typed or the pin confirmed before its address was there
\* (ReportForm.jsx:183-222).
THEOREM ReportPlacedTogether == Spec => []PlacedTogether
<1>1. PlaceInv => PlacedTogether
  BY DEF PlaceInv
<1> QED
  BY <1>1, PlaceAlways, PTL

\* Marker, position and address of the dialog belong to one point once no
\* address is missing, unless the map opened elsewhere or an answer overtook an
\* older one (MapPinPickerModal.jsx).
THEOREM DialogOnOnePoint == Spec => []DialogAgrees
<1>1. PlaceInv => DialogAgrees
  BY DEF PlaceInv, MarkerAgrees, AddressAgrees, DialogAgrees
<1> QED
  BY <1>1, PlaceAlways, PTL
=============================================================================
