--------------------------- MODULE EventDayProofs ---------------------------
(***************************************************************************)
(* Theorems about what surrounds an event, for any number of members, of   *)
(* managers, of questions, of photos and of notices: its recap, its        *)
(* questions, its day and the messages about it, each an instance in       *)
(* MCEventDay.                                                             *)
(***************************************************************************)
EXTENDS MCEventDay, Sequences, FiniteSetTheorems, TLAPS

-----------------------------------------------------------------------------
(* The recap                                                               *)

\* A page: its photos are stored and within the room there is; the dialog is
\* open only while nothing is uploading; what it counts covers the uploads.
ScreenOK(s) ==
    /\ s \in R!Screen
    /\ Cardinality(s.photoUrls) <= MaxPhotos /\ s.photoUrls \subseteq stored
    /\ s.seen <= summary.version
    /\ s.chooser => s.count = 0 /\ s.at \in {"form", "published"}
    /\ Cardinality(s.todo) <= s.count
    /\ ~ s.late => s.count = Cardinality(s.todo)
    /\ s.at = "confirm" => s.todo = {}
    /\ s.answered =>
          /\ s.own \subseteq s.photoUrls \cup s.removed
          /\ s.seen = summary.version => summary.photoUrls \subseteq s.photoUrls \cup s.removed

RecapRequest == [pc : {"none", "save", "ok", "error"}, photoUrls : SUBSET Photos]
RoomFor(photoUrls) == Cardinality(photoUrls) <= MaxPhotos /\ photoUrls \subseteq stored
Saving == {m \in Doors : request[m].pc = "save"}

\* Recaps published and requests that may yet publish one were all sent.
Published == summary.version + Cardinality(Saving) <= recaps

RecapInv ==
    /\ summary \in [photoUrls : SUBSET Photos, version : Nat]
    /\ RoomFor(summary.photoUrls)
    /\ screen \in [Doors -> R!Screen] /\ \A m \in Doors : ScreenOK(screen[m])
    /\ request \in [Doors -> RecapRequest] /\ \A m \in Doors : RoomFor(request[m].photoUrls)
    /\ stored \in SUBSET Photos /\ chosen \in SUBSET Photos
    /\ recaps \in 0..MaxRecaps
    /\ Published

LEMMA RecapCounts ==
  /\ \A S : R!Cardinality(S) = Cardinality(S)
  /\ \A S : R!IsFiniteSet(S) <=> IsFiniteSet(S)
  BY DEF R!Cardinality, Cardinality, R!IsFiniteSet, IsFiniteSet

LEMMA RecapConstants ==
  /\ IsFiniteSet(Doors) /\ IsFiniteSet(Photos)
  /\ MaxPhotos \in Nat \ {0} /\ MaxRecaps \in Nat
  BY PartsAssumption, RecapCounts DEF R!RecapAssumption

LEMMA PhotoSets ==
  /\ Cardinality(Photos) \in Nat
  /\ \A ps \in SUBSET Photos : /\ IsFiniteSet(ps)
                               /\ Cardinality(ps) \in 0..Cardinality(Photos)
<1>1. Cardinality(Photos) \in Nat
  BY RecapConstants, FS_CardinalityType
<1>2. ASSUME NEW ps \in SUBSET Photos
      PROVE  IsFiniteSet(ps) /\ Cardinality(ps) \in 0..Cardinality(Photos)
  <2>1. IsFiniteSet(ps) /\ Cardinality(ps) <= Cardinality(Photos)
    BY RecapConstants, FS_Subset
  <2>2. Cardinality(ps) \in Nat
    BY <2>1, FS_CardinalityType
  <2> QED BY <1>1, <2>1, <2>2
<1> QED BY <1>1, <1>2

LEMMA SavingCount == IsFiniteSet(Saving) /\ Cardinality(Saving) \in Nat
<1>1. IsFiniteSet(Saving)
  BY RecapConstants, FS_Subset DEF Saving
<1> QED BY <1>1, FS_CardinalityType

LEMMA RecapImplies == RecapInv => R!TypeOK /\ R!RecapHolds
<1> SUFFICES ASSUME RecapInv PROVE R!TypeOK /\ R!RecapHolds
  OBVIOUS
<1> USE DEF RecapInv
<1>1. summary.version \in 0..MaxRecaps
  BY SavingCount, RecapConstants DEF Published
<1>2. R!TypeOK
  BY <1>1 DEF R!TypeOK, RecapRequest
<1>3. R!RoomKept
  BY RecapCounts DEF R!RoomKept, RoomFor, ScreenOK
<1>4. R!PhotosKept /\ R!CountEnds /\ R!ConfirmedIsWhole
  BY RecapCounts DEF R!PhotosKept, R!CountEnds, R!ConfirmedIsWhole, ScreenOK
<1> QED BY <1>2, <1>3, <1>4 DEF R!RecapHolds

\* What is stored stays, and a recap published raises the version.
LEMMA ScreenKept ==
  ASSUME NEW s, ScreenOK(s), stored \subseteq stored',
         summary.version \in Nat, summary'.version \in Nat,
         summary' = summary \/ summary'.version > summary.version
  PROVE  ScreenOK(s)'
<1>1. s.seen \in Nat
  BY RecapConstants DEF ScreenOK, R!Screen
<1>2. s.seen <= summary'.version
  BY <1>1 DEF ScreenOK
<1>3. s.seen = summary'.version => summary' = summary
  BY <1>1 DEF ScreenOK
<1> QED BY <1>2, <1>3, Zenon DEF ScreenOK, R!Screen

\* A step of one page.
LEMMA RecapTurns ==
  ASSUME RecapInv, NEW m \in Doors, NEW t, R!Turn(m, t), R!Server,
         stored \subseteq stored', stored' \in SUBSET Photos, chosen' \in SUBSET Photos,
         ScreenOK(t)'
  PROVE  RecapInv'
<1>1. UNCHANGED <<summary, request, recaps>>
  BY DEF R!Server
<1>2. t \in R!Screen
  BY DEF ScreenOK
<1>3. screen' = [screen EXCEPT ![m] = t]
  BY DEF R!Turn
<1>4. screen' \in [Doors -> R!Screen]
  BY <1>2, <1>3 DEF RecapInv
<1>5. ASSUME NEW n \in Doors PROVE ScreenOK(screen[n])'
  <2>1. PICK s : s = screen'[n]
    OBVIOUS
  <2>2. ScreenOK(s)'
    <3>1. CASE n = m
      BY <1>3, <2>1, <3>1 DEF RecapInv
    <3>2. CASE n # m
      <4>1. s = screen[n]
        BY <1>3, <2>1, <3>2 DEF RecapInv
      <4> QED BY <1>1, <4>1, ScreenKept DEF RecapInv
    <3> QED BY <3>1, <3>2
  <2> QED BY <2>1, <2>2
<1>6. (\A n \in Doors : ScreenOK(screen[n]))'
  BY <1>5
<1>7. RoomFor(summary.photoUrls)' /\ (\A n \in Doors : RoomFor(request[n].photoUrls))'
  BY <1>1 DEF RecapInv, RoomFor
<1>8. Published'
  BY <1>1 DEF RecapInv, Published, Saving
<1> QED BY <1>1, <1>4, <1>6, <1>7, <1>8 DEF RecapInv

\* What a page was stays good, as long as only other things change.
LEMMA ScreenStays ==
  ASSUME RecapInv, NEW m \in Doors, R!Server, stored \subseteq stored'
  PROVE  \A s : s = screen[m] => ScreenOK(s) /\ ScreenOK(s)'
  BY ScreenKept DEF RecapInv, R!Server

LEMMA FilesStay ==
  ASSUME RecapInv, R!Files
  PROVE  stored \subseteq stored' /\ stored' \in SUBSET Photos /\ chosen' \in SUBSET Photos
  BY DEF RecapInv, R!Files

LEMMA NoPhotos == R!Cardinality({}) = 0 /\ Cardinality({}) = 0
  BY FS_EmptySet, RecapCounts

LEMMA ClosedOK ==
  ASSUME RecapInv, NEW at \in {"closed", "form"}
  PROVE  ScreenOK([R!Closed EXCEPT !.at = at])
<1>1. 0 \in 0..R!Cardinality(Photos)
  BY PhotoSets, RecapCounts
<1>2. 0 \in 0..MaxRecaps
  BY RecapConstants
<1>3. [R!Closed EXCEPT !.at = at] \in R!Screen
  BY <1>1, <1>2 DEF R!Closed, R!Screen
<1>4. summary.version \in Nat
  BY DEF RecapInv
<1> QED BY <1>3, <1>4, NoPhotos, RecapConstants DEF ScreenOK, R!Closed

LEMMA RecapOpens ==
  ASSUME RecapInv, NEW m \in Doors, R!Open(m) \/ R!Leave(m)
  PROVE  RecapInv'
<1>1. PICK at \in {"closed", "form"} : R!Turn(m, [R!Closed EXCEPT !.at = at])
  <2>1. CASE R!Open(m)
    BY <2>1 DEF R!Open
  <2>2. CASE R!Leave(m)
    <3>1. R!Closed = [R!Closed EXCEPT !.at = "closed"]
      BY DEF R!Closed
    <3> QED BY <2>2, <3>1 DEF R!Leave
  <2> QED BY <2>1, <2>2
<1>2. R!Server /\ R!Files
  BY DEF R!Open, R!Leave
<1>3. PICK t : t = [R!Closed EXCEPT !.at = at]
  OBVIOUS
<1>4. ScreenOK(t)'
  BY <1>2, <1>3, ClosedOK DEF R!Server, R!Files, ScreenOK
<1> QED BY <1>1, <1>2, <1>3, <1>4, FilesStay, RecapTurns

LEMMA RecapSeed ==
  ASSUME RecapInv, NEW m \in Doors, R!Seed(m)
  PROVE  RecapInv'
<1>1. R!Server /\ R!Files
  BY DEF R!Seed
<1>2. PICK s : s = screen[m]
  OBVIOUS
<1>3. PICK t : t = [s EXCEPT !.answered = TRUE, !.photoUrls = summary.photoUrls,
                             !.seen = summary.version, !.own = {}, !.removed = {}]
  OBVIOUS
<1>4. ScreenOK(s)'
  BY <1>1, <1>2, FilesStay, ScreenStays
<1>5. summary.version \in 0..MaxRecaps
  BY SavingCount, RecapConstants DEF RecapInv, Published
<1>6. /\ t.at = s.at /\ t.chooser = s.chooser /\ t.count = s.count /\ t.todo = s.todo
      /\ t.late = s.late /\ t.photoUrls = summary'.photoUrls /\ t.seen = summary'.version
      /\ t.own = {} /\ t.removed = {}
  BY <1>1, <1>3, <1>4 DEF ScreenOK, R!Screen, R!Server
<1>7. t \in R!Screen
  BY <1>3, <1>4, <1>5 DEF ScreenOK, R!Screen, RecapInv
<1>8. ScreenOK(t)'
  BY <1>1, <1>4, <1>5, <1>6, <1>7 DEF ScreenOK, RecapInv, RoomFor, R!Server, R!Files
<1> QED BY <1>1, <1>2, <1>3, <1>8, FilesStay, RecapTurns DEF R!Seed

LEMMA RecapChoose ==
  ASSUME RecapInv, NEW m \in Doors, R!Choose(m)
  PROVE  RecapInv'
<1>1. R!Server /\ R!Files
  BY DEF R!Choose
<1>2. PICK s : s = screen[m]
  OBVIOUS
<1>3. PICK t : t = [s EXCEPT !.chooser = TRUE]
  OBVIOUS
<1>4. ScreenOK(s)'
  BY <1>1, <1>2, FilesStay, ScreenStays
<1>5. s.at = "form" /\ s.count = 0 /\ R!Turn(m, t)
  BY <1>2, <1>3 DEF R!Choose
<1>6. ScreenOK(t)'
  BY <1>3, <1>4, <1>5 DEF ScreenOK, R!Screen
<1> QED BY <1>1, <1>5, <1>6, FilesStay, RecapTurns

LEMMA RecapPicks ==
  ASSUME RecapInv, NEW m \in Doors, NEW files \in SUBSET Photos, R!OnPickPhotos(m, files)
  PROVE  RecapInv'
<1>1. R!Server /\ stored' = stored /\ chosen' = chosen \cup files
  BY DEF R!OnPickPhotos
<1>2. PICK s : s = screen[m]
  OBVIOUS
<1> DEFINE full == Cardinality(s.photoUrls) >= MaxPhotos
<1>3. PICK t : t = [s EXCEPT !.chooser = FALSE, !.count = @ + Cardinality(files),
                             !.todo = IF full THEN {} ELSE files,
                             !.late = @ \/ (full /\ files # {})]
  OBVIOUS
<1>4. ScreenOK(s)' /\ s \in R!Screen
  BY <1>1, <1>2, ScreenStays DEF ScreenOK, RecapInv
<1>5. s.chooser /\ R!Turn(m, t)
  BY <1>2, <1>3, RecapCounts DEF R!OnPickPhotos
<1>6. s.count = 0 /\ s.todo = {} /\ s.at \in {"form", "published"}
  <2>1. s.count = 0 /\ Cardinality(s.todo) <= 0 /\ s.at \in {"form", "published"}
    BY <1>4, <1>5 DEF ScreenOK
  <2>2. s.todo \in SUBSET Photos
    BY <1>4 DEF R!Screen
  <2>3. Cardinality(s.todo) = 0
    BY <2>1, <2>2, PhotoSets
  <2> QED BY <2>1, <2>2, <2>3, PhotoSets, FS_EmptySet
<1>7. Cardinality(files) \in 0..Cardinality(Photos) /\ (files = {} <=> Cardinality(files) = 0)
  BY PhotoSets, FS_EmptySet
<1>8. /\ t.count = Cardinality(files) /\ t.todo = (IF full THEN {} ELSE files)
      /\ t.late = (s.late \/ (full /\ files # {})) /\ t.chooser = FALSE
      /\ t.at = s.at /\ t.photoUrls = s.photoUrls /\ t.seen = s.seen
      /\ t.own = s.own /\ t.removed = s.removed /\ t.answered = s.answered
  BY <1>3, <1>4, <1>6, <1>7 DEF R!Screen
<1>9. t \in R!Screen
  <2>1. t.count \in 0..R!Cardinality(Photos) /\ t.todo \in SUBSET Photos /\ t.late \in BOOLEAN
    BY <1>4, <1>7, <1>8, RecapCounts DEF R!Screen
  <2> QED BY <1>3, <1>4, <2>1, <1>8 DEF R!Screen
<1>10. Cardinality(t.todo) <= t.count /\ (~ t.late => t.count = Cardinality(t.todo))
  <2>1. CASE full
    <3>1. t.todo = {} /\ (t.late <=> s.late \/ files # {})
      BY <1>4, <1>8, <2>1 DEF R!Screen
    <3> HIDE DEF full
    <3> QED BY <1>7, <1>8, <3>1, NoPhotos
  <2>2. CASE ~ full
    <3>1. t.todo = files
      BY <1>8, <2>2
    <3> QED BY <1>7, <1>8, <3>1
  <2> QED BY <2>1, <2>2
<1>11. ScreenOK(t)'
  BY <1>4, <1>6, <1>8, <1>9, <1>10 DEF ScreenOK
<1>12. stored' \in SUBSET Photos /\ chosen' \in SUBSET Photos
  BY <1>1 DEF RecapInv
<1> QED BY <1>1, <1>5, <1>11, <1>12, RecapTurns

\* An upload that ends, well or not, is one less.
LEMMA UploadEnds ==
  ASSUME RecapInv, NEW s \in R!Screen, ScreenOK(s), NEW p \in s.todo
  PROVE  /\ p \in Photos
         /\ s.todo \ {p} \in SUBSET Photos
         /\ s.count - 1 \in 0..R!Cardinality(Photos)
         /\ ~ s.chooser /\ s.at # "confirm"
         /\ Cardinality(s.todo \ {p}) <= s.count - 1
         /\ ~ s.late => s.count - 1 = Cardinality(s.todo \ {p})
<1>1. s.todo \in SUBSET Photos /\ IsFiniteSet(s.todo) /\ Cardinality(s.todo) \in Nat
  BY PhotoSets DEF R!Screen
<1>2. Cardinality(s.todo \ {p}) = Cardinality(s.todo) - 1
  BY <1>1, FS_RemoveElement
<1>3. Cardinality(s.todo) # 0
  BY <1>1, FS_EmptySet
<1>4. s.count \in 0..R!Cardinality(Photos) /\ R!Cardinality(Photos) \in Nat
  BY PhotoSets, RecapCounts DEF R!Screen
<1>5. s.count - 1 \in 0..R!Cardinality(Photos)
  BY <1>1, <1>3, <1>4 DEF ScreenOK
<1>6. ~ s.chooser /\ s.at # "confirm"
  BY <1>1, <1>3, <1>4, <1>5 DEF ScreenOK
<1> QED BY <1>1, <1>2, <1>4, <1>5, <1>6 DEF ScreenOK

LEMMA RecapUploaded ==
  ASSUME RecapInv, NEW m \in Doors, NEW p, R!Uploaded(m, p)
  PROVE  RecapInv'
<1>1. R!Server /\ stored' = stored \cup {p} /\ chosen' = chosen
  BY DEF R!Uploaded
<1>2. PICK s : s = screen[m]
  OBVIOUS
<1>3. PICK added : added = R!Added(s, p)
  OBVIOUS
<1>4. PICK t : t = [s EXCEPT !.todo = @ \ {p}, !.count = @ - 1, !.photoUrls = added,
                             !.own = @ \cup (added \ s.photoUrls)]
  OBVIOUS
<1>5. p \in s.todo /\ R!Turn(m, t)
  BY <1>2, <1>3, <1>4 DEF R!Uploaded
<1>6. ScreenOK(s) /\ ScreenOK(s)' /\ s \in R!Screen
  <2>1. stored \subseteq stored'
    BY <1>1
  <2> QED BY <1>1, <1>2, <2>1, ScreenStays DEF ScreenOK, RecapInv
<1>7. /\ p \in Photos
      /\ s.todo \ {p} \in SUBSET Photos
      /\ s.count - 1 \in 0..R!Cardinality(Photos)
      /\ ~ s.chooser /\ s.at # "confirm"
      /\ Cardinality(s.todo \ {p}) <= s.count - 1
      /\ ~ s.late => s.count - 1 = Cardinality(s.todo \ {p})
  BY <1>5, <1>6, UploadEnds
<1>8. /\ added \in SUBSET Photos /\ s.photoUrls \subseteq added /\ added \subseteq stored'
      /\ Cardinality(added) <= MaxPhotos
  <2>1. s.photoUrls \in SUBSET Photos /\ s.photoUrls \subseteq stored
    BY <1>6 DEF R!Screen, ScreenOK
  <2>2. IsFiniteSet(s.photoUrls) /\ Cardinality(s.photoUrls) \in Nat
    BY <2>1, PhotoSets
  <2>3. CASE Cardinality(s.photoUrls) < MaxPhotos
    <3>1. added = s.photoUrls \cup {p}
      BY <1>3, <2>3, RecapCounts DEF R!Added
    <3>2. Cardinality(added) <= Cardinality(s.photoUrls) + 1
      BY <3>1, <2>2, FS_AddElement
    <3>3. Cardinality(added) \in Nat
      BY <3>1, <2>2, FS_AddElement, FS_CardinalityType
    <3> QED BY <1>1, <1>7, <2>1, <2>2, <2>3, <3>1, <3>2, <3>3, RecapConstants
  <2>4. CASE ~ (Cardinality(s.photoUrls) < MaxPhotos)
    <3>1. added = s.photoUrls
      BY <1>3, <2>4, RecapCounts DEF R!Added
    <3> QED BY <1>1, <1>6, <2>1, <3>1 DEF ScreenOK
  <2> QED BY <2>3, <2>4
<1>9. /\ t.todo = s.todo \ {p} /\ t.count = s.count - 1 /\ t.photoUrls = added
      /\ t.own = s.own \cup (added \ s.photoUrls)
      /\ t.at = s.at /\ t.chooser = s.chooser /\ t.late = s.late /\ t.seen = s.seen
      /\ t.removed = s.removed /\ t.answered = s.answered
  BY <1>4, <1>6 DEF R!Screen
<1>10. t \in R!Screen
  BY <1>4, <1>6, <1>7, <1>8 DEF R!Screen
<1>11. ScreenOK(t)'
  BY <1>6, <1>7, <1>8, <1>9, <1>10 DEF ScreenOK
<1>12. stored \subseteq stored' /\ stored' \in SUBSET Photos /\ chosen' \in SUBSET Photos
  BY <1>1, <1>7 DEF RecapInv
<1> QED BY <1>1, <1>5, <1>11, <1>12, RecapTurns

LEMMA RecapUploadFails ==
  ASSUME RecapInv, NEW m \in Doors, NEW p, R!UploadFails(m, p)
  PROVE  RecapInv'
<1>1. R!Server /\ stored' \in {stored, stored \cup {p}} /\ chosen' = chosen
  BY DEF R!UploadFails
<1>2. PICK s : s = screen[m]
  OBVIOUS
<1>3. PICK t : t = [s EXCEPT !.todo = @ \ {p}, !.count = @ - 1]
  OBVIOUS
<1>4. p \in s.todo /\ R!Turn(m, t)
  BY <1>2, <1>3 DEF R!UploadFails
<1>5. stored \subseteq stored'
  BY <1>1
<1>6. ScreenOK(s) /\ ScreenOK(s)' /\ s \in R!Screen
  BY <1>1, <1>2, <1>5, ScreenStays DEF ScreenOK, RecapInv
<1>7. /\ p \in Photos
      /\ s.todo \ {p} \in SUBSET Photos
      /\ s.count - 1 \in 0..R!Cardinality(Photos)
      /\ ~ s.chooser /\ s.at # "confirm"
      /\ Cardinality(s.todo \ {p}) <= s.count - 1
      /\ ~ s.late => s.count - 1 = Cardinality(s.todo \ {p})
  BY <1>4, <1>6, UploadEnds
<1>8. /\ t.todo = s.todo \ {p} /\ t.count = s.count - 1 /\ t.photoUrls = s.photoUrls
      /\ t.own = s.own /\ t.at = s.at /\ t.chooser = s.chooser /\ t.late = s.late
      /\ t.seen = s.seen /\ t.removed = s.removed /\ t.answered = s.answered
  BY <1>3, <1>6 DEF R!Screen
<1>9. t \in R!Screen
  BY <1>3, <1>6, <1>7 DEF R!Screen
<1>10. ScreenOK(t)'
  BY <1>6, <1>7, <1>8, <1>9 DEF ScreenOK
<1>11. stored' \in SUBSET Photos /\ chosen' \in SUBSET Photos
  BY <1>1, <1>7 DEF RecapInv
<1> QED BY <1>1, <1>4, <1>5, <1>10, <1>11, RecapTurns

LEMMA RecapRemoves ==
  ASSUME RecapInv, NEW m \in Doors, NEW p, R!RemovePhoto(m, p)
  PROVE  RecapInv'
<1>1. R!Server /\ R!Files
  BY DEF R!RemovePhoto
<1>2. PICK s : s = screen[m]
  OBVIOUS
<1>3. PICK t : t = [s EXCEPT !.photoUrls = @ \ {p}, !.removed = @ \cup {p}]
  OBVIOUS
<1>4. p \in s.photoUrls /\ R!Turn(m, t)
  BY <1>2, <1>3 DEF R!RemovePhoto
<1>5. ScreenOK(s)' /\ s \in R!Screen
  BY <1>1, <1>2, FilesStay, ScreenStays DEF ScreenOK
<1>6. /\ t.photoUrls = s.photoUrls \ {p} /\ t.removed = s.removed \cup {p}
      /\ t.todo = s.todo /\ t.count = s.count /\ t.own = s.own /\ t.at = s.at
      /\ t.chooser = s.chooser /\ t.late = s.late /\ t.seen = s.seen /\ t.answered = s.answered
  BY <1>3, <1>5 DEF R!Screen
<1>7. s.photoUrls \in SUBSET Photos /\ p \in Photos
  BY <1>4, <1>5 DEF R!Screen
<1>8. Cardinality(t.photoUrls) <= MaxPhotos
  <2>1. Cardinality(t.photoUrls) \in Nat /\ Cardinality(s.photoUrls) \in Nat
    BY <1>6, <1>7, PhotoSets
  <2>2. Cardinality(t.photoUrls) <= Cardinality(s.photoUrls)
    BY <1>6, <1>7, PhotoSets, FS_Subset
  <2> QED BY <1>5, <2>1, <2>2, RecapConstants DEF ScreenOK
<1>9. t \in R!Screen
  BY <1>3, <1>5, <1>7 DEF R!Screen
<1>10. ScreenOK(t)'
  BY <1>5, <1>6, <1>8, <1>9 DEF ScreenOK
<1> QED BY <1>1, <1>4, <1>10, FilesStay, RecapTurns

\* A page that goes to another place, and is otherwise as it was.
LEMMA RecapGoes ==
  ASSUME RecapInv, NEW m \in Doors, NEW at \in {"form", "confirm", "published"},
         stored' = stored, summary' = summary,
         at = "confirm" => screen[m].todo = {},
         screen[m].chooser => at \in {"form", "published"}
  PROVE  \A t : t = [screen[m] EXCEPT !.at = at] => ScreenOK(t)'
<1> SUFFICES ASSUME NEW t, t = [screen[m] EXCEPT !.at = at] PROVE ScreenOK(t)'
  OBVIOUS
<1>1. PICK s : s = screen[m]
  OBVIOUS
<1>2. ScreenOK(s)
  BY <1>1 DEF RecapInv
<1>3. ScreenOK(s)'
  BY <1>2, ScreenKept DEF RecapInv
<1>4. t \in R!Screen
  BY <1>1, <1>3 DEF ScreenOK, R!Screen
<1>5. /\ t.at = at /\ t.photoUrls = s.photoUrls /\ t.removed = s.removed
      /\ t.todo = s.todo /\ t.count = s.count /\ t.own = s.own
      /\ t.chooser = s.chooser /\ t.late = s.late /\ t.seen = s.seen /\ t.answered = s.answered
  BY <1>1, <1>3 DEF ScreenOK, R!Screen
<1> QED BY <1>1, <1>3, <1>4, <1>5 DEF ScreenOK

LEMMA RecapAsks ==
  ASSUME RecapInv, NEW m \in Doors, R!RequestPublish(m) \/ R!Dismiss(m)
  PROVE  RecapInv'
<1>1. R!Server /\ R!Files
  BY DEF R!RequestPublish, R!Dismiss
<1>2. ScreenOK(screen[m])
  BY DEF RecapInv
<1>3. PICK at \in {"form", "confirm"} :
         /\ R!Turn(m, [screen[m] EXCEPT !.at = at])
         /\ ~ screen[m].chooser /\ (at = "confirm" => screen[m].count = 0)
  BY DEF R!RequestPublish, R!Dismiss
<1>4. at = "confirm" => screen[m].todo = {}
  <2>1. screen[m].todo \in SUBSET Photos
    BY <1>2 DEF ScreenOK, R!Screen
  <2>2. Cardinality(screen[m].todo) \in Nat /\ IsFiniteSet(screen[m].todo)
    BY <2>1, PhotoSets
  <2>3. at = "confirm" => Cardinality(screen[m].todo) = 0
    BY <1>2, <1>3, <2>2 DEF ScreenOK
  <2> QED BY <2>2, <2>3, FS_EmptySet
<1>5. PICK t : t = [screen[m] EXCEPT !.at = at]
  OBVIOUS
<1>6. ScreenOK(t)'
  BY <1>1, <1>3, <1>4, <1>5, RecapGoes DEF R!Server, R!Files
<1> QED BY <1>1, <1>3, <1>5, <1>6, FilesStay, RecapTurns

-----------------------------------------------------------------------------
(* The requests to publish                                                 *)

\* A step of one request, which may turn its page to another place.
LEMMA RequestTurns ==
  ASSUME RecapInv, NEW m \in Doors, NEW r \in RecapRequest, RoomFor(r.photoUrls),
         request' = [request EXCEPT ![m] = r], R!Files,
         summary' \in [photoUrls : SUBSET Photos, version : Nat],
         RoomFor(summary'.photoUrls),
         summary' = summary \/ summary'.version > summary.version,
         NEW t, screen' = [screen EXCEPT ![m] = t], ScreenOK(t)',
         recaps' \in 0..MaxRecaps, Published'
  PROVE  RecapInv'
<1>1. stored' = stored /\ chosen' = chosen
  BY DEF R!Files
<1>2. screen' \in [Doors -> R!Screen]
  BY DEF RecapInv, ScreenOK
<1>3. ASSUME NEW n \in Doors PROVE ScreenOK(screen[n])'
  <2>1. PICK s : s = screen'[n]
    OBVIOUS
  <2>2. ScreenOK(s)'
    <3>1. CASE n = m
      BY <2>1, <3>1 DEF RecapInv
    <3>2. CASE n # m
      <4>1. s = screen[n]
        BY <2>1, <3>2 DEF RecapInv
      <4> QED BY <1>1, <4>1, ScreenKept DEF RecapInv
    <3> QED BY <3>1, <3>2
  <2> QED BY <2>1, <2>2
<1>4. (\A n \in Doors : ScreenOK(screen[n]))'
  BY <1>3
<1>5. request' \in [Doors -> RecapRequest] /\ (\A n \in Doors : RoomFor(request[n].photoUrls))'
  BY <1>1 DEF RecapInv, RoomFor
<1>6. RoomFor(summary.photoUrls)'
  BY <1>1 DEF RoomFor
<1> QED BY <1>1, <1>2, <1>4, <1>5, <1>6 DEF RecapInv

\* What a request that begins or ends to save adds to those that are saving.
LEMMA SavingTurns ==
  ASSUME RecapInv, NEW m \in Doors, NEW r \in RecapRequest, request' = [request EXCEPT ![m] = r]
  PROVE  /\ Cardinality(Saving)' \in Nat
         /\ Cardinality(Saving') <= Cardinality(Saving) + 1
         /\ r.pc # "save" => Cardinality(Saving') <= Cardinality(Saving)
         /\ r.pc # "save" /\ m \in Saving => Cardinality(Saving') = Cardinality(Saving) - 1
<1>1. Saving' = IF r.pc = "save" THEN Saving \cup {m} ELSE Saving \ {m}
  BY DEF Saving, RecapInv
<1>2. IsFiniteSet(Saving) /\ Cardinality(Saving) \in Nat
  BY SavingCount
<1>3. IsFiniteSet(Saving \cup {m}) /\ IsFiniteSet(Saving \ {m})
  BY <1>2, FS_AddElement, FS_RemoveElement
<1>4. /\ Cardinality(Saving \cup {m}) <= Cardinality(Saving) + 1
      /\ Cardinality(Saving \ {m}) = IF m \in Saving THEN Cardinality(Saving) - 1
                                     ELSE Cardinality(Saving)
      /\ Cardinality(Saving \cup {m}) \in Nat /\ Cardinality(Saving \ {m}) \in Nat
  BY <1>2, <1>3, FS_AddElement, FS_RemoveElement, FS_CardinalityType
<1>5. CASE r.pc = "save"
  <2>1. Cardinality(Saving') = Cardinality(Saving \cup {m})
    BY <1>1, <1>5
  <2> QED BY <1>2, <1>4, <1>5, <2>1
<1>6. CASE r.pc # "save"
  <2>1. Cardinality(Saving') = Cardinality(Saving \ {m})
    BY <1>1, <1>6
  <2> QED BY <1>2, <1>4, <1>6, <2>1
<1> QED BY <1>5, <1>6

LEMMA RecapConfirms ==
  ASSUME RecapInv, NEW m \in Doors, R!ConfirmPublish(m)
  PROVE  RecapInv'
<1>1. R!Files /\ summary' = summary /\ recaps < MaxRecaps /\ recaps' = recaps + 1
  BY DEF R!ConfirmPublish
<1>2. PICK t : t = [screen[m] EXCEPT !.at = "form"]
  OBVIOUS
<1>3. PICK r : r = [pc |-> "save", photoUrls |-> screen[m].photoUrls]
  OBVIOUS
<1>4. screen' = [screen EXCEPT ![m] = t] /\ request' = [request EXCEPT ![m] = r]
  BY <1>2, <1>3 DEF R!ConfirmPublish, R!Turn
<1>5. ScreenOK(t)'
  BY <1>1, <1>2, RecapGoes DEF R!Files
<1>6. r \in RecapRequest /\ RoomFor(r.photoUrls)
  BY <1>3 DEF RecapInv, ScreenOK, R!Screen, RoomFor, RecapRequest
<1>7. recaps' \in 0..MaxRecaps
  BY <1>1, RecapConstants DEF RecapInv
<1>8. Published'
  <2>1. Cardinality(Saving)' \in Nat /\ Cardinality(Saving') <= Cardinality(Saving) + 1
    BY <1>4, <1>6, SavingTurns
  <2> QED BY <1>1, <2>1, SavingCount DEF Published, RecapInv
<1> QED BY <1>1, <1>4, <1>5, <1>6, <1>7, <1>8, RequestTurns DEF RecapInv

LEMMA RecapSaves ==
  ASSUME RecapInv, NEW m \in Doors, R!Save(m) \/ R!Fail(m)
  PROVE  RecapInv'
<1>1. R!Files /\ screen' = screen /\ recaps' = recaps /\ request[m].pc = "save"
  BY DEF R!Save, R!Fail
<1>2. PICK pc \in {"ok", "error"} : R!Goes(m, pc)
  BY DEF R!Save, R!Fail
<1>3. PICK r : r = [request[m] EXCEPT !.pc = pc]
  OBVIOUS
<1>4. request' = [request EXCEPT ![m] = r]
  BY <1>2, <1>3 DEF R!Goes
<1>5. r \in RecapRequest /\ RoomFor(r.photoUrls) /\ r.pc # "save"
  BY <1>3 DEF RecapInv, RecapRequest
<1>6. /\ summary' \in [photoUrls : SUBSET Photos, version : Nat]
      /\ RoomFor(summary'.photoUrls)
      /\ summary' = summary \/ summary'.version > summary.version
      /\ summary'.version <= summary.version + 1
  BY DEF R!Save, R!Fail, RecapInv, RecapRequest
<1>7. Published'
  <2>1. Cardinality(Saving)' \in Nat /\ Cardinality(Saving') = Cardinality(Saving) - 1
    BY <1>1, <1>4, <1>5, SavingTurns DEF Saving
  <2> QED BY <1>1, <1>6, <2>1, SavingCount DEF Published, RecapInv
<1>8. PICK t : t = screen[m]
  OBVIOUS
<1>9. ScreenOK(t)' /\ screen' = [screen EXCEPT ![m] = t]
  BY <1>1, <1>6, <1>8, ScreenKept DEF RecapInv, R!Files
<1> QED BY <1>1, <1>4, <1>5, <1>6, <1>7, <1>9, RequestTurns DEF RecapInv

LEMMA RecapAnswers ==
  ASSUME RecapInv, NEW m \in Doors, R!Answer(m)
  PROVE  RecapInv'
<1>1. R!Files /\ summary' = summary /\ recaps' = recaps
  BY DEF R!Answer
<1>2. PICK t : t = IF screen[m].at # "closed" /\ request[m].pc = "ok"
                   THEN [screen[m] EXCEPT !.at = "published"] ELSE screen[m]
  OBVIOUS
<1>3. screen' = [screen EXCEPT ![m] = t]
  BY <1>2 DEF R!Answer, R!Turn
<1>4. ScreenOK(t)'
  <2>1. CASE t = screen[m]
    BY <1>1, <2>1, ScreenKept DEF RecapInv, R!Files
  <2>2. CASE t = [screen[m] EXCEPT !.at = "published"]
    BY <1>1, <2>2, RecapGoes DEF R!Files
  <2> QED BY <1>2, <2>1, <2>2
<1>5. PICK r : r = R!Idle
  OBVIOUS
<1>6. request' = [request EXCEPT ![m] = r]
  BY <1>5 DEF R!Answer
<1>7. r \in RecapRequest /\ RoomFor(r.photoUrls) /\ r.pc # "save"
  BY <1>5, NoPhotos, RecapConstants DEF R!Idle, RecapRequest, RoomFor
<1>8. Published'
  <2>1. Cardinality(Saving)' \in Nat /\ Cardinality(Saving') <= Cardinality(Saving)
    BY <1>6, <1>7, SavingTurns
  <2> QED BY <1>1, <2>1, SavingCount DEF Published, RecapInv
<1> QED BY <1>1, <1>3, <1>4, <1>6, <1>7, <1>8, RequestTurns DEF RecapInv

LEMMA RecapInit == R!Init => RecapInv
<1> SUFFICES ASSUME R!Init PROVE RecapInv
  OBVIOUS
<1>1. summary.photoUrls = {} /\ summary.version = 0 /\ stored = {} /\ chosen = {} /\ recaps = 0
      /\ summary \in [photoUrls : SUBSET Photos, version : Nat]
  BY DEF R!Init
<1>2. Saving = {}
  BY DEF R!Init, Saving, R!Idle
<1>3. 0 \in 0..R!Cardinality(Photos) /\ 0 \in 0..MaxRecaps
  BY PhotoSets, RecapCounts, RecapConstants
<1>4. R!Closed \in R!Screen
  BY <1>3 DEF R!Closed, R!Screen
<1>5. ScreenOK(R!Closed)
  BY <1>1, <1>4, NoPhotos, RecapConstants DEF ScreenOK, R!Closed
<1>6. screen \in [Doors -> R!Screen] /\ \A m \in Doors : ScreenOK(screen[m])
  BY <1>4, <1>5 DEF R!Init
<1>7. RoomFor({})
  BY NoPhotos, RecapConstants DEF RoomFor
<1>8. request \in [Doors -> RecapRequest] /\ \A m \in Doors : RoomFor(request[m].photoUrls)
  BY <1>7 DEF R!Init, R!Idle, RecapRequest
<1> QED BY <1>1, <1>2, <1>3, <1>6, <1>7, <1>8, NoPhotos DEF RecapInv, Published

LEMMA RecapNext == RecapInv /\ R!Next => RecapInv'
<1> SUFFICES ASSUME RecapInv, R!Next PROVE RecapInv'
  OBVIOUS
<1>1. PICK m \in Doors :
         \/ R!Open(m) \/ R!Leave(m) \/ R!Seed(m) \/ R!Choose(m)
         \/ R!RequestPublish(m) \/ R!Dismiss(m) \/ R!ConfirmPublish(m)
         \/ \E files \in SUBSET Photos : R!OnPickPhotos(m, files)
         \/ \E p \in Photos : R!Uploaded(m, p) \/ R!UploadFails(m, p) \/ R!RemovePhoto(m, p)
         \/ R!Save(m) \/ R!Fail(m) \/ R!Answer(m)
  BY Zenon DEF R!Next
<1> QED BY <1>1, RecapOpens, RecapSeed, RecapChoose, RecapPicks, RecapUploaded,
           RecapUploadFails, RecapRemoves, RecapAsks, RecapConfirms, RecapSaves, RecapAnswers

LEMMA RecapStutters == RecapInv /\ UNCHANGED recapVars => RecapInv'
<1> SUFFICES ASSUME RecapInv, UNCHANGED recapVars PROVE RecapInv'
  OBVIOUS
<1> USE DEF recapVars
<1>1. (\A m \in Doors : ScreenOK(screen[m]))'
  BY DEF RecapInv, ScreenOK
<1> QED BY <1>1 DEF RecapInv, RoomFor, Published, Saving

-----------------------------------------------------------------------------
(* The questions                                                           *)

Askers == Users \ Browsing
Entries(d, u) == {e \in d.voters : e[1] = u}

\* The calls of the askers about a question that are under way.
Pending(q) ==
    {x \in Askers \X {1, 2} : hand[x[1]][x[2]].pc # "idle" /\ hand[x[1]][x[2]].q = q}

\* Every version, and every call that may yet raise it, was a tap; every entry
\* of a voter has raised it.
VersionOK(q) ==
    /\ board[q].version + Cardinality(Pending(q)) <= taps
    /\ Cardinality(board[q].voters) <= board[q].version

\* What a call has loaded is the document as it is, unless that has been saved
\* since.
CallOK(c) ==
    /\ c \in Q!Call /\ c.pc \in {"idle", "upvote", "withdraw"}
    /\ c.pc # "idle" =>
          /\ c.q \in DOMAIN board
          /\ c.doc.version <= board[c.q].version
          /\ c.doc.version = board[c.q].version => c.doc.voters = board[c.q].voters

\* A member whose last tap on a question is not in doubt has one call about it
\* at most, which turns his vote to what he meant.
VoteOK(u, q) ==
    vote[u][q] # "unsure" =>
       /\ \A i, j \in Q!Under(u, q) : i = j
       /\ Q!Under(u, q) = {} =>
             Entries(board[q], u) = IF vote[u][q] = "in" THEN {<<u, 0>>} ELSE {}
       /\ \A i \in Q!Under(u, q) :
             \/ /\ hand[u][i].pc = "upvote" /\ vote[u][q] = "in"
                /\ Entries(board[q], u) = {}
             \/ /\ hand[u][i].pc = "withdraw" /\ vote[u][q] = "out"
                /\ Entries(board[q], u) = {<<u, 0>>}

\* A host's box is open at a question; he resolves what has an answer.
DeskOK(d) ==
    /\ d \in Q!Desk
    /\ d.at # 0 => d.at \in DOMAIN board
    /\ d.text => d.at # 0
    /\ d.call.pc \in {"idle", "answer", "pin", "resolve"}
    /\ d.call.pc # "idle" => d.call.q \in DOMAIN board
    /\ d.call.pc = "resolve" => board[d.call.q].answer # NoUser

BoardInv ==
    /\ \E n \in 0..MaxQuestions : board \in [1..n -> Q!Question]
    /\ \A q \in DOMAIN board : VersionOK(q)
    /\ Q!ResolvedAreAnswered
HandInv ==
    /\ hand \in [Askers -> [{1, 2} -> Q!Call]]
    /\ \A u \in Askers, i \in {1, 2} : CallOK(hand[u][i])
VoteInv ==
    /\ vote \in [Askers -> [Q!Asked -> {"in", "out", "unsure"}]]
    /\ \A u \in Askers, q \in Q!Asked \ DOMAIN board : vote[u][q] = "out"
    /\ \A u \in Askers, q \in DOMAIN board : VoteOK(u, q)
DeskInv == desk \in [Hosts -> Q!Desk] /\ \A h \in Hosts : DeskOK(desk[h])
QuestionsInv == taps \in 0..MaxTaps /\ BoardInv /\ HandInv /\ VoteInv /\ DeskInv

LEMMA QuestionsCounts ==
  /\ \A S : Q!Cardinality(S) = Cardinality(S)
  /\ \A S : Q!IsFiniteSet(S) <=> IsFiniteSet(S)
  BY DEF Q!Cardinality, Cardinality, Q!IsFiniteSet, IsFiniteSet

LEMMA QuestionsConstants ==
  /\ IsFiniteSet(Askers) /\ NoUser \notin Hosts
  /\ MaxQuestions \in Nat /\ MaxTaps \in Nat
<1>1. IsFiniteSet(Askers)
  BY UsersAssumption, FS_Difference DEF Askers
<1> QED BY <1>1, PartsAssumption DEF Q!QuestionsAssumption

LEMMA VoterSets ==
  ASSUME NEW d \in Q!Question
  PROVE  /\ IsFiniteSet(d.voters) /\ Cardinality(d.voters) \in Nat
         /\ \A u : /\ IsFiniteSet(Entries(d, u)) /\ Cardinality(Entries(d, u)) \in Nat
                   /\ Cardinality(Entries(d, u)) <= Cardinality(d.voters)
<1>1. IsFiniteSet(Askers \X (0..MaxTaps))
  <2>1. IsFiniteSet(0..MaxTaps)
    BY QuestionsConstants, FS_Interval
  <2> QED BY <2>1, QuestionsConstants, FS_Product
<1>2. d.voters \in SUBSET (Askers \X (0..MaxTaps))
  BY DEF Q!Question, Askers
<1>3. IsFiniteSet(d.voters)
  BY <1>1, <1>2, FS_Subset
<1>4. ASSUME NEW u
      PROVE  /\ IsFiniteSet(Entries(d, u))
             /\ Cardinality(Entries(d, u)) <= Cardinality(d.voters)
  <2>1. Entries(d, u) \in SUBSET d.voters
    BY DEF Entries
  <2> QED BY <1>3, <2>1, FS_Subset
<1> QED BY <1>3, <1>4, FS_CardinalityType

LEMMA PendingSets ==
  ASSUME NEW q
  PROVE  IsFiniteSet(Pending(q)) /\ Cardinality(Pending(q)) \in Nat
<1>1. IsFiniteSet({1, 2})
  <2>1. IsFiniteSet({1} \cup {2})
    BY FS_Singleton, FS_Union
  <2>2. {1} \cup {2} = {1, 2}
    OBVIOUS
  <2> QED BY <2>1, <2>2
<1>2. IsFiniteSet(Askers \X {1, 2})
  BY <1>1, QuestionsConstants, FS_Product
<1>3. Pending(q) \in SUBSET (Askers \X {1, 2})
  BY DEF Pending
<1> QED BY <1>2, <1>3, FS_Subset, FS_CardinalityType

LEMMA QuestionsImply == QuestionsInv => Q!TypeOK /\ Q!QuestionsWork
<1> SUFFICES ASSUME QuestionsInv PROVE Q!TypeOK /\ Q!QuestionsWork
  OBVIOUS
<1>1. PICK n \in 0..MaxQuestions : board \in [1..n -> Q!Question]
  BY DEF QuestionsInv, BoardInv
<1>2. Q!Open = 1..n /\ Q!Open = DOMAIN board
  BY <1>1 DEF Q!Open
<1>3. Q!TypeOK
  BY <1>1, <1>2 DEF Q!TypeOK, QuestionsInv, HandInv, VoteInv, DeskInv, Askers
<1>4. Q!VotesCounted
  <2>1. ASSUME NEW u \in Askers, NEW q \in DOMAIN board, vote[u][q] # "unsure"
        PROVE  /\ Cardinality(Entries(board[q], u)) <= 1
               /\ Q!Under(u, q) = {} => (vote[u][q] = "in" <=> u \in Q!Voters(board[q]))
    <3>1. VoteOK(u, q)
      BY DEF QuestionsInv, VoteInv
    <3>2. Entries(board[q], u) \in {{}, {<<u, 0>>}}
      BY <2>1, <3>1 DEF VoteOK
    <3>3. u \in Q!Voters(board[q]) <=> Entries(board[q], u) # {}
      BY DEF Q!Voters, Entries
    <3>4. Cardinality(Entries(board[q], u)) <= 1
      <4>1. Cardinality({<<u, 0>>}) = 1
        BY FS_Singleton, Zenon
      <4>2. Cardinality({}) = 0
        BY FS_EmptySet
      <4> QED BY <3>2, <4>1, <4>2
    <3> QED BY <2>1, <3>1, <3>3, <3>4 DEF VoteOK
  <2> QED BY <2>1, <1>2, QuestionsCounts DEF Q!VotesCounted, Entries, Askers
<1>5. Q!TriageAgrees
  <2>1. \A q \in Q!Unanswered, r \in Q!Open \ Q!Unanswered : Q!BeforeAtDesk(q, r)
    BY DEF Q!Unanswered, Q!BeforeAtDesk, Q!Rank
  <2>2. Q!Unanswered \subseteq Q!Filtered("open")
    BY DEF Q!Unanswered, Q!Filtered
  <2>3. PICK os, rs : os = Q!Filtered("open") /\ rs = Q!Filtered("resolved")
    OBVIOUS
  <2>4. os \cup rs = Q!Open /\ os \cap rs = {}
    BY <2>3 DEF Q!Filtered
  <2>5. IsFiniteSet(Q!Open)
    BY <1>2, FS_Interval
  <2>6. IsFiniteSet(os) /\ IsFiniteSet(rs)
    BY <2>4, <2>5, FS_Subset
  <2>7. Cardinality(os \cup rs) = Cardinality(os) + Cardinality(rs) - Cardinality(os \cap rs)
    BY <2>6, FS_Union
  <2>8. Cardinality(os \cap rs) = 0 /\ Cardinality(os) \in Nat /\ Cardinality(rs) \in Nat
    BY <2>4, <2>6, FS_EmptySet, FS_CardinalityType
  <2>9. Cardinality(os) + Cardinality(rs) = Cardinality(Q!Open)
    <3>1. Cardinality(os \cup rs) = Cardinality(os) + Cardinality(rs)
      BY <2>7, <2>8
    <3> QED BY <2>4, <3>1, Zenon
  <2> QED BY <2>1, <2>2, <2>3, <2>9, QuestionsCounts DEF Q!TriageAgrees
<1> QED BY <1>3, <1>4, <1>5 DEF Q!QuestionsWork, QuestionsInv, BoardInv

LEMMA NewQuestionOK ==
  /\ Q!NewQuestion \in Q!Question
  /\ Q!NewQuestion.version = 0 /\ Q!NewQuestion.voters = {} /\ Q!NewQuestion.resolved = FALSE
  BY QuestionsConstants DEF Q!NewQuestion, Q!Question

LEMMA NoCallOK == CallOK(Q!NoCall) /\ Q!NoCall \in Q!Call /\ Q!NoCall.pc = "idle"
  BY NewQuestionOK, QuestionsConstants DEF CallOK, Q!NoCall, Q!Call, Q!Pc

LEMMA QuestionsInit == Q!Init => QuestionsInv
<1> SUFFICES ASSUME Q!Init PROVE QuestionsInv
  OBVIOUS
<1>1. board = <<>> /\ taps = 0 /\ DOMAIN board = {}
  BY DEF Q!Init
<1>2. BoardInv
  <2>1. board \in [1..0 -> Q!Question] /\ 0 \in 0..MaxQuestions
    BY <1>1, QuestionsConstants
  <2> QED BY <1>1, <2>1 DEF BoardInv, Q!ResolvedAreAnswered, Q!Open
<1>3. HandInv
  BY NoCallOK DEF Q!Init, HandInv, Askers
<1>4. VoteInv
  BY <1>1 DEF Q!Init, VoteInv, Askers
<1>5. DeskInv
  <2>1. [at |-> 0, text |-> FALSE, call |-> Q!NoCall] \in Q!Desk
    BY NoCallOK, QuestionsConstants DEF Q!Desk
  <2>2. DeskOK([at |-> 0, text |-> FALSE, call |-> Q!NoCall])
    BY <2>1, NoCallOK DEF DeskOK
  <2> QED BY <2>1, <2>2 DEF Q!Init, DeskInv
<1> QED BY <1>1, <1>2, <1>3, <1>4, <1>5, QuestionsConstants DEF QuestionsInv

LEMMA QuestionsStutter == QuestionsInv /\ UNCHANGED boardVars => QuestionsInv'
<1> SUFFICES ASSUME QuestionsInv, UNCHANGED boardVars PROVE QuestionsInv'
  OBVIOUS
<1> USE DEF boardVars, QuestionsInv
<1>1. BoardInv'
  BY DEF BoardInv, VersionOK, Pending, Q!ResolvedAreAnswered, Q!Open
<1>2. HandInv'
  BY DEF HandInv, CallOK
<1>3. VoteInv'
  BY DEF VoteInv, VoteOK, Q!Under
<1>4. DeskInv'
  BY DEF DeskInv, DeskOK
<1> QED BY <1>1, <1>2, <1>3, <1>4

-----------------------------------------------------------------------------
(* Steps of the questions                                                  *)

\* A step that leaves the hands alone, and of every document what a voter sees.
LEMMA VotesUntouched ==
  ASSUME QuestionsInv, hand' = hand, vote' = vote, taps' \in Nat, taps <= taps',
         DOMAIN board \subseteq DOMAIN board',
         \A q \in DOMAIN board : /\ board'[q].voters = board[q].voters
                                 /\ board'[q].version = board[q].version
  PROVE  /\ HandInv'
         /\ \A q \in DOMAIN board : VersionOK(q)'
         /\ \A u \in Askers, q \in DOMAIN board : VoteOK(u, q)'
<1>1. HandInv'
  BY DEF QuestionsInv, HandInv, CallOK
<1>2. ASSUME NEW q \in DOMAIN board PROVE VersionOK(q)'
  <2>1. Pending(q)' = Pending(q)
    BY DEF Pending
  <2>2. VersionOK(q) /\ Cardinality(Pending(q)) \in Nat
    BY PendingSets DEF QuestionsInv, BoardInv
  <2>3. board[q].version \in Nat
    BY DEF QuestionsInv, BoardInv, Q!Question
  <2>4. taps \in Nat
    BY QuestionsConstants DEF QuestionsInv
  <2> QED BY <2>1, <2>2, <2>3, <2>4 DEF VersionOK
<1>3. ASSUME NEW u \in Askers, NEW q \in DOMAIN board PROVE VoteOK(u, q)'
  <2>1. Entries(board[q], u)' = Entries(board[q], u) /\ Q!Under(u, q)' = Q!Under(u, q)
    BY DEF Entries, Q!Under
  <2> QED BY <2>1 DEF QuestionsInv, VoteInv, VoteOK
<1> QED BY <1>1, <1>2, <1>3

LEMMA QuestionsAsk ==
  ASSUME QuestionsInv, NEW u \in Askers, Q!Ask(u)
  PROVE  QuestionsInv'
<1>1. /\ hand' = hand /\ desk' = desk /\ vote' = vote /\ taps' = taps + 1 /\ taps < MaxTaps
  BY DEF Q!Ask, Q!Tapping
<1>2. PICK n \in 0..MaxQuestions : board \in [1..n -> Q!Question]
  BY DEF QuestionsInv, BoardInv
<1>3. Cardinality(1..n) = n /\ Q!Open = 1..n
  <2>1. n \in Int /\ 1 \in Int
    OBVIOUS
  <2>2. Cardinality(1..n) = IF 1 > n THEN 0 ELSE n - 1 + 1
    BY <2>1, FS_Interval
  <2> QED BY <1>2, <2>2 DEF Q!Open
<1>4. /\ n < MaxQuestions
      /\ board' = [q \in 1..n + 1 |-> IF q \in 1..n THEN board[q] ELSE Q!NewQuestion]
  BY <1>3, QuestionsCounts DEF Q!Ask
<1>5. n + 1 \in 0..MaxQuestions /\ board' \in [1..n + 1 -> Q!Question]
  BY <1>2, <1>4, NewQuestionOK, QuestionsConstants
<1>6. /\ DOMAIN board = 1..n /\ DOMAIN board' = 1..n + 1 /\ DOMAIN board \subseteq DOMAIN board'
      /\ \A q \in DOMAIN board : board'[q] = board[q]
      /\ board'[n + 1] = Q!NewQuestion
      /\ \A q \in DOMAIN board' : q \in DOMAIN board \/ q = n + 1
  BY <1>2, <1>4
<1>7. taps' \in 0..MaxTaps /\ taps \in Nat /\ taps' \in Nat /\ taps <= taps'
  BY <1>1, QuestionsConstants DEF QuestionsInv
<1>8. /\ HandInv'
      /\ \A q \in DOMAIN board : VersionOK(q)'
      /\ \A v \in Askers, q \in DOMAIN board : VoteOK(v, q)'
  BY <1>1, <1>6, <1>7, VotesUntouched
<1>9. VersionOK(n + 1)'
  <2>1. Pending(n + 1)' = {}
    <3>1. n + 1 \notin DOMAIN board
      BY <1>2
    <3>2. \A x \in Askers \X {1, 2} : hand[x[1]][x[2]].pc # "idle" => hand[x[1]][x[2]].q # n + 1
      BY <3>1 DEF QuestionsInv, HandInv, CallOK
    <3> QED BY <1>1, <3>2 DEF Pending
  <2>2. board'[n + 1].version = 0 /\ board'[n + 1].voters = {}
    BY <1>6, NewQuestionOK
  <2>3. Cardinality({}) = 0
    BY FS_EmptySet
  <2>4. Cardinality(Pending(n + 1)') = 0 /\ Cardinality(board'[n + 1].voters) = 0
    BY <2>1, <2>2, <2>3
  <2> QED BY <1>7, <2>2, <2>4 DEF VersionOK
<1>10. BoardInv'
  <2>1. (\A q \in DOMAIN board : VersionOK(q))'
    BY <1>6, <1>8, <1>9
  <2>2. Q!ResolvedAreAnswered'
    BY <1>6, NewQuestionOK DEF QuestionsInv, BoardInv, Q!ResolvedAreAnswered, Q!Open
  <2> QED BY <1>5, <2>1, <2>2 DEF BoardInv
<1>11. VoteInv'
  <2>1. ASSUME NEW v \in Askers PROVE VoteOK(v, n + 1)'
    <3>1. n + 1 \in Q!Asked \ DOMAIN board
      BY <1>2, <1>5 DEF Q!Asked
    <3>2. vote[v][n + 1] = "out"
      BY <3>1 DEF QuestionsInv, VoteInv
    <3>3. Q!Under(v, n + 1)' = {}
      BY <1>1, <3>1 DEF Q!Under, QuestionsInv, HandInv, CallOK
    <3>4. Entries(board[n + 1], v)' = {}
      BY <1>6, NewQuestionOK DEF Entries
    <3> QED BY <1>1, <3>2, <3>3, <3>4 DEF VoteOK
  <2>2. (\A v \in Askers, q \in DOMAIN board : VoteOK(v, q))'
    BY <1>6, <1>8, <2>1
  <2>3. (\A v \in Askers, q \in Q!Asked \ DOMAIN board : vote[v][q] = "out")'
    BY <1>1, <1>6 DEF QuestionsInv, VoteInv
  <2> QED BY <1>1, <2>2, <2>3 DEF QuestionsInv, VoteInv
<1>12. DeskInv'
  <2>1. ASSUME NEW h \in Hosts PROVE DeskOK(desk[h])'
    BY <1>1, <1>6 DEF QuestionsInv, DeskInv, DeskOK
  <2> QED BY <1>1, <2>1 DEF QuestionsInv, DeskInv
<1> QED BY <1>7, <1>8, <1>10, <1>11, <1>12 DEF QuestionsInv

LEMMA AskedQuestions ==
  ASSUME QuestionsInv
  PROVE  \A q \in DOMAIN board : q \in Q!Asked /\ board[q] \in Q!Question
<1>1. PICK n \in 0..MaxQuestions : board \in [1..n -> Q!Question]
  BY DEF QuestionsInv, BoardInv
<1>2. 1..n \subseteq Q!Asked
  BY QuestionsConstants DEF Q!Asked
<1> QED BY <1>1, <1>2

LEMMA QuestionsTap ==
  ASSUME QuestionsInv, NEW u \in Askers, NEW q \in Q!Open, NEW lit \in BOOLEAN,
         Q!TapArrow(u, q, lit)
  PROVE  QuestionsInv'
<1>1. board' = board /\ desk' = desk /\ taps' = taps + 1 /\ taps < MaxTaps
  BY DEF Q!TapArrow, Q!Tapping
<1>2. PICK pc \in {"withdraw", "upvote"} : pc = "withdraw" <=> u \in Q!Voters(board[q])
  OBVIOUS
<1>3. PICK c : c = [pc |-> pc, q |-> q, doc |-> board[q]]
  OBVIOUS
<1>4. PICK i \in {1, 2} : hand[u][i] = Q!NoCall /\ hand' = [hand EXCEPT ![u][i] = c]
  BY <1>2, <1>3 DEF Q!TapArrow, Q!Loaded
<1>5. q \in DOMAIN board /\ board[q] \in Q!Question /\ q \in Q!Asked
  BY AskedQuestions DEF Q!Open
<1>6. q \in 0..MaxQuestions
  BY <1>5, QuestionsConstants DEF Q!Asked
<1>7. /\ c \in Q!Call /\ CallOK(c) /\ c.pc = pc /\ c.q = q
      /\ hand[u][i].pc = "idle"
  BY <1>2, <1>3, <1>4, <1>5, <1>6, NoCallOK DEF Q!Call, Q!Pc, CallOK, Q!Question
<1>8. /\ hand' \in [Askers -> [{1, 2} -> Q!Call]]
      /\ hand'[u][i] = c
      /\ \A v \in Askers, j \in {1, 2} : <<v, j>> # <<u, i>> => hand'[v][j] = hand[v][j]
      /\ \A v \in Askers : \A r : v # u => Q!Under(v, r)' = Q!Under(v, r)
  <2>1. hand \in [Askers -> [{1, 2} -> Q!Call]]
    BY DEF QuestionsInv, HandInv
  <2>2. /\ hand' \in [Askers -> [{1, 2} -> Q!Call]] /\ hand'[u][i] = c
        /\ \A v \in Askers, j \in {1, 2} : <<v, j>> # <<u, i>> => hand'[v][j] = hand[v][j]
    BY <1>4, <1>7, <2>1
  <2>3. \A v \in Askers : \A r : v # u => Q!Under(v, r)' = Q!Under(v, r)
    BY <2>2 DEF Q!Under
  <2> QED BY <2>2, <2>3
<1>9. taps' \in 0..MaxTaps /\ taps \in Nat
  BY <1>1, QuestionsConstants DEF QuestionsInv
<1>10. HandInv'
  <2>1. ASSUME NEW v \in Askers, NEW j \in {1, 2} PROVE CallOK(hand'[v][j])
    BY <1>7, <1>8 DEF QuestionsInv, HandInv
  <2>2. \A v \in Askers, j \in {1, 2} : CallOK(hand[v][j])'
    BY <1>1, <2>1 DEF CallOK
  <2> QED BY <1>8, <2>2 DEF HandInv
<1>11. BoardInv'
  <2>1. ASSUME NEW r \in DOMAIN board PROVE VersionOK(r)'
    <3>1. VersionOK(r)
      BY DEF QuestionsInv, BoardInv
    <3>2. Cardinality(Pending(r)') <= Cardinality(Pending(r)) + 1 /\ Cardinality(Pending(r)') \in Nat
      <4>1. CASE r = q
        <5>1. Pending(r)' = Pending(r) \cup {<<u, i>>}
          BY <1>2, <1>7, <1>8, <4>1 DEF Pending
        <5>2. Cardinality(Pending(r) \cup {<<u, i>>}) <= Cardinality(Pending(r)) + 1
          <6>1. PICK ps : ps = Pending(r)
            OBVIOUS
          <6>2. IsFiniteSet(ps) /\ Cardinality(ps) \in Nat
            BY <6>1, PendingSets
          <6>3. Cardinality(ps \cup {<<u, i>>}) =
                   IF <<u, i>> \in ps THEN Cardinality(ps) ELSE Cardinality(ps) + 1
            BY <6>2, FS_AddElement
          <6>4. Cardinality(ps \cup {<<u, i>>}) <= Cardinality(ps) + 1
            BY <6>2, <6>3
          <6> QED BY <6>1, <6>4
        <5>3. IsFiniteSet(Pending(r) \cup {<<u, i>>})
          BY PendingSets, FS_AddElement
        <5>4. Cardinality(Pending(r) \cup {<<u, i>>}) \in Nat
          BY <5>3, FS_CardinalityType
        <5> QED BY <5>1, <5>2, <5>4
      <4>2. CASE r # q
        <5>1. Pending(r)' = Pending(r)
          BY <1>7, <1>8, <4>2 DEF Pending
        <5> QED BY <5>1, PendingSets
      <4> QED BY <4>1, <4>2
    <3>3. Cardinality(Pending(r)) \in Nat
      BY PendingSets
    <3>4. board[r].version \in Nat
      BY DEF QuestionsInv, BoardInv, Q!Question
    <3> QED BY <1>1, <1>9, <3>1, <3>2, <3>3, <3>4 DEF VersionOK
  <2>2. (\A r \in DOMAIN board : VersionOK(r))'
    BY <1>1, <2>1
  <2> QED BY <1>1, <2>2 DEF QuestionsInv, BoardInv, Q!ResolvedAreAnswered, Q!Open
<1>12. VoteInv'
  <2>1. PICK mind : mind = IF Q!Under(u, q) # {} \/ vote[u][q] = "unsure"
                              \/ lit # (u \in Q!Voters(board[q]))
                           THEN "unsure" ELSE IF lit THEN "out" ELSE "in"
    OBVIOUS
  <2>2. vote' = [vote EXCEPT ![u][q] = mind]
    BY <2>1, Zenon DEF Q!TapArrow
  <2>3. vote \in [Askers -> [Q!Asked -> {"in", "out", "unsure"}]] /\ mind \in {"in", "out", "unsure"}
    BY <2>1 DEF QuestionsInv, VoteInv
  <2>4. \A v \in Askers, r \in Q!Asked :
           vote'[v][r] = IF v = u /\ r = q THEN mind ELSE vote[v][r]
    BY <1>5, <2>2, <2>3
  <2>5. vote' \in [Askers -> [Q!Asked -> {"in", "out", "unsure"}]]
    BY <2>2, <2>3
  <2>6. (\A v \in Askers, r \in Q!Asked \ DOMAIN board : vote[v][r] = "out")'
    BY <1>1, <1>5, <2>4 DEF QuestionsInv, VoteInv
  <2>7. ASSUME NEW v \in Askers, NEW r \in DOMAIN board PROVE VoteOK(v, r)'
    <3>1. VoteOK(v, r) /\ r \in Q!Asked
      BY AskedQuestions DEF QuestionsInv, VoteInv
    <3>2. Entries(board[r], v)' = Entries(board[r], v)
      BY <1>1 DEF Entries
    <3>3. CASE v = u /\ r = q
      <4>1. CASE mind = "unsure"
        BY <2>4, <3>1, <3>3, <4>1 DEF VoteOK
      <4>2. CASE mind # "unsure"
        <5>1. /\ Q!Under(u, q) = {} /\ vote[u][q] # "unsure"
              /\ mind = IF pc = "withdraw" THEN "out" ELSE "in"
          BY <1>2, <2>1, <4>2
        <5>2. Q!Under(u, q)' = {i}
          BY <1>2, <1>7, <1>8, <5>1 DEF Q!Under
        <5>3. u \in Q!Voters(board[q]) <=> Entries(board[q], u) # {}
          BY DEF Q!Voters, Entries
        <5>4. Entries(board[q], u) = IF pc = "withdraw" THEN {<<u, 0>>} ELSE {}
          BY <1>2, <3>1, <3>3, <5>1, <5>3 DEF VoteOK
        <5>5. vote'[u][q] = mind
          BY <2>4, <3>1, <3>3
        <5> QED BY <1>2, <1>7, <1>8, <3>2, <3>3, <5>1, <5>2, <5>4, <5>5 DEF VoteOK
      <4> QED BY <4>1, <4>2
    <3>4. CASE ~ (v = u /\ r = q)
      <4>1. vote'[v][r] = vote[v][r]
        BY <2>4, <3>1, <3>4
      <4>2. Q!Under(v, r)' = Q!Under(v, r)
        <5>1. CASE v # u
          BY <1>8, <5>1
        <5>2. CASE v = u
          BY <1>7, <1>8, <3>4, <5>2 DEF Q!Under
        <5> QED BY <5>1, <5>2
      <4>3. \A j \in Q!Under(v, r) : hand'[v][j] = hand[v][j]
        BY <1>7, <1>8 DEF Q!Under
      <4> QED BY <3>1, <3>2, <4>1, <4>2, <4>3 DEF VoteOK
    <3> QED BY <3>3, <3>4
  <2>8. (\A v \in Askers, r \in DOMAIN board : VoteOK(v, r))'
    BY <1>1, <2>7
  <2> QED BY <2>5, <2>6, <2>8 DEF VoteInv
<1>13. DeskInv'
  BY <1>1 DEF QuestionsInv, DeskInv, DeskOK
<1> QED BY <1>9, <1>10, <1>11, <1>12, <1>13 DEF QuestionsInv

LEMMA PendingLess ==
  ASSUME NEW q, NEW x \in Pending(q)
  PROVE  /\ Cardinality(Pending(q) \ {x}) \in Nat
         /\ Cardinality(Pending(q) \ {x}) = Cardinality(Pending(q)) - 1
<1>1. PICK ps : ps = Pending(q)
  OBVIOUS
<1>2. IsFiniteSet(ps) /\ Cardinality(ps) \in Nat
  BY <1>1, PendingSets
<1>3. Cardinality(ps \ {x}) = Cardinality(ps) - 1 /\ IsFiniteSet(ps \ {x})
  BY <1>1, <1>2, FS_RemoveElement
<1>4. Cardinality(ps \ {x}) \in Nat
  BY <1>3, FS_CardinalityType
<1> QED BY <1>1, <1>3, <1>4

\* A call that ends.
LEMMA HandEnds ==
  ASSUME QuestionsInv, NEW u \in Askers, NEW i \in {1, 2},
         hand' = [hand EXCEPT ![u][i] = Q!NoCall]
  PROVE  /\ hand' \in [Askers -> [{1, 2} -> Q!Call]]
         /\ hand'[u][i] = Q!NoCall /\ hand'[u][i].pc = "idle"
         /\ \A v \in Askers, j \in {1, 2} : <<v, j>> # <<u, i>> => hand'[v][j] = hand[v][j]
<1>1. PICK c : c = Q!NoCall
  OBVIOUS
<1>2. c \in Q!Call /\ c.pc = "idle" /\ hand' = [hand EXCEPT ![u][i] = c]
  BY <1>1, NoCallOK
<1>3. hand \in [Askers -> [{1, 2} -> Q!Call]]
  BY DEF QuestionsInv, HandInv
<1>4. /\ hand' \in [Askers -> [{1, 2} -> Q!Call]]
      /\ hand'[u][i] = c
      /\ \A v \in Askers, j \in {1, 2} : <<v, j>> # <<u, i>> => hand'[v][j] = hand[v][j]
  BY <1>2, <1>3
<1> QED BY <1>1, <1>2, <1>4

LEMMA CallRaises ==
  ASSUME QuestionsInv, NEW u \in Askers, NEW i \in {1, 2}, hand[u][i].pc # "idle"
  PROVE  LET q == hand[u][i].q IN
         /\ q \in DOMAIN board /\ board[q].version < taps
         /\ Cardinality(Pending(q) \ {<<u, i>>}) \in Nat
         /\ Cardinality(Pending(q) \ {<<u, i>>}) = Cardinality(Pending(q)) - 1
<1>1. PICK q : q = hand[u][i].q
  OBVIOUS
<1>2. q \in DOMAIN board
  BY <1>1 DEF QuestionsInv, HandInv, CallOK
<1>3. <<u, i>> \in Pending(q)
  BY <1>1 DEF Pending
<1>4. /\ Cardinality(Pending(q)) \in Nat /\ Cardinality(Pending(q) \ {<<u, i>>}) \in Nat
      /\ Cardinality(Pending(q) \ {<<u, i>>}) = Cardinality(Pending(q)) - 1
  BY <1>3, PendingSets, PendingLess
<1>5. board[q].version < taps
  <2>1. /\ board[q].version + Cardinality(Pending(q)) <= taps
        /\ board[q].version \in Nat /\ taps \in Nat
    BY <1>2, AskedQuestions DEF QuestionsInv, BoardInv, VersionOK, Q!Question
  <2> QED BY <2>1, <1>4
<1> QED BY <1>1, <1>2, <1>4, <1>5

LEMMA VoteStays ==
  ASSUME NEW v, NEW r, VoteOK(v, r), vote'[v][r] = vote[v][r],
         Q!Under(v, r)' = Q!Under(v, r), Entries(board[r], v)' = Entries(board[r], v),
         \A j \in Q!Under(v, r) : hand'[v][j] = hand[v][j]
  PROVE  VoteOK(v, r)'
  BY DEF VoteOK

\* Call i of u ends and saves question q as d: with voters of whom the others
\* are the same, and u counts as he meant it.
Saves(u, i, q, d) ==
    /\ hand[u][i].pc # "idle" /\ hand[u][i].q = q
    /\ hand' = [hand EXCEPT ![u][i] = Q!NoCall]
    /\ board' = [board EXCEPT ![q] = d]
    /\ taps' = taps /\ desk' = desk /\ vote' = vote
    /\ d = [board[q] EXCEPT !.voters = d.voters, !.version = board[q].version + 1]
    /\ d.voters \in SUBSET (Askers \X (0..MaxTaps))
    /\ Cardinality(d.voters) <= Cardinality(board[q].voters) + 1
    /\ \A v \in Askers : v # u => Entries(d, v) = Entries(board[q], v)
    /\ vote[u][q] # "unsure" =>
          /\ Q!Under(u, q) = {i}
          /\ Entries(d, u) = IF vote[u][q] = "in" THEN {<<u, 0>>} ELSE {}

\* Whatever else was loaded of the question is out of date then.
LEMMA CallSaves ==
  ASSUME QuestionsInv, NEW u \in Askers, NEW i \in {1, 2}, NEW q, NEW d, Saves(u, i, q, d)
  PROVE  QuestionsInv'
<1> USE DEF Saves
<1>1. /\ q \in DOMAIN board /\ board[q].version < taps
      /\ Cardinality(Pending(q)') \in Nat
      /\ Cardinality(Pending(q)') = Cardinality(Pending(q)) - 1
      /\ \A r : r # q => Pending(r)' = Pending(r)
      /\ hand' \in [Askers -> [{1, 2} -> Q!Call]]
      /\ hand'[u][i] = Q!NoCall
      /\ \A v \in Askers, j \in {1, 2} : <<v, j>> # <<u, i>> => hand'[v][j] = hand[v][j]
      /\ Q!Under(u, q)' = Q!Under(u, q) \ {i}
      /\ \A v \in Askers : \A r : <<v, r>> # <<u, q>> => Q!Under(v, r)' = Q!Under(v, r)
  <2>1. /\ hand' \in [Askers -> [{1, 2} -> Q!Call]]
        /\ hand'[u][i] = Q!NoCall /\ hand'[u][i].pc = "idle"
        /\ \A v \in Askers, j \in {1, 2} : <<v, j>> # <<u, i>> => hand'[v][j] = hand[v][j]
    BY HandEnds
  <2>2. /\ q \in DOMAIN board /\ board[q].version < taps
        /\ Cardinality(Pending(q) \ {<<u, i>>}) \in Nat
        /\ Cardinality(Pending(q) \ {<<u, i>>}) = Cardinality(Pending(q)) - 1
    BY CallRaises
  <2>3. Pending(q)' = Pending(q) \ {<<u, i>>}
    BY <2>1 DEF Pending
  <2>4. \A r : r # q => Pending(r)' = Pending(r)
    BY <2>1 DEF Pending
  <2>5. Q!Under(u, q)' = Q!Under(u, q) \ {i}
    BY <2>1 DEF Q!Under
  <2>6. \A v \in Askers : \A r : <<v, r>> # <<u, q>> => Q!Under(v, r)' = Q!Under(v, r)
    BY <2>1 DEF Q!Under
  <2> QED BY <2>1, <2>2, <2>3, <2>4, <2>5, <2>6
<1>2. board[q] \in Q!Question /\ q \in Q!Asked
  BY <1>1, AskedQuestions
<1>3. taps \in 0..MaxTaps /\ taps \in Nat
  BY QuestionsConstants DEF QuestionsInv
<1>4. /\ d.version = board[q].version + 1 /\ d.answer = board[q].answer
      /\ d.resolved = board[q].resolved
  BY <1>2 DEF Q!Question
<1>5. d \in Q!Question
  <2>1. board[q].version + 1 \in 0..MaxTaps
    BY <1>1, <1>2, <1>3, QuestionsConstants DEF Q!Question
  <2> QED BY <1>2, <2>1 DEF Q!Question, Askers
<1>6. PICK n \in 0..MaxQuestions : board \in [1..n -> Q!Question]
  BY DEF QuestionsInv, BoardInv
<1>7. board' \in [1..n -> Q!Question] /\ DOMAIN board' = DOMAIN board /\ board'[q] = d
  BY <1>1, <1>5, <1>6
<1>8. \A r \in DOMAIN board : r # q => board'[r] = board[r]
  BY <1>6
<1>9. BoardInv'
  <2>1. ASSUME NEW r \in DOMAIN board PROVE VersionOK(r)'
    <3>1. VersionOK(r)
      BY DEF QuestionsInv, BoardInv
    <3>2. CASE r = q
      <4>1. board'[r].version + Cardinality(Pending(r)') <= taps
        BY <1>1, <1>2, <1>3, <1>4, <1>7, <3>1, <3>2, PendingSets DEF VersionOK, Q!Question
      <4>2. Cardinality(board[q].voters) \in Nat /\ Cardinality(d.voters) \in Nat
        BY <1>2, <1>5, VoterSets
      <4>3. Cardinality(board'[r].voters) <= board'[r].version
        BY <1>2, <1>4, <1>7, <3>1, <3>2, <4>2 DEF VersionOK, Q!Question
      <4> QED BY <4>1, <4>3 DEF VersionOK
    <3>3. CASE r # q
      BY <1>1, <1>8, <3>1, <3>3 DEF VersionOK
    <3> QED BY <3>2, <3>3
  <2>2. (\A r \in DOMAIN board : VersionOK(r))'
    BY <1>7, <2>1
  <2>3. Q!ResolvedAreAnswered'
    BY <1>1, <1>4, <1>7, <1>8 DEF QuestionsInv, BoardInv, Q!ResolvedAreAnswered, Q!Open
  <2> QED BY <1>7, <2>2, <2>3 DEF BoardInv
<1>10. HandInv'
  <2>1. ASSUME NEW v \in Askers, NEW j \in {1, 2} PROVE CallOK(hand[v][j])'
    <3>1. CASE <<v, j>> = <<u, i>>
      BY <1>1, <3>1, NoCallOK DEF CallOK
    <3>2. CASE <<v, j>> # <<u, i>>
      <4>1. PICK c : c = hand[v][j]
        OBVIOUS
      <4>2. CallOK(c) /\ c = hand'[v][j]
        BY <1>1, <3>2, <4>1 DEF QuestionsInv, HandInv
      <4>3. CallOK(c)'
        <5>1. c.pc # "idle" => c.doc.version \in Nat
          BY <4>2, QuestionsConstants DEF CallOK, Q!Call, Q!Question
        <5>2. CASE c.q = q
          BY <1>1, <1>2, <1>4, <1>7, <4>2, <5>1, <5>2 DEF CallOK, Q!Question
        <5>3. CASE c.q # q
          BY <1>7, <1>8, <4>2, <5>3 DEF CallOK
        <5> QED BY <5>2, <5>3
      <4> QED BY <4>2, <4>3
    <3> QED BY <3>1, <3>2
  <2> QED BY <1>1, <2>1 DEF HandInv
<1>11. VoteInv'
  <2>1. ASSUME NEW v \in Askers, NEW r \in DOMAIN board PROVE VoteOK(v, r)'
    <3>1. CASE <<v, r>> = <<u, q>>
      <4>1. vote[u][q] # "unsure" => Q!Under(u, q)' = {}
        BY <1>1
      <4>2. board'[q] = d
        BY <1>7
      <4> QED BY <3>1, <4>1, <4>2 DEF VoteOK, Entries
    <3>2. CASE <<v, r>> # <<u, q>>
      <4>1. VoteOK(v, r)
        BY DEF QuestionsInv, VoteInv
      <4>2. Q!Under(v, r)' = Q!Under(v, r)
        BY <1>1, <3>2
      <4>3. Entries(board[r], v)' = Entries(board[r], v)
        <5>1. CASE r = q
          BY <1>7, <3>2, <5>1 DEF Entries
        <5>2. CASE r # q
          BY <1>8, <5>2 DEF Entries
        <5> QED BY <5>1, <5>2
      <4>4. \A j \in Q!Under(v, r) : hand'[v][j] = hand[v][j]
        BY <1>1, <3>2 DEF Q!Under
      <4> QED BY <4>1, <4>2, <4>3, <4>4, VoteStays
    <3> QED BY <3>1, <3>2
  <2>2. (\A v \in Askers, r \in DOMAIN board : VoteOK(v, r))'
    BY <1>7, <2>1
  <2> QED BY <1>7, <2>2 DEF QuestionsInv, VoteInv
<1>12. DeskInv'
  <2>1. ASSUME NEW h \in Hosts PROVE DeskOK(desk[h])'
    BY <1>1, <1>4, <1>7, <1>8 DEF QuestionsInv, DeskInv, DeskOK
  <2> QED BY <2>1 DEF QuestionsInv, DeskInv
<1> QED BY <1>3, <1>9, <1>10, <1>11, <1>12 DEF QuestionsInv

LEMMA QuestionsUpvote ==
  ASSUME QuestionsInv, NEW u \in Askers, NEW i \in {1, 2}, Q!SaveUpvote(u, i)
  PROVE  QuestionsInv'
<1>1. PICK q : q = hand[u][i].q
  OBVIOUS
<1>2. /\ hand[u][i].pc = "upvote" /\ hand' = [hand EXCEPT ![u][i] = Q!NoCall]
      /\ taps' = taps /\ desk' = desk /\ vote' = vote
  BY DEF Q!SaveUpvote
<1>3. q \in DOMAIN board /\ board[q].version < taps
  BY <1>1, <1>2, CallRaises
<1>4. board[q] \in Q!Question
  BY <1>3, AskedQuestions
<1> DEFINE k == Cardinality(Entries(board[q], u))
<1>5. PICK d : d = [board[q] EXCEPT !.voters = @ \cup {<<u, k>>}, !.version = @ + 1]
  OBVIOUS
<1>6. board' = [board EXCEPT ![q] = d]
  <2>1. board' = [board EXCEPT ![q].voters = @ \cup {<<u, Q!Cardinality({e \in @ : e[1] = u})>>},
                               ![q].version = @ + 1]
    BY <1>1 DEF Q!SaveUpvote
  <2>2. Q!Cardinality({e \in board[q].voters : e[1] = u}) = k
    BY QuestionsCounts DEF Entries
  <2> QED BY <1>3, <1>4, <1>5, <2>1, <2>2 DEF Q!Question
<1>7. /\ IsFiniteSet(board[q].voters) /\ Cardinality(board[q].voters) \in Nat
      /\ k \in Nat /\ k <= Cardinality(board[q].voters)
  BY <1>4, VoterSets
<1>8. k \in 0..MaxTaps
  <2>1. Cardinality(board[q].voters) <= board[q].version
    BY <1>3 DEF QuestionsInv, BoardInv, VersionOK
  <2> QED BY <1>4, <1>7, <2>1, QuestionsConstants DEF Q!Question
<1> HIDE DEF k
<1>9. /\ d.voters = board[q].voters \cup {<<u, k>>}
      /\ d = [board[q] EXCEPT !.voters = d.voters, !.version = board[q].version + 1]
  BY <1>4, <1>5 DEF Q!Question
<1>10. d.voters \in SUBSET (Askers \X (0..MaxTaps))
  BY <1>4, <1>8, <1>9 DEF Q!Question, Askers
<1>11. Cardinality(d.voters) <= Cardinality(board[q].voters) + 1
  <2>1. PICK vs : vs = board[q].voters
    OBVIOUS
  <2>2. Cardinality(vs \cup {<<u, k>>}) =
           IF <<u, k>> \in vs THEN Cardinality(vs) ELSE Cardinality(vs) + 1
    BY <1>7, <2>1, FS_AddElement
  <2>3. Cardinality(vs \cup {<<u, k>>}) <= Cardinality(vs) + 1
    BY <1>7, <2>1, <2>2
  <2> QED BY <1>9, <2>1, <2>3
<1>12. \A v \in Askers : v # u => Entries(d, v) = Entries(board[q], v)
  BY <1>9 DEF Entries
<1>13. ASSUME vote[u][q] # "unsure"
       PROVE  /\ Q!Under(u, q) = {i}
              /\ Entries(d, u) = IF vote[u][q] = "in" THEN {<<u, 0>>} ELSE {}
  <2>1. VoteOK(u, q)
    BY <1>3 DEF QuestionsInv, VoteInv
  <2>2. i \in Q!Under(u, q)
    BY <1>1, <1>2 DEF Q!Under
  <2>3. Q!Under(u, q) = {i} /\ vote[u][q] = "in" /\ Entries(board[q], u) = {}
    BY <1>2, <1>13, <2>1, <2>2 DEF VoteOK
  <2>4. k = 0
    BY <2>3, FS_EmptySet DEF k
  <2>5. Entries(d, u) = Entries(board[q], u) \cup {<<u, k>>}
    BY <1>9 DEF Entries
  <2> QED BY <2>3, <2>4, <2>5
<1>14. hand[u][i].pc # "idle" /\ hand[u][i].q = q
  BY <1>1, <1>2
<1>15. Saves(u, i, q, d)
  BY <1>2, <1>6, <1>9, <1>10, <1>11, <1>12, <1>13, <1>14, Zenon DEF Saves
<1> QED BY <1>15, CallSaves

LEMMA QuestionsWithdraw ==
  ASSUME QuestionsInv, NEW u \in Askers, NEW i \in {1, 2}, Q!SaveWithdraw(u, i)
  PROVE  QuestionsInv'
<1>1. PICK c : c = hand[u][i]
  OBVIOUS
<1>2. PICK q : q = c.q
  OBVIOUS
<1>3. /\ c.pc = "withdraw" /\ hand' = [hand EXCEPT ![u][i] = Q!NoCall]
      /\ taps' = taps /\ desk' = desk
  BY <1>1 DEF Q!SaveWithdraw
<1>4. q \in DOMAIN board /\ board[q].version < taps
  BY <1>1, <1>2, <1>3, CallRaises
<1>5. board[q] \in Q!Question /\ q \in Q!Asked
  BY <1>4, AskedQuestions
<1>6. c.doc.version = board[q].version => c.doc.voters = board[q].voters
  BY <1>1, <1>2, <1>3 DEF QuestionsInv, HandInv, CallOK
<1>7. /\ hand' \in [Askers -> [{1, 2} -> Q!Call]]
      /\ hand'[u][i] = Q!NoCall /\ hand'[u][i].pc = "idle"
      /\ \A v \in Askers, j \in {1, 2} : <<v, j>> # <<u, i>> => hand'[v][j] = hand[v][j]
  BY <1>3, HandEnds
<1>8. VoteOK(u, q) /\ i \in Q!Under(u, q)
  BY <1>1, <1>2, <1>3, <1>4 DEF QuestionsInv, VoteInv, Q!Under
<1>9. vote[u][q] # "unsure" =>
         Q!Under(u, q) = {i} /\ vote[u][q] = "out" /\ Entries(board[q], u) = {<<u, 0>>}
  BY <1>1, <1>3, <1>8 DEF VoteOK
<1>10. Q!Under(u, q) = {i} => Q!Under(u, q)' = {}
  BY <1>7 DEF Q!Under
<1>11. CASE board[q].version = c.doc.version
  <2> DEFINE k == Cardinality(Entries(board[q], u))
  <2>1. PICK d : d = [board[q] EXCEPT !.voters = @ \ {<<u, k - 1>>}, !.version = @ + 1]
    OBVIOUS
  <2>2. vote' = vote /\ board' = [board EXCEPT ![q] = d]
    <3>1. vote' = vote /\ board' = [board EXCEPT ![q].voters = Q!Spliced(c.doc.voters, u),
                                                 ![q].version = @ + 1]
      BY <1>1, <1>2, <1>11 DEF Q!SaveWithdraw
    <3>2. Q!Spliced(c.doc.voters, u) = board[q].voters \ {<<u, k - 1>>}
      BY <1>6, <1>11, QuestionsCounts DEF Q!Spliced, Entries
    <3> QED BY <1>4, <1>5, <2>1, <3>1, <3>2 DEF Q!Question
  <2> HIDE DEF k
  <2>3. /\ d.voters = board[q].voters \ {<<u, k - 1>>}
        /\ d = [board[q] EXCEPT !.voters = d.voters, !.version = board[q].version + 1]
    BY <1>5, <2>1 DEF Q!Question
  <2>4. d.voters \in SUBSET (Askers \X (0..MaxTaps))
    BY <1>5, <2>3 DEF Q!Question, Askers
  <2>5. Cardinality(d.voters) <= Cardinality(board[q].voters) + 1
    <3>1. PICK vs : vs = board[q].voters
      OBVIOUS
    <3>2. IsFiniteSet(vs) /\ Cardinality(vs) \in Nat
      BY <1>5, <3>1, VoterSets
    <3>3. Cardinality(vs \ {<<u, k - 1>>}) =
             IF <<u, k - 1>> \in vs THEN Cardinality(vs) - 1 ELSE Cardinality(vs)
      BY <3>2, FS_RemoveElement
    <3>4. Cardinality(vs \ {<<u, k - 1>>}) <= Cardinality(vs) + 1
      BY <3>2, <3>3
    <3> QED BY <2>3, <3>1, <3>4
  <2>6. \A v \in Askers : v # u => Entries(d, v) = Entries(board[q], v)
    BY <2>3 DEF Entries
  <2>7. ASSUME vote[u][q] # "unsure"
        PROVE  /\ Q!Under(u, q) = {i}
               /\ Entries(d, u) = IF vote[u][q] = "in" THEN {<<u, 0>>} ELSE {}
    <3>1. Q!Under(u, q) = {i} /\ vote[u][q] = "out" /\ Entries(board[q], u) = {<<u, 0>>}
      BY <1>9, <2>7
    <3>2. k = 1
      BY <3>1, FS_Singleton, Zenon DEF k
    <3>3. Entries(d, u) = Entries(board[q], u) \ {<<u, 0>>}
      BY <2>3, <3>2 DEF Entries
    <3> QED BY <3>1, <3>3
  <2>8. hand[u][i].pc # "idle" /\ hand[u][i].q = q
    BY <1>1, <1>2, <1>3
  <2>9. Saves(u, i, q, d)
    BY <1>3, <2>2, <2>3, <2>4, <2>5, <2>6, <2>7, <2>8, Zenon DEF Saves
  <2> QED BY <2>9, CallSaves
<1>12. CASE board[q].version # c.doc.version
  <2>1. board' = board /\ vote' = [vote EXCEPT ![u][q] = IF @ = "out" THEN "in" ELSE @]
    BY <1>1, <1>2, <1>12 DEF Q!SaveWithdraw
  <2>2. BoardInv'
    <3>1. ASSUME NEW r \in DOMAIN board PROVE VersionOK(r)'
      <4>1. VersionOK(r)
        BY DEF QuestionsInv, BoardInv
      <4>2. CASE r = q
        <5>1. Pending(r)' = Pending(r) \ {<<u, i>>}
          BY <1>7 DEF Pending
        <5>2. /\ Cardinality(Pending(r) \ {<<u, i>>}) \in Nat
              /\ Cardinality(Pending(r) \ {<<u, i>>}) = Cardinality(Pending(r)) - 1
          BY <1>1, <1>2, <1>3, <4>2, CallRaises
        <5>3. board[r].version \in Nat /\ taps \in Nat /\ Cardinality(Pending(r)) \in Nat
          BY <1>5, <4>2, PendingSets DEF Q!Question, QuestionsInv
        <5> QED BY <1>3, <2>1, <4>1, <5>1, <5>2, <5>3 DEF VersionOK
      <4>3. CASE r # q
        <5>1. Pending(r)' = Pending(r)
          BY <1>1, <1>2, <1>7, <4>3 DEF Pending
        <5> QED BY <1>3, <2>1, <4>1, <5>1 DEF VersionOK
      <4> QED BY <4>2, <4>3
    <3>2. (\A r \in DOMAIN board : VersionOK(r))'
      BY <2>1, <3>1
    <3> QED BY <2>1, <3>2 DEF QuestionsInv, BoardInv, Q!ResolvedAreAnswered, Q!Open
  <2>3. HandInv'
    <3>1. ASSUME NEW v \in Askers, NEW j \in {1, 2} PROVE CallOK(hand'[v][j])
      BY <1>7, NoCallOK DEF QuestionsInv, HandInv
    <3>2. (\A v \in Askers, j \in {1, 2} : CallOK(hand[v][j]))'
      BY <2>1, <3>1 DEF CallOK
    <3> QED BY <1>7, <3>2 DEF HandInv
  <2>4. VoteInv'
    <3>1. /\ vote' \in [Askers -> [Q!Asked -> {"in", "out", "unsure"}]]
          /\ \A v \in Askers, r \in Q!Asked : <<v, r>> # <<u, q>> => vote'[v][r] = vote[v][r]
          /\ vote'[u][q] = IF vote[u][q] = "out" THEN "in" ELSE vote[u][q]
      BY <1>5, <2>1 DEF QuestionsInv, VoteInv
    <3>2. ASSUME NEW v \in Askers, NEW r \in DOMAIN board PROVE VoteOK(v, r)'
      <4>1. Entries(board[r], v)' = Entries(board[r], v)
        BY <2>1 DEF Entries
      <4>2. CASE <<v, r>> = <<u, q>>
        <5> SUFFICES ASSUME vote'[u][q] # "unsure" PROVE VoteOK(u, q)'
          BY <4>2 DEF VoteOK
        <5>1. Q!Under(u, q)' = {} /\ vote'[u][q] = "in" /\ Entries(board[q], u) = {<<u, 0>>}
          BY <1>9, <1>10, <3>1
        <5> QED BY <4>1, <4>2, <5>1 DEF VoteOK
      <4>3. CASE <<v, r>> # <<u, q>>
        <5>1. VoteOK(v, r) /\ vote'[v][r] = vote[v][r]
          BY <3>1, <4>3, AskedQuestions DEF QuestionsInv, VoteInv
        <5>2. Q!Under(v, r)' = Q!Under(v, r) /\ (\A j \in Q!Under(v, r) : hand'[v][j] = hand[v][j])
          BY <1>1, <1>2, <1>7, <4>3 DEF Q!Under
        <5> QED BY <4>1, <5>1, <5>2, VoteStays
      <4> QED BY <4>2, <4>3
    <3>3. (\A v \in Askers, r \in DOMAIN board : VoteOK(v, r))'
      BY <2>1, <3>2
    <3>4. (\A v \in Askers, r \in Q!Asked \ DOMAIN board : vote[v][r] = "out")'
      BY <1>4, <2>1, <3>1 DEF QuestionsInv, VoteInv
    <3> QED BY <3>1, <3>3, <3>4 DEF VoteInv
  <2>5. DeskInv'
    BY <1>3, <2>1 DEF QuestionsInv, DeskInv, DeskOK
  <2> QED BY <1>3, <2>2, <2>3, <2>4, <2>5 DEF QuestionsInv
<1> QED BY <1>11, <1>12

\* A host's page changes, and the questions stay.
LEMMA DeskTurns ==
  ASSUME QuestionsInv, NEW h \in Hosts, NEW d, DeskOK(d), desk' = [desk EXCEPT ![h] = d],
         board' = board, hand' = hand, vote' = vote, taps' \in {taps, taps + 1},
         taps' \in 0..MaxTaps
  PROVE  QuestionsInv'
<1>1. taps \in Nat /\ taps' \in Nat /\ taps <= taps'
  BY QuestionsConstants DEF QuestionsInv
<1>2. /\ HandInv'
      /\ \A q \in DOMAIN board : VersionOK(q)'
      /\ \A u \in Askers, q \in DOMAIN board : VoteOK(u, q)'
  BY <1>1, VotesUntouched
<1>3. (\A q \in DOMAIN board : VersionOK(q))'
  BY <1>2
<1>4. BoardInv'
  BY <1>3 DEF QuestionsInv, BoardInv, Q!ResolvedAreAnswered, Q!Open
<1>5. (\A u \in Askers, q \in DOMAIN board : VoteOK(u, q))'
  BY <1>2
<1>6. VoteInv'
  BY <1>5 DEF QuestionsInv, VoteInv
<1>7. desk' \in [Hosts -> Q!Desk] /\ \A g \in Hosts : DeskOK(desk'[g])
  BY DEF QuestionsInv, DeskInv, DeskOK
<1>8. DeskInv'
  BY <1>7 DEF DeskInv, DeskOK
<1> QED BY <1>2, <1>4, <1>6, <1>8 DEF QuestionsInv

LEMMA QuestionsBox ==
  ASSUME QuestionsInv, NEW h \in Hosts,
         \/ Q!CancelAnswer(h) \/ Q!Type(h)
         \/ \E q \in Q!Open : Q!StartAnswer(h, q)
  PROVE  QuestionsInv'
<1>1. PICK e : e = desk[h]
  OBVIOUS
<1>2. DeskOK(e) /\ e \in Q!Desk
  BY <1>1 DEF QuestionsInv, DeskInv
<1>3. PICK at, text : /\ desk' = [desk EXCEPT ![h] = [e EXCEPT !.at = at, !.text = text]]
                      /\ at \in {0, e.at} \cup DOMAIN board
                      /\ text \in BOOLEAN /\ (text => at # 0)
  <2>1. CASE Q!CancelAnswer(h)
    <3>1. desk' = [desk EXCEPT ![h] = [e EXCEPT !.at = 0, !.text = FALSE]]
      BY <1>1, <2>1 DEF Q!CancelAnswer, QuestionsInv, DeskInv
    <3> QED BY <3>1
  <2>2. CASE Q!Type(h)
    <3>1. desk' = [desk EXCEPT ![h] = [e EXCEPT !.at = e.at, !.text = TRUE]] /\ e.at # 0
      BY <1>1, <1>2, <2>2 DEF Q!Type, QuestionsInv, DeskInv, Q!Desk
    <3> QED BY <3>1
  <2>3. ASSUME NEW q \in Q!Open, Q!StartAnswer(h, q)
        PROVE  desk' = [desk EXCEPT ![h] = [e EXCEPT !.at = q, !.text = FALSE]]
    BY <1>1, <2>3 DEF Q!StartAnswer, QuestionsInv, DeskInv
  <2> QED BY <2>1, <2>2, <2>3 DEF Q!Open
<1>4. PICK d : d = [e EXCEPT !.at = at, !.text = text]
  OBVIOUS
<1>5. at \in 0..MaxQuestions
  BY <1>2, <1>3, AskedQuestions, QuestionsConstants DEF Q!Desk, Q!Asked
<1>6. d.at = at /\ d.text = text /\ d.call = e.call /\ d \in Q!Desk
  BY <1>2, <1>3, <1>4, <1>5 DEF Q!Desk
<1>7. DeskOK(d)
  BY <1>2, <1>3, <1>6 DEF DeskOK
<1>8. board' = board /\ hand' = hand /\ vote' = vote /\ taps' = taps
  BY DEF Q!CancelAnswer, Q!Type, Q!StartAnswer
<1>9. taps' \in {taps, taps + 1} /\ taps' \in 0..MaxTaps
  BY <1>8 DEF QuestionsInv
<1> QED BY <1>3, <1>4, <1>7, <1>8, <1>9, DeskTurns

LEMMA QuestionsCall ==
  ASSUME QuestionsInv, NEW h \in Hosts,
         \/ Q!PostAnswer(h)
         \/ \E q \in Q!Open : Q!TapPin(h, q) \/ Q!TapResolve(h, q)
  PROVE  QuestionsInv'
<1>1. PICK e : e = desk[h]
  OBVIOUS
<1>2. DeskOK(e) /\ e \in Q!Desk
  BY <1>1 DEF QuestionsInv, DeskInv
<1>3. PICK pc \in {"answer", "pin", "resolve"}, q \in DOMAIN board :
         /\ Q!HostCalls(h, pc, q)
         /\ pc = "resolve" => board[q].answer # NoUser
  <2>1. CASE Q!PostAnswer(h)
    BY <1>1, <1>2, <2>1 DEF Q!PostAnswer, DeskOK
  <2>2. CASE \E q \in Q!Open : Q!TapPin(h, q) \/ Q!TapResolve(h, q)
    BY <2>2 DEF Q!TapPin, Q!TapResolve, Q!Open
  <2> QED BY <2>1, <2>2
<1>4. PICK c : c = [pc |-> pc, q |-> q, doc |-> board[q]]
  OBVIOUS
<1>5. PICK d : d = [e EXCEPT !.call = c]
  OBVIOUS
<1>6. /\ desk' = [desk EXCEPT ![h].call = c] /\ taps' = taps + 1 /\ taps < MaxTaps
      /\ board' = board /\ hand' = hand /\ vote' = vote
  BY <1>3, <1>4 DEF Q!HostCalls, Q!Tapping, Q!Loaded
<1>7. desk' = [desk EXCEPT ![h] = d]
  BY <1>1, <1>5, <1>6 DEF QuestionsInv, DeskInv
<1>8. c \in Q!Call
  <2>1. q \in 0..MaxQuestions /\ board[q] \in Q!Question
    BY AskedQuestions, QuestionsConstants DEF Q!Asked
  <2> QED BY <1>4, <2>1 DEF Q!Call, Q!Pc
<1>9. d.at = e.at /\ d.text = e.text /\ d.call = c /\ d \in Q!Desk
  BY <1>2, <1>5, <1>8 DEF Q!Desk
<1>10. DeskOK(d)
  BY <1>2, <1>3, <1>4, <1>9 DEF DeskOK
<1>11. taps' \in {taps, taps + 1} /\ taps' \in 0..MaxTaps
  BY <1>6, QuestionsConstants DEF QuestionsInv
<1> QED BY <1>6, <1>7, <1>10, <1>11, DeskTurns

LEMMA QuestionsHost ==
  ASSUME QuestionsInv, NEW h \in Hosts, Q!SaveHost(h)
  PROVE  QuestionsInv'
<1>1. PICK e : e = desk[h]
  OBVIOUS
<1>2. PICK c : c = e.call
  OBVIOUS
<1>3. PICK q : q = c.q
  OBVIOUS
<1>4. DeskOK(e) /\ e \in Q!Desk
  BY <1>1 DEF QuestionsInv, DeskInv
<1>5. c.pc \in {"answer", "pin", "resolve"} /\ c \in Q!Call /\ q \in DOMAIN board
  BY <1>1, <1>2, <1>3, <1>4 DEF Q!SaveHost, DeskOK, Q!Desk
<1>6. board[q] \in Q!Question
  BY <1>5, AskedQuestions
<1>7. PICK b : b = CASE c.pc = "answer" -> [board[q] EXCEPT !.answer = h,
                                              !.resolved = board[q].resolved \/ ~ c.doc.resolved]
                     [] c.pc = "pin" -> [board[q] EXCEPT !.pinned = ~ c.doc.pinned]
                     [] c.pc = "resolve" -> [board[q] EXCEPT !.resolved = ~ c.doc.resolved]
  OBVIOUS
<1>8. /\ board' = [board EXCEPT ![q] = b]
      /\ hand' = hand /\ taps' = taps /\ vote' = vote
  <2>1. board' = [board EXCEPT ![q] =
           CASE c.pc = "answer" -> [board[q] EXCEPT !.answer = h,
                                      !.resolved = board[q].resolved \/ ~ c.doc.resolved]
             [] c.pc = "pin" -> [board[q] EXCEPT !.pinned = ~ c.doc.pinned]
             [] c.pc = "resolve" -> [board[q] EXCEPT !.resolved = ~ c.doc.resolved]]
    <3>1. c = desk[h].call
      BY <1>1, <1>2
    <3>2. CASE c.pc = "answer"
      BY <1>3, <3>1, <3>2, SMT DEF Q!SaveHost
    <3>3. CASE c.pc = "pin"
      BY <1>3, <3>1, <3>3, SMT DEF Q!SaveHost
    <3>4. CASE c.pc = "resolve"
      BY <1>3, <3>1, <3>4, SMT DEF Q!SaveHost
    <3> QED BY <1>5, <3>2, <3>3, <3>4
  <2> QED BY <1>7, <2>1, Zenon DEF Q!SaveHost
<1>9. /\ b \in Q!Question /\ b.voters = board[q].voters /\ b.version = board[q].version
      /\ board[q].answer # NoUser => b.answer # NoUser
      /\ b.resolved => board[q].resolved \/ c.pc = "answer" \/ c.pc = "resolve"
      /\ c.pc = "answer" => b.answer # NoUser
  <2>1. c.doc.resolved \in BOOLEAN /\ c.doc.pinned \in BOOLEAN
    BY <1>5 DEF Q!Call, Q!Question
  <2>2. CASE c.pc = "answer"
    <3>1. b = [board[q] EXCEPT !.answer = h, !.resolved = board[q].resolved \/ ~ c.doc.resolved]
      BY <1>7, <2>2
    <3>2. (board[q].resolved \/ ~ c.doc.resolved) \in BOOLEAN
      OBVIOUS
    <3> QED BY <1>6, <2>2, <3>1, <3>2, QuestionsConstants DEF Q!Question
  <2>3. CASE c.pc = "pin"
    <3>1. b = [board[q] EXCEPT !.pinned = ~ c.doc.pinned]
      BY <1>7, <2>3
    <3>2. (~ c.doc.pinned) \in BOOLEAN
      OBVIOUS
    <3> QED BY <1>6, <2>3, <3>1, <3>2 DEF Q!Question
  <2>4. CASE c.pc = "resolve"
    <3>1. b = [board[q] EXCEPT !.resolved = ~ c.doc.resolved]
      BY <1>7, <2>4
    <3>2. (~ c.doc.resolved) \in BOOLEAN
      OBVIOUS
    <3> QED BY <1>6, <2>4, <3>1, <3>2 DEF Q!Question
  <2> QED BY <1>5, <2>2, <2>3, <2>4
<1>10. PICK n \in 0..MaxQuestions : board \in [1..n -> Q!Question]
  BY DEF QuestionsInv, BoardInv
<1>11. /\ board' \in [1..n -> Q!Question] /\ DOMAIN board' = DOMAIN board /\ board'[q] = b
       /\ \A r \in DOMAIN board : r # q => board'[r] = board[r]
  BY <1>5, <1>8, <1>9, <1>10
<1>12. \A r \in DOMAIN board : /\ board'[r].voters = board[r].voters
                               /\ board'[r].version = board[r].version
                               /\ board[r].answer # NoUser => board'[r].answer # NoUser
  BY <1>9, <1>11
<1>13. taps \in Nat
  BY QuestionsConstants DEF QuestionsInv
<1>14. /\ HandInv'
       /\ \A r \in DOMAIN board : VersionOK(r)'
       /\ \A u \in Askers, r \in DOMAIN board : VoteOK(u, r)'
  BY <1>8, <1>11, <1>12, <1>13, VotesUntouched
<1>15. BoardInv'
  <2>1. (\A r \in DOMAIN board : VersionOK(r))'
    BY <1>11, <1>14
  <2>2. c.pc = "resolve" => board[q].answer # NoUser
    BY <1>2, <1>3, <1>4 DEF DeskOK
  <2>3. b.resolved => b.answer # NoUser
    BY <1>5, <1>9, <2>2 DEF QuestionsInv, BoardInv, Q!ResolvedAreAnswered, Q!Open
  <2>4. \A r \in DOMAIN board : board'[r].resolved => board'[r].answer # NoUser
    BY <1>11, <2>3 DEF QuestionsInv, BoardInv, Q!ResolvedAreAnswered, Q!Open
  <2>5. Q!ResolvedAreAnswered'
    BY <1>11, <2>4 DEF Q!ResolvedAreAnswered, Q!Open
  <2> QED BY <1>11, <2>1, <2>5 DEF BoardInv
<1>16. VoteInv'
  <2>1. (\A u \in Askers, r \in DOMAIN board : VoteOK(u, r))'
    BY <1>11, <1>14
  <2> QED BY <1>8, <1>11, <2>1 DEF QuestionsInv, VoteInv
<1>17. DeskInv'
  <2>1. PICK d : d = IF c.pc = "answer" THEN [at |-> 0, text |-> FALSE, call |-> Q!NoCall]
                     ELSE [e EXCEPT !.call = Q!NoCall]
    OBVIOUS
  <2>2. desk' = [desk EXCEPT ![h] = d]
    BY <1>1, <1>2, <2>1 DEF Q!SaveHost
  <2>3. DeskOK(d) /\ d \in Q!Desk
    <3>1. CASE c.pc = "answer"
      BY <2>1, <3>1, NoCallOK, QuestionsConstants DEF DeskOK, Q!Desk
    <3>2. CASE c.pc # "answer"
      BY <1>4, <2>1, <3>2, NoCallOK DEF DeskOK, Q!Desk
    <3> QED BY <3>1, <3>2
  <2>4. desk' \in [Hosts -> Q!Desk] /\ \A g \in Hosts : DeskOK(desk'[g])
    BY <2>2, <2>3 DEF QuestionsInv, DeskInv
  <2>5. ASSUME NEW g \in Hosts PROVE DeskOK(desk[g])'
    <3>1. PICK k : k = desk'[g]
      OBVIOUS
    <3>2. DeskOK(k)
      BY <2>4, <3>1
    <3>3. DeskOK(k)'
      BY <1>11, <1>12, <3>2 DEF DeskOK
    <3> QED BY <3>1, <3>3
  <2> QED BY <2>4, <2>5 DEF DeskInv
<1> QED BY <1>8, <1>14, <1>15, <1>16, <1>17 DEF QuestionsInv

LEMMA QuestionsNext == QuestionsInv /\ Q!Next => QuestionsInv'
<1> SUFFICES ASSUME QuestionsInv, Q!Next PROVE QuestionsInv'
  OBVIOUS
<1>1. CASE \E u \in Askers : Q!Ask(u)
  BY <1>1, QuestionsAsk
<1>2. CASE \E u \in Askers : \E q \in Q!Open, lit \in BOOLEAN : Q!TapArrow(u, q, lit)
  BY <1>2, QuestionsTap
<1>3. CASE \E u \in Askers : \E i \in {1, 2} : Q!SaveUpvote(u, i) \/ Q!SaveWithdraw(u, i)
  BY <1>3, QuestionsUpvote, QuestionsWithdraw
<1>4. CASE \E h \in Hosts : \/ Q!CancelAnswer(h) \/ Q!Type(h) \/ Q!PostAnswer(h) \/ Q!SaveHost(h)
                            \/ \E q \in Q!Open : \/ Q!StartAnswer(h, q) \/ Q!TapPin(h, q)
                                                 \/ Q!TapResolve(h, q)
  BY <1>4, QuestionsBox, QuestionsCall, QuestionsHost
<1> QED BY <1>1, <1>2, <1>3, <1>4, Zenon DEF Q!Next, Askers

-----------------------------------------------------------------------------
(* The day of the event                                                    *)

\* Who has no row has none of its marks.
RowOK(r) == r \in D!Row /\ (r.status = "none" => r = D!NoRow)
RowsOK == answers \in [Users -> D!Row] /\ \A u \in Users : RowOK(answers[u])

\* The counters were raised and lowered by answers that were served.
FiguresOK ==
    /\ served \in 0..MaxAnswers
    /\ figures \in [going : 0..served, waiting : Int]
    /\ figures.waiting <= served /\ 0 <= figures.waiting + served
    /\ D!GoingNotOverstated

\* A page waits for an answer only where its button is; one whose answer was
\* accepted has a place or waits for one.
PageOK(u) ==
    /\ eventPage[u].busy # "no" => eventPage[u].page = "detail"
    /\ (eventPage[u].busy = "accepted" \/ eventPage[u].page = "confirmed") /\ ~ eventPage[u].undone
          => answers[u].status \in {"going", "waitlist"}
PagesOK == eventPage \in [Browsing -> D!Tab] /\ \A u \in Browsing : PageOK(u)

\* The boxes under way at a member who is not in doubt: one at most, and it
\* marks him as was meant.
BoxOK(u) ==
    meant[u] # "unsure" =>
       /\ \A d, e \in Doors : toggle[d].who = u /\ toggle[e].who = u => d = e
       /\ \A d \in Doors : toggle[d].who = u => (toggle[d].to <=> meant[u] = "in")
       /\ (\A d \in Doors : toggle[d].who # u) => (answers[u].marked <=> meant[u] = "in")
DoorsOK ==
    /\ toggle \in [Doors -> [who : Users \cup {NoUser}, to : BOOLEAN]]
    /\ \A d \in Doors : toggle[d].who \in Users => answers[toggle[d].who].status # "none"
    /\ meant \in [Users -> {"in", "out", "unsure"}]
    /\ \A u \in Users : BoxOK(u)

DayInv ==
    /\ RowsOK /\ FiguresOK /\ PagesOK /\ DoorsOK
    /\ priced \in [now : BOOLEAN, covered : SUBSET Users] /\ again \in BOOLEAN

LEMMA DayCounts ==
  /\ \A S : D!Cardinality(S) = Cardinality(S)
  /\ \A S : D!IsFiniteSet(S) <=> IsFiniteSet(S)
  BY DEF D!Cardinality, Cardinality, D!IsFiniteSet, IsFiniteSet

LEMMA DayConstants ==
  /\ Browsing \subseteq Users /\ IsFiniteSet(Users) /\ NoUser \notin Users
  /\ Seats \in Nat \ {0} /\ MaxAnswers \in Nat
  BY PartsAssumption, UsersAssumption DEF D!EventDayAssumption

LEMMA UserSets ==
  /\ Cardinality(Users) \in Nat
  /\ \A us \in SUBSET Users : /\ IsFiniteSet(us) /\ Cardinality(us) \in Nat
                              /\ Cardinality(us) <= Cardinality(Users)
<1>1. Cardinality(Users) \in Nat
  BY DayConstants, FS_CardinalityType
<1>2. ASSUME NEW us \in SUBSET Users
      PROVE  IsFiniteSet(us) /\ Cardinality(us) <= Cardinality(Users)
  BY DayConstants, FS_Subset
<1> QED BY <1>1, <1>2, FS_CardinalityType

\* Two parts of a set of members count as many as the whole.
LEMMA PartsCount ==
  ASSUME NEW a \in SUBSET Users, NEW b \in SUBSET Users, a \cap b = {}
  PROVE  Cardinality(a \cup b) = Cardinality(a) + Cardinality(b)
<1>1. IsFiniteSet(a) /\ IsFiniteSet(b) /\ Cardinality(a) \in Nat /\ Cardinality(b) \in Nat
  BY UserSets
<1>2. Cardinality(a \cup b) = Cardinality(a) + Cardinality(b) - Cardinality(a \cap b)
  BY <1>1, FS_Union
<1>3. Cardinality(a \cap b) = 0
  BY FS_EmptySet
<1> QED BY <1>1, <1>2, <1>3

LEMMA DayImplies == DayInv => D!TypeOK /\ D!EventDayWorks
<1> SUFFICES ASSUME DayInv PROVE D!TypeOK /\ D!EventDayWorks
  OBVIOUS
<1>1. D!TypeOK
  <2>1. figures \in [going : 0..MaxAnswers, waiting : {n - MaxAnswers : n \in 0..2 * MaxAnswers}]
    <3>1. figures.going \in 0..MaxAnswers
      BY DayConstants DEF DayInv, FiguresOK
    <3>2. figures.waiting \in {n - MaxAnswers : n \in 0..2 * MaxAnswers}
      <4>1. /\ figures.waiting \in Int /\ figures.waiting <= MaxAnswers
            /\ 0 <= figures.waiting + MaxAnswers
        BY DayConstants DEF DayInv, FiguresOK
      <4>2. PICK n : n = figures.waiting + MaxAnswers
        OBVIOUS
      <4>3. n \in 0..2 * MaxAnswers /\ figures.waiting = n - MaxAnswers
        BY <4>1, <4>2, DayConstants
      <4> QED BY <4>3
    <3> QED BY <3>1, <3>2 DEF DayInv, FiguresOK
  <2> QED BY <2>1 DEF D!TypeOK, DayInv, RowsOK, FiguresOK, PagesOK, DoorsOK
<1>2. D!MarkedAsMeant
  BY DEF D!MarkedAsMeant, DayInv, DoorsOK, BoxOK
<1>3. D!ConfirmedHolds
  BY DayConstants DEF D!ConfirmedHolds, D!Going, D!Waiting, DayInv, PagesOK, PageOK
<1>4. D!GoingNotOverstated
  BY DEF DayInv, FiguresOK
<1>5. D!FirstIsNext
  <2> SUFFICES ASSUME NEW u \in D!Waiting
               PROVE  D!Position(u) = 1 <=> u \in D!Oldest(D!Waiting)
    BY DEF D!FirstIsNext
  <2>1. PICK before : before = {v \in D!Waiting : answers[v].rank < answers[u].rank}
    OBVIOUS
  <2>2. before \in SUBSET Users
    BY <2>1 DEF D!Waiting
  <2>3. IsFiniteSet(before) /\ Cardinality(before) \in Nat
    BY <2>2, UserSets
  <2>4. D!Position(u) = 1 + Cardinality(before)
    BY <2>1, DayCounts DEF D!Position
  <2>5. Cardinality(before) = 0 <=> before = {}
    BY <2>3, FS_EmptySet
  <2>6. \A v \in D!Waiting : answers[v].rank \in Nat
    BY UserSets, DayCounts DEF D!Waiting, DayInv, RowsOK, D!Row
  <2>7. before = {} <=> u \in D!Oldest(D!Waiting)
    BY <2>1, <2>6 DEF D!Oldest
  <2> QED BY <2>3, <2>4, <2>5, <2>7
<1>6. D!FiguresOfDoor
  <2>1. \A s \in {"all", "arriving", "waitlist"} : D!Number(s) = D!Cardinality(D!Listed(s))
    <3>1. D!Listed("arriving") = D!Going \ D!Marked
      BY DEF D!Listed, D!Going, D!Marked
    <3>2. D!Listed("waitlist") = D!Waiting
      BY DEF D!Listed, D!Waiting
    <3> QED BY <3>1, <3>2 DEF D!Number
  <2>2. D!Number("checkedIn") - D!Cardinality(D!Listed("checkedIn"))
          = D!Cardinality({u \in D!Marked : answers[u].status = "cancelled"})
    <3>1. PICK a, b : /\ a = D!Listed("checkedIn")
                      /\ b = {u \in D!Marked : answers[u].status = "cancelled"}
      OBVIOUS
    <3>2. a \in SUBSET Users /\ b \in SUBSET Users /\ a \cap b = {}
      BY <3>1 DEF D!Listed, D!Marked
    <3>3. a \cup b = D!Marked
      <4>1. \A u \in D!Marked : answers[u].status # "none"
        BY DEF D!Marked, DayInv, RowsOK, RowOK, D!NoRow
      <4> QED BY <3>1, <4>1 DEF D!Listed, D!Marked
    <3>4. Cardinality(D!Marked) = Cardinality(a) + Cardinality(b)
      BY <3>2, <3>3, PartsCount
    <3>5. Cardinality(a) \in Nat /\ Cardinality(b) \in Nat
      BY <3>2, UserSets
    <3>6. D!Number("checkedIn") = Cardinality(D!Marked)
      BY DayCounts DEF D!Number
    <3> QED BY <3>1, <3>4, <3>5, <3>6, DayCounts
  <2>3. D!NoShows = D!Number("arriving")
    <3>1. PICK a, b : a = D!Marked /\ b = D!Going \ D!Marked
      OBVIOUS
    <3>2. a \in SUBSET Users /\ b \in SUBSET Users /\ a \cap b = {}
      BY <3>1 DEF D!Marked, D!Going
    <3>3. Cardinality(D!Going \cup D!Marked) = Cardinality(a) + Cardinality(b)
      <4>1. a \cup b = D!Going \cup D!Marked
        BY <3>1
      <4> QED BY <3>2, <4>1, PartsCount
    <3>4. Cardinality(a) \in Nat /\ Cardinality(b) \in Nat
      BY <3>2, UserSets
    <3>5. D!NoShows = Cardinality(D!Going \cup D!Marked) - Cardinality(a)
      BY <3>1, DayCounts DEF D!NoShows
    <3>6. D!Number("arriving") = Cardinality(b)
      BY <3>1, DayCounts DEF D!Number
    <3> QED BY <3>3, <3>4, <3>5, <3>6
  <2> QED BY <2>1, <2>2, <2>3 DEF D!FiguresOfDoor
<1>7. D!ToldMayRead
  BY DEF D!ToldMayRead, D!Told, D!Readers
<1> QED BY <1>1, <1>2, <1>3, <1>4, <1>5, <1>6, <1>7 DEF D!EventDayWorks

LEMMA DayInit == D!Init => DayInv
<1> SUFFICES ASSUME D!Init PROVE DayInv
  OBVIOUS
<1>1. D!NoRow \in D!Row
  BY UserSets, DayCounts DEF D!NoRow, D!Row, D!Status
<1>2. RowsOK
  BY <1>1 DEF D!Init, RowsOK, RowOK
<1>3. FiguresOK
  <2>1. figures.going = 0 /\ D!Going \in SUBSET Users
    BY DEF D!Init, D!Going
  <2>2. D!GoingNotOverstated
    BY <2>1, UserSets, DayCounts DEF D!GoingNotOverstated
  <2> QED BY <2>2, DayConstants DEF D!Init, FiguresOK
<1>4. PagesOK
  BY DEF D!Init, PagesOK, PageOK, D!Tab, D!Pages
<1>5. DoorsOK
  BY DayConstants DEF D!Init, DoorsOK, BoxOK, D!NoToggle, D!NoRow
<1>6. priced \in [now : BOOLEAN, covered : SUBSET Users]
  BY DayConstants DEF D!Init
<1>7. again \in BOOLEAN
  BY DEF D!Init
<1> QED BY <1>2, <1>3, <1>4, <1>5, <1>6, <1>7 DEF DayInv

LEMMA DayStutters == DayInv /\ UNCHANGED dayVars => DayInv'
<1> SUFFICES ASSUME DayInv, UNCHANGED dayVars PROVE DayInv'
  OBVIOUS
<1> USE DEF dayVars
<1>1. RowsOK' /\ PagesOK' /\ DoorsOK'
  BY DEF DayInv, RowsOK, PagesOK, PageOK, DoorsOK, BoxOK
<1>2. FiguresOK'
  BY DEF DayInv, FiguresOK, D!GoingNotOverstated, D!Going
<1> QED BY <1>1, <1>2 DEF DayInv

-----------------------------------------------------------------------------
(* Steps of the day                                                        *)

\* The page of one member turns.
LEMMA PageTurns ==
  ASSUME DayInv, NEW u \in Browsing, NEW t \in D!Tab, eventPage' = [eventPage EXCEPT ![u] = t],
         answers' = answers,
         t.busy # "no" => t.page = "detail",
         (t.busy = "accepted" \/ t.page = "confirmed") /\ ~ t.undone
            => answers[u].status \in {"going", "waitlist"}
  PROVE  PagesOK'
<1>1. eventPage' \in [Browsing -> D!Tab] /\ eventPage'[u] = t
  BY DEF DayInv, PagesOK
<1>2. ASSUME NEW v \in Browsing PROVE PageOK(v)'
  <2>1. CASE v = u
    BY <1>1, <2>1 DEF PageOK
  <2>2. CASE v # u
    <3>1. eventPage'[v] = eventPage[v]
      BY <2>2 DEF DayInv, PagesOK
    <3> QED BY <3>1 DEF DayInv, PagesOK, PageOK
  <2> QED BY <2>1, <2>2
<1> QED BY <1>1, <1>2 DEF PagesOK

\* Only a page has turned.
LEMMA DayPage ==
  ASSUME DayInv, PagesOK', UNCHANGED <<answers, figures, priced, toggle, served, meant, again>>
  PROVE  DayInv'
<1>1. RowsOK' /\ DoorsOK'
  BY DEF DayInv, RowsOK, DoorsOK, BoxOK
<1>2. FiguresOK'
  BY DEF DayInv, FiguresOK, D!GoingNotOverstated, D!Going
<1> QED BY <1>1, <1>2 DEF DayInv

LEMMA DayLooks ==
  ASSUME DayInv, NEW u \in Browsing, D!Load(u) \/ D!Tap(u) \/ D!Land(u) \/ D!Back(u)
  PROVE  DayInv'
<1> DEFINE s == eventPage[u]
<1>1. UNCHANGED <<answers, figures, priced, toggle, served, meant, again>>
  BY DEF D!Load, D!Tap, D!Land, D!Back
<1>2. s \in D!Tab /\ PageOK(u)
  BY DEF DayInv, PagesOK
<1>3. PICK going, price \in BOOLEAN : going = (u \in D!Going) /\ price = priced.now
  <2>1. (u \in D!Going) \in BOOLEAN
    OBVIOUS
  <2>2. priced.now \in BOOLEAN
    BY DEF DayInv
  <2> QED BY <2>1, <2>2, Zenon
<1>4. CASE D!Load(u)
  <2>1. PICK t : t = [s EXCEPT !.going = going, !.price = price]
    OBVIOUS
  <2>2. eventPage' = [eventPage EXCEPT ![u] = t]
    BY <1>3, <1>4, <2>1 DEF D!Load
  <2>3. t \in D!Tab /\ t.busy = s.busy /\ t.page = s.page /\ t.undone = s.undone
    BY <1>2, <2>1 DEF D!Tab
  <2>4. PagesOK'
    BY <1>1, <1>2, <2>2, <2>3, PageTurns DEF PageOK
  <2> QED BY <1>1, <2>4, DayPage
<1>5. CASE D!Tap(u)
  <2>1. s.page = "detail" /\ s.busy = "no"
    BY <1>5 DEF D!Tap
  <2>2. PICK t : /\ eventPage' = [eventPage EXCEPT ![u] = t]
                 /\ \/ t = [s EXCEPT !.busy = "cancel"] \/ t = [s EXCEPT !.busy = "answer"]
                    \/ t = [s EXCEPT !.page = "checkout"]
    BY <1>5 DEF D!Tap
  <2>3. /\ t \in D!Tab /\ t.busy # "accepted" /\ t.page # "confirmed"
        /\ t.busy # "no" => t.page = "detail"
    BY <1>2, <2>1, <2>2 DEF D!Tab, D!Pages
  <2>4. PagesOK'
    BY <1>1, <2>2, <2>3, PageTurns
  <2> QED BY <1>1, <2>4, DayPage
<1>6. CASE D!Land(u)
  <2>1. PICK page : page = CASE s.busy = "accepted" -> "confirmed"
                             [] s.busy = "refused" -> "waitlisted"
                             [] OTHER -> "detail"
    OBVIOUS
  <2>2. page \in D!Pages /\ (page = "confirmed" => s.busy = "accepted")
    BY <2>1 DEF D!Pages
  <2>3. PICK t : t = [s EXCEPT !.page = page, !.going = going, !.price = price, !.busy = "no"]
    OBVIOUS
  <2>4. eventPage' = [eventPage EXCEPT ![u] = t]
    BY <1>3, <1>6, <2>1, <2>3 DEF D!Land
  <2>5. t \in D!Tab /\ t.busy = "no" /\ t.page = page /\ t.undone = s.undone
    BY <1>2, <2>2, <2>3 DEF D!Tab
  <2>6. PagesOK'
    BY <1>1, <1>2, <2>2, <2>4, <2>5, PageTurns DEF PageOK
  <2> QED BY <1>1, <2>6, DayPage
<1>7. CASE D!Back(u)
  <2>1. PICK t : t = [s EXCEPT !.page = "detail"]
    OBVIOUS
  <2>2. eventPage' = [eventPage EXCEPT ![u] = t]
    BY <1>7, <2>1 DEF D!Back, DayInv, PagesOK
  <2>3. t \in D!Tab /\ t.busy = s.busy /\ t.page = "detail" /\ t.undone = s.undone
    BY <1>2, <2>1 DEF D!Tab, D!Pages
  <2>4. PagesOK'
    BY <1>1, <1>2, <2>2, <2>3, PageTurns DEF PageOK
  <2> QED BY <1>1, <2>4, DayPage
<1> QED BY <1>4, <1>5, <1>6, <1>7

\* Answers and cancellations leave the marks and the boxes as they are.
LEMMA MarksStay ==
  ASSUME DayInv, toggle' = toggle, meant' = meant,
         \A v \in Users : /\ answers'[v].marked = answers[v].marked
                          /\ answers[v].status # "none" => answers'[v].status # "none"
  PROVE  DoorsOK'
<1>1. ASSUME NEW v \in Users PROVE BoxOK(v)'
  BY DEF DayInv, DoorsOK, BoxOK
<1>2. (\A v \in Users : BoxOK(v))'
  BY <1>1
<1>3. (\A d \in Doors : toggle[d].who \in Users => answers[toggle[d].who].status # "none")'
  BY DEF DayInv, DoorsOK
<1> QED BY <1>2, <1>3 DEF DayInv, DoorsOK

\* A member answers: he goes or waits, and the counters follow.
LEMMA AnswerOK ==
  ASSUME DayInv, NEW u \in Users, D!Answer(u), D!Serving
  PROVE  /\ RowsOK' /\ FiguresOK' /\ again' \in BOOLEAN
         /\ answers'[u].status \in {"going", "waitlist"}
         /\ \A v \in Users : /\ answers'[v].marked = answers[v].marked
                             /\ v # u => answers'[v] = answers[v]
<1>1. PICK status \in {"going", "waitlist"} :
         status = IF Cardinality(D!Going) >= Seats THEN "waitlist" ELSE "going"
  OBVIOUS
<1>2. PICK others : others = {v \in Users : answers[v] # D!NoRow}
  OBVIOUS
<1> DEFINE first == answers[u].status = "none"
<1>3. PICK place : place = IF first THEN 1 + Cardinality(others) ELSE answers[u].rank
  OBVIOUS
<1>4. PICK r : r = [answers[u] EXCEPT !.status = status, !.rank = place]
  OBVIOUS
<1>5. answers[u] \in D!Row /\ answers \in [Users -> D!Row]
  BY DEF DayInv, RowsOK
<1>6. answers' = [answers EXCEPT ![u] = r]
  <2>1. answers' = [answers EXCEPT ![u].status = status, ![u].rank = place]
    <3>1. answers' = [answers EXCEPT
             ![u].status = IF D!Cardinality(D!Going) >= Seats THEN "waitlist" ELSE "going",
             ![u].rank = IF answers[u].status = "none"
                         THEN 1 + D!Cardinality({v \in Users : answers[v] # D!NoRow}) ELSE @]
      BY DEF D!Answer
    <3> QED BY <1>1, <1>2, <1>3, <1>5, <3>1, DayCounts DEF D!Row
  <2> QED BY <1>4, <1>5, <2>1 DEF D!Row
<1>7. place \in 0..Cardinality(Users)
  <2>1. CASE first
    <3>1. u \notin others
      BY <1>2, <2>1 DEF DayInv, RowsOK, RowOK
    <3>2. others \in SUBSET Users /\ IsFiniteSet(others) /\ Cardinality(others) \in Nat
      BY <1>2, UserSets
    <3>3. Cardinality(others \cup {u}) = Cardinality(others) + 1
      BY <3>1, <3>2, FS_AddElement
    <3>4. Cardinality(others \cup {u}) <= Cardinality(Users)
      BY <3>2, UserSets
    <3> QED BY <1>3, <2>1, <3>2, <3>3, <3>4, UserSets
  <2>2. CASE ~ first
    BY <1>3, <1>5, <2>2, DayCounts DEF D!Row
  <2> QED BY <2>1, <2>2
<1>8. r \in D!Row /\ r.status = status /\ r.marked = answers[u].marked
  BY <1>1, <1>4, <1>5, <1>7, DayCounts DEF D!Row, D!Status
<1>9. /\ answers'[u] = r
      /\ \A v \in Users : v # u => answers'[v] = answers[v]
      /\ answers' \in [Users -> D!Row]
  BY <1>5, <1>6, <1>8
<1>10. RowsOK'
  BY <1>1, <1>8, <1>9 DEF DayInv, RowsOK, RowOK
<1>11. again' = (again \/ u \in D!Going) /\ again' \in BOOLEAN
  BY DEF D!Answer
<1>12. FiguresOK'
  <2>1. /\ served \in Nat /\ served' = served + 1 /\ served' \in 0..MaxAnswers
        /\ figures.going \in 0..served /\ figures.waiting \in Int
        /\ figures.waiting <= served /\ 0 <= figures.waiting + served
    BY DayConstants DEF D!Serving, DayInv, FiguresOK
  <2>2. \/ figures' = figures /\ ~ first
        \/ /\ figures' = [figures EXCEPT !.going = @ + 1] /\ status = "going" /\ first
        \/ /\ figures' = [figures EXCEPT !.waiting = @ + 1] /\ status = "waitlist"
    BY <1>1, DayCounts DEF D!Answer
  <2>3. /\ figures' \in [going : Nat, waiting : Int]
        /\ figures'.going \in {figures.going, figures.going + 1}
        /\ figures'.waiting \in {figures.waiting, figures.waiting + 1}
        /\ figures'.going = figures.going + 1 => status = "going" /\ first
    BY <2>1, <2>2 DEF DayInv, FiguresOK
  <2>4. /\ figures' \in [going : 0..served', waiting : Int]
        /\ figures'.waiting <= served' /\ 0 <= figures'.waiting + served'
    BY <2>1, <2>3
  <2>5. D!GoingNotOverstated'
    <3> SUFFICES ASSUME ~ again' PROVE figures'.going <= Cardinality(D!Going')
      BY DayCounts DEF D!GoingNotOverstated
    <3>1. ~ again /\ u \notin D!Going
      BY <1>11
    <3>2. figures.going <= Cardinality(D!Going)
      BY <3>1, DayCounts DEF DayInv, FiguresOK, D!GoingNotOverstated
    <3>3. PICK g : g = D!Going
      OBVIOUS
    <3>4. g \in SUBSET Users /\ IsFiniteSet(g) /\ Cardinality(g) \in Nat
      BY <3>3, UserSets DEF D!Going
    <3>5. D!Going' = IF status = "going" THEN g \cup {u} ELSE g
      BY <1>1, <1>8, <1>9, <3>1, <3>3 DEF D!Going
    <3>6. Cardinality(g \cup {u}) = Cardinality(g) + 1
      BY <3>1, <3>3, <3>4, FS_AddElement
    <3>7. CASE status = "going"
      <4>1. Cardinality(D!Going') = Cardinality(g) + 1
        BY <3>5, <3>6, <3>7
      <4> QED BY <2>1, <2>3, <3>2, <3>3, <3>4, <4>1
    <3>8. CASE status # "going"
      <4>1. D!Going' = D!Going /\ figures'.going = figures.going
        BY <2>3, <3>3, <3>5, <3>8
      <4> QED BY <3>2, <4>1
    <3> QED BY <3>7, <3>8
  <2> QED BY <2>1, <2>4, <2>5 DEF FiguresOK
<1> QED BY <1>1, <1>5, <1>8, <1>9, <1>10, <1>11, <1>12

\* A member cancels: who has waited longest takes his place.
LEMMA CancelOK ==
  ASSUME DayInv, NEW u \in Users, D!Cancel(u), D!Serving
  PROVE  /\ RowsOK' /\ FiguresOK' /\ again' \in BOOLEAN
         /\ answers'[u].status = "cancelled"
         /\ \A v \in Users :
               /\ answers'[v].marked = answers[v].marked
               /\ answers[v].status # "none" => answers'[v].status # "none"
               /\ v # u /\ answers[v].status \in {"going", "waitlist"}
                     => answers'[v].status \in {"going", "waitlist"}
<1>1. PICK next : next = IF u \in D!Going THEN D!Oldest(D!Waiting) ELSE {}
  OBVIOUS
<1>2. /\ next \subseteq D!Waiting /\ next \in SUBSET Users /\ u \notin next
      /\ u \notin D!Going => next = {}
  BY <1>1 DEF D!Oldest, D!Waiting, D!Going
<1>3. answers \in [Users -> D!Row] /\ \A v \in Users : RowOK(answers[v])
  BY DEF DayInv, RowsOK
<1>4. answers' = [v \in Users |->
                    IF v = u THEN [answers[v] EXCEPT !.status = "cancelled"]
                    ELSE IF v \in next THEN [answers[v] EXCEPT !.status = "going"] ELSE answers[v]]
  BY <1>1 DEF D!Cancel
<1>5. ASSUME NEW v \in Users
      PROVE  /\ answers'[v] \in D!Row /\ answers'[v].marked = answers[v].marked
             /\ answers'[v].status = IF v = u THEN "cancelled"
                                     ELSE IF v \in next THEN "going" ELSE answers[v].status
             /\ answers'[v].status = "none" => answers'[v] = answers[v]
  <2>1. answers[v] \in D!Row
    BY <1>3
  <2>2. CASE v = u
    <3>1. answers'[v] = [answers[v] EXCEPT !.status = "cancelled"]
      BY <1>4, <2>2
    <3> QED BY <2>1, <2>2, <3>1 DEF D!Row, D!Status
  <2>3. CASE v # u /\ v \in next
    <3>1. answers'[v] = [answers[v] EXCEPT !.status = "going"]
      BY <1>4, <2>3
    <3> QED BY <2>1, <2>3, <3>1 DEF D!Row, D!Status
  <2>4. CASE v # u /\ v \notin next
    BY <1>4, <2>1, <2>4
  <2> QED BY <2>2, <2>3, <2>4
<1>6. RowsOK'
  BY <1>3, <1>4, <1>5 DEF RowsOK, RowOK
<1>7. again' = again
  BY DEF D!Cancel
<1>8. FiguresOK'
  <2>1. PICK left : left = IF u \in D!Going /\ figures.going > 0
                           THEN figures.going - 1 ELSE figures.going
    OBVIOUS
  <2>2. /\ served \in Nat /\ served' = served + 1 /\ served' \in 0..MaxAnswers
        /\ figures.going \in 0..served /\ figures.waiting \in Int
        /\ figures.waiting <= served /\ 0 <= figures.waiting + served
    BY DayConstants DEF D!Serving, DayInv, FiguresOK
  <2>3. left \in 0..served /\ left <= figures.going
    BY <2>1, <2>2
  <2>4. \/ next = {} /\ figures' = [figures EXCEPT !.going = left]
        \/ next # {} /\ figures' = [going |-> left + 1, waiting |-> figures.waiting - 1]
    BY <1>1, <2>1 DEF D!Cancel
  <2>5. /\ figures' \in [going : 0..served', waiting : Int]
        /\ figures'.waiting \in {figures.waiting, figures.waiting - 1}
        /\ figures'.going = IF next = {} THEN left ELSE left + 1
    BY <2>2, <2>3, <2>4 DEF DayInv, FiguresOK
  <2>6. figures'.waiting <= served' /\ 0 <= figures'.waiting + served'
    BY <2>2, <2>5
  <2>7. D!GoingNotOverstated'
    <3> SUFFICES ASSUME ~ again' PROVE figures'.going <= Cardinality(D!Going')
      BY DayCounts DEF D!GoingNotOverstated
    <3>1. figures.going <= Cardinality(D!Going)
      BY <1>7, DayCounts DEF DayInv, FiguresOK, D!GoingNotOverstated
    <3>2. PICK g : g = D!Going
      OBVIOUS
    <3>3. g \in SUBSET Users /\ IsFiniteSet(g) /\ Cardinality(g) \in Nat
      BY <3>2, UserSets DEF D!Going
    <3>4. D!Going' = (g \ {u}) \cup next
      BY <1>2, <1>5, <3>2 DEF D!Going
    <3>5. CASE u \notin D!Going
      <4>1. D!Going' = g /\ next = {}
        BY <1>2, <3>2, <3>4, <3>5
      <4> QED BY <2>3, <2>5, <2>2, <3>1, <3>2, <3>3, <4>1
    <3>6. CASE u \in D!Going
      <4>1. /\ Cardinality(g \ {u}) = Cardinality(g) - 1 /\ IsFiniteSet(g \ {u})
            /\ Cardinality(g \ {u}) \in Nat
        <5>1. Cardinality(g \ {u}) = Cardinality(g) - 1 /\ IsFiniteSet(g \ {u})
          BY <3>2, <3>3, <3>6, FS_RemoveElement
        <5> QED BY <5>1, FS_CardinalityType
      <4>2. left = IF figures.going > 0 THEN figures.going - 1 ELSE 0
        BY <2>1, <2>2, <3>6
      <4>3. left <= Cardinality(g \ {u})
        BY <2>2, <3>1, <3>2, <3>3, <4>1, <4>2
      <4>4. CASE next = {}
        <5>1. D!Going' = g \ {u}
          BY <3>4, <4>4
        <5> QED BY <2>5, <4>3, <4>4, <5>1
      <4>5. CASE next # {}
        <5>1. PICK w : w \in next
          BY <4>5
        <5>2. w \notin g
          BY <1>2, <3>2, <5>1 DEF D!Going, D!Waiting
        <5>3. Cardinality((g \ {u}) \cup {w}) = Cardinality(g \ {u}) + 1
          BY <4>1, <5>2, FS_AddElement
        <5>4. PICK h : h = (g \ {u}) \cup next
          OBVIOUS
        <5>5. h \in SUBSET Users /\ IsFiniteSet(h) /\ Cardinality(h) \in Nat
          BY <1>2, <3>3, <5>4, UserSets
        <5>6. (g \ {u}) \cup {w} \in SUBSET h
          BY <5>1, <5>4
        <5>7. Cardinality((g \ {u}) \cup {w}) <= Cardinality(h)
          BY <5>5, <5>6, FS_Subset
        <5>8. figures'.going = left + 1 /\ D!Going' = h
          BY <2>5, <3>4, <4>5, <5>4
        <5> QED BY <2>3, <4>1, <4>3, <5>3, <5>5, <5>7, <5>8
      <4> QED BY <4>4, <4>5
    <3> QED BY <3>5, <3>6
  <2> QED BY <2>2, <2>5, <2>6, <2>7 DEF FiguresOK
<1>9. again' \in BOOLEAN
  BY <1>7 DEF DayInv
<1>10. \A v \in Users : answers[v].status # "none" => answers'[v].status # "none"
  BY <1>5
<1>11. \A v \in Users : v # u /\ answers[v].status \in {"going", "waitlist"}
                           => answers'[v].status \in {"going", "waitlist"}
  BY <1>5
<1> QED BY <1>5, <1>6, <1>8, <1>9, <1>10, <1>11

LEMMA DayAnswers ==
  ASSUME DayInv, NEW u \in Browsing, D!ServeAnswer(u)
  PROVE  DayInv'
<1> DEFINE s == eventPage[u]
<1>1. /\ priced' = priced /\ toggle' = toggle /\ meant' = meant
      /\ s.busy = "answer" /\ D!Serving /\ u \in Users
  BY DayConstants DEF D!ServeAnswer
<1>2. s \in D!Tab /\ PageOK(u) /\ eventPage \in [Browsing -> D!Tab]
  BY DEF DayInv, PagesOK
<1>3. s.page = "detail"
  BY <1>1, <1>2 DEF PageOK
<1>4. CASE D!MustPay(u)
  <2>1. PICK t : t = [s EXCEPT !.busy = "refused"]
    OBVIOUS
  <2>2. /\ eventPage' = [eventPage EXCEPT ![u] = t]
        /\ UNCHANGED <<answers, figures, again>>
    BY <1>4, <2>1 DEF D!ServeAnswer
  <2>3. t \in D!Tab /\ t.busy = "refused" /\ t.page = "detail"
    BY <1>2, <1>3, <2>1 DEF D!Tab
  <2>4. PagesOK'
    BY <2>2, <2>3, PageTurns
  <2>5. FiguresOK'
    <3>1. /\ served \in Nat /\ served' = served + 1 /\ served' \in 0..MaxAnswers
          /\ figures.going \in 0..served /\ figures.waiting \in Int
          /\ figures.waiting <= served /\ 0 <= figures.waiting + served
      BY <1>1, DayConstants DEF D!Serving, DayInv, FiguresOK
    <3>2. figures \in [going : 0..served', waiting : Int]
      BY <3>1 DEF DayInv, FiguresOK
    <3>3. D!GoingNotOverstated'
      BY <2>2 DEF DayInv, FiguresOK, D!GoingNotOverstated, D!Going
    <3> QED BY <2>2, <3>1, <3>2, <3>3 DEF FiguresOK
  <2>6. RowsOK' /\ DoorsOK'
    BY <1>1, <2>2 DEF DayInv, RowsOK, DoorsOK, BoxOK
  <2> QED BY <1>1, <2>2, <2>4, <2>5, <2>6 DEF DayInv
<1>5. CASE ~ D!MustPay(u)
  <2>1. PICK t : t = [s EXCEPT !.busy = "accepted", !.undone = FALSE]
    OBVIOUS
  <2>2. D!Answer(u) /\ eventPage' = [eventPage EXCEPT ![u] = t]
    BY <1>2, <1>5, <2>1 DEF D!ServeAnswer
  <2>3. /\ RowsOK' /\ FiguresOK' /\ again' \in BOOLEAN
        /\ answers'[u].status \in {"going", "waitlist"}
        /\ \A v \in Users : /\ answers'[v].marked = answers[v].marked
                            /\ v # u => answers'[v] = answers[v]
    BY <1>1, <2>2, AnswerOK
  <2>4. t \in D!Tab /\ t.busy = "accepted" /\ t.page = "detail"
    BY <1>2, <1>3, <2>1 DEF D!Tab
  <2>5. PagesOK'
    <3>1. eventPage' \in [Browsing -> D!Tab] /\ eventPage'[u] = t
      BY <1>2, <2>2, <2>4
    <3>2. ASSUME NEW v \in Browsing PROVE PageOK(v)'
      <4>1. CASE v = u
        BY <2>3, <2>4, <3>1, <4>1 DEF PageOK
      <4>2. CASE v # u
        <5>1. eventPage'[v] = eventPage[v] /\ answers'[v] = answers[v]
          BY <1>2, <2>2, <2>3, <4>2, DayConstants
        <5> QED BY <5>1 DEF DayInv, PagesOK, PageOK
      <4> QED BY <4>1, <4>2
    <3> QED BY <3>1, <3>2 DEF PagesOK
  <2>6. DoorsOK'
    <3>1. \A v \in Users : answers[v].status # "none" => answers'[v].status # "none"
      BY <2>3
    <3> QED BY <1>1, <2>3, <3>1, MarksStay
  <2> QED BY <1>1, <2>3, <2>5, <2>6 DEF DayInv
<1> QED BY <1>4, <1>5

LEMMA DayCancels ==
  ASSUME DayInv, NEW u \in Browsing, D!ServeCancel(u)
  PROVE  DayInv'
<1> DEFINE s == eventPage[u]
<1>1. /\ priced' = priced /\ toggle' = toggle /\ meant' = meant
      /\ s.busy = "cancel" /\ D!Serving /\ D!Cancel(u) /\ u \in Users
  BY DayConstants DEF D!ServeCancel
<1>2. s \in D!Tab /\ PageOK(u) /\ eventPage \in [Browsing -> D!Tab]
  BY DEF DayInv, PagesOK
<1>3. /\ RowsOK' /\ FiguresOK' /\ again' \in BOOLEAN
      /\ \A v \in Users :
            /\ answers'[v].marked = answers[v].marked
            /\ answers[v].status # "none" => answers'[v].status # "none"
            /\ v # u /\ answers[v].status \in {"going", "waitlist"}
                  => answers'[v].status \in {"going", "waitlist"}
  BY <1>1, CancelOK
<1>4. PagesOK'
  <2>1. PICK t : t = [s EXCEPT !.busy = "cancelled"]
    OBVIOUS
  <2>2. t \in D!Tab /\ t.busy = "cancelled" /\ t.page = "detail"
    BY <1>1, <1>2, <2>1 DEF D!Tab, PageOK
  <2>3. eventPage' = [eventPage EXCEPT ![u] = t]
    BY <1>2, <2>1 DEF D!ServeCancel
  <2>4. eventPage' \in [Browsing -> D!Tab] /\ eventPage'[u] = t
    BY <1>2, <2>2, <2>3
  <2>5. ASSUME NEW v \in Browsing PROVE PageOK(v)'
    <3>1. CASE v = u
      BY <2>2, <2>4, <3>1 DEF PageOK
    <3>2. CASE v # u
      <4>1. eventPage'[v] = eventPage[v] /\ v \in Users
        BY <1>2, <2>3, <3>2, DayConstants
      <4> QED BY <1>3, <3>2, <4>1 DEF DayInv, PagesOK, PageOK
    <3> QED BY <3>1, <3>2
  <2> QED BY <2>4, <2>5 DEF PagesOK
<1>5. DoorsOK'
  BY <1>1, <1>3, MarksStay
<1> QED BY <1>1, <1>3, <1>4, <1>5 DEF DayInv

LEMMA DayPhones ==
  ASSUME DayInv, NEW u \in Users, D!Phone(u)
  PROVE  DayInv'
<1>1. priced' = priced /\ toggle' = toggle /\ meant' = meant /\ D!Serving
  BY DEF D!Phone
<1>2. eventPage \in [Browsing -> D!Tab] /\ \A v \in Browsing : PageOK(v)
  BY DEF DayInv, PagesOK
<1>3. CASE D!Answer(u) /\ eventPage' = eventPage
  <2>1. /\ RowsOK' /\ FiguresOK' /\ again' \in BOOLEAN
        /\ answers'[u].status \in {"going", "waitlist"}
        /\ \A v \in Users : /\ answers'[v].marked = answers[v].marked
                            /\ v # u => answers'[v] = answers[v]
    BY <1>1, <1>3, AnswerOK
  <2>2. PagesOK'
    <3>1. ASSUME NEW v \in Browsing PROVE PageOK(v)'
      BY <1>2, <1>3, <2>1, DayConstants DEF PageOK
    <3> QED BY <1>2, <1>3, <3>1 DEF PagesOK
  <2>3. DoorsOK'
    <3>1. \A v \in Users : answers[v].status # "none" => answers'[v].status # "none"
      BY <2>1
    <3> QED BY <1>1, <2>1, <3>1, MarksStay
  <2> QED BY <1>1, <2>1, <2>2, <2>3 DEF DayInv
<1>4. CASE /\ D!Cancel(u)
           /\ eventPage' = [v \in Browsing |-> IF v = u THEN [eventPage[v] EXCEPT !.undone = TRUE]
                                               ELSE eventPage[v]]
  <2>1. /\ RowsOK' /\ FiguresOK' /\ again' \in BOOLEAN
        /\ \A v \in Users :
              /\ answers'[v].marked = answers[v].marked
              /\ answers[v].status # "none" => answers'[v].status # "none"
              /\ v # u /\ answers[v].status \in {"going", "waitlist"}
                    => answers'[v].status \in {"going", "waitlist"}
    BY <1>1, <1>4, CancelOK
  <2>2. ASSUME NEW v \in Browsing PROVE eventPage'[v] \in D!Tab /\ PageOK(v)'
    <3>1. eventPage[v] \in D!Tab /\ PageOK(v) /\ v \in Users
      BY <1>2, DayConstants
    <3>2. CASE v = u
      <4>1. eventPage'[v] = [eventPage[v] EXCEPT !.undone = TRUE]
        BY <1>4, <3>2
      <4>2. /\ eventPage'[v] \in D!Tab /\ eventPage'[v].undone = TRUE
            /\ eventPage'[v].busy = eventPage[v].busy /\ eventPage'[v].page = eventPage[v].page
        BY <3>1, <4>1 DEF D!Tab
      <4> QED BY <3>1, <4>2 DEF PageOK
    <3>3. CASE v # u
      <4>1. eventPage'[v] = eventPage[v]
        BY <1>4, <3>3
      <4> QED BY <2>1, <3>1, <3>3, <4>1 DEF PageOK
    <3> QED BY <3>2, <3>3
  <2>3. PagesOK'
    BY <1>4, <2>2 DEF PagesOK
  <2>4. DoorsOK'
    BY <1>1, <2>1, MarksStay
  <2> QED BY <1>1, <2>1, <2>3, <2>4 DEF DayInv
<1> QED BY <1>3, <1>4, Zenon DEF D!Phone

LEMMA DayPrices ==
  ASSUME DayInv, D!SetPrice
  PROVE  DayInv'
<1>1. UNCHANGED <<answers, figures, eventPage, toggle, served, meant, again>>
  BY DEF D!SetPrice
<1>2. priced' \in [now : BOOLEAN, covered : SUBSET Users]
  BY DEF D!SetPrice, DayInv
<1>3. RowsOK' /\ PagesOK' /\ DoorsOK'
  BY <1>1 DEF DayInv, RowsOK, PagesOK, PageOK, DoorsOK, BoxOK
<1>4. FiguresOK'
  BY <1>1 DEF DayInv, FiguresOK, D!GoingNotOverstated, D!Going
<1> QED BY <1>1, <1>2, <1>3, <1>4 DEF DayInv

\* The marks change, the answers stay: the counters and the pages hold on.
LEMMA AnswersStay ==
  ASSUME DayInv, \A v \in Users : answers'[v].status = answers[v].status,
         UNCHANGED <<figures, eventPage, served, again>>
  PROVE  FiguresOK' /\ PagesOK'
<1>1. D!Going' = D!Going
  BY DEF D!Going
<1>2. FiguresOK'
  BY <1>1 DEF DayInv, FiguresOK, D!GoingNotOverstated
<1>3. PagesOK'
  <2>1. ASSUME NEW v \in Browsing PROVE PageOK(v)'
    BY DayConstants DEF DayInv, PagesOK, PageOK
  <2> QED BY <2>1 DEF DayInv, PagesOK
<1> QED BY <1>2, <1>3

LEMMA DayTaps ==
  ASSUME DayInv, NEW d \in Doors, NEW u \in Users, NEW saw \in BOOLEAN, D!TapBox(d, u, saw)
  PROVE  DayInv'
<1>1. /\ UNCHANGED <<answers, figures, priced, eventPage, served, again>>
      /\ toggle[d].who = NoUser /\ answers[u] # D!NoRow
  BY DEF D!TapBox, D!NoToggle
<1>2. /\ RowsOK' /\ toggle \in [Doors -> [who : Users \cup {NoUser}, to : BOOLEAN]]
      /\ meant \in [Users -> {"in", "out", "unsure"}] /\ RowOK(answers[u])
      /\ answers[u].marked \in BOOLEAN /\ \A v \in Users : BoxOK(v)
  BY <1>1 DEF DayInv, RowsOK, DoorsOK, D!Row
<1>3. PICK to \in BOOLEAN : to = ~ answers[u].marked
  <2>1. (~ answers[u].marked) \in BOOLEAN
    OBVIOUS
  <2> QED BY <2>1, Zenon
<1>4. /\ toggle' = [toggle EXCEPT ![d] = [who |-> u, to |-> to]]
      /\ toggle' \in [Doors -> [who : Users \cup {NoUser}, to : BOOLEAN]]
      /\ toggle'[d] = [who |-> u, to |-> to]
      /\ \A e \in Doors \ {d} : toggle'[e] = toggle[e]
  BY <1>2, <1>3 DEF D!TapBox
<1>5. PICK m \in {"in", "out", "unsure"} :
         m = IF \/ saw # answers[u].marked
                \/ meant[u] = "unsure"
                \/ \E e \in Doors : toggle[e].who = u
             THEN "unsure" ELSE IF saw THEN "out" ELSE "in"
  OBVIOUS
<1>6. meant' = [meant EXCEPT ![u] = m]
  BY <1>2, <1>5 DEF D!TapBox
<1>7. /\ meant' \in [Users -> {"in", "out", "unsure"}] /\ meant'[u] = m
      /\ \A v \in Users \ {u} : meant'[v] = meant[v]
  BY <1>2, <1>6
<1>8. ASSUME NEW v \in Users PROVE BoxOK(v)'
  <2>1. CASE v = u
    <3>1. CASE m = "unsure"
      BY <1>7, <2>1, <3>1 DEF BoxOK
    <3>2. CASE m # "unsure"
      <4>1. /\ answers[u].marked = saw /\ (m = "in" <=> ~ saw)
            /\ \A e \in Doors : toggle[e].who # u
        BY <1>2, <1>5, <3>2
      <4>2. to <=> m = "in"
        BY <1>3, <4>1
      <4>3. \A e \in Doors : toggle'[e].who = u => e = d
        BY <1>4, <4>1
      <4> QED BY <1>4, <1>7, <2>1, <4>2, <4>3 DEF BoxOK
    <3> QED BY <3>1, <3>2
  <2>2. CASE v # u
    <3>1. \A e \in Doors : /\ toggle'[e].who = v <=> toggle[e].who = v
                           /\ toggle'[e].who = v => toggle'[e] = toggle[e]
      BY <1>1, <1>4, <2>2, DayConstants
    <3>2. meant'[v] = meant[v] /\ answers'[v] = answers[v]
      BY <1>1, <1>7, <2>2
    <3>3. BoxOK(v)
      BY <1>2
    <3> QED BY <3>1, <3>2, <3>3 DEF BoxOK
  <2> QED BY <2>1, <2>2
<1>9. DoorsOK'
  <2>1. answers[u].status # "none"
    BY <1>1, <1>2 DEF RowOK
  <2>2. (\A e \in Doors : toggle[e].who \in Users => answers[toggle[e].who].status # "none")'
    BY <1>1, <1>4, <2>1 DEF DayInv, DoorsOK
  <2>3. (\A v \in Users : BoxOK(v))'
    BY <1>8
  <2> QED BY <1>4, <1>7, <2>2, <2>3 DEF DoorsOK
<1>10. FiguresOK' /\ PagesOK'
  BY <1>1, AnswersStay
<1> QED BY <1>1, <1>2, <1>9, <1>10 DEF DayInv

LEMMA DaySaves ==
  ASSUME DayInv, NEW d \in Doors, D!SaveBox(d)
  PROVE  DayInv'
<1> DEFINE w == toggle[d].who
<1>1. /\ UNCHANGED <<figures, priced, eventPage, served, meant, again>>
      /\ answers' = [answers EXCEPT ![w].marked = toggle[d].to]
      /\ toggle' = [toggle EXCEPT ![d] = D!NoToggle]
  BY DEF D!SaveBox
<1>2. /\ answers \in [Users -> D!Row] /\ \A v \in Users : RowOK(answers[v]) /\ BoxOK(v)
      /\ toggle \in [Doors -> [who : Users \cup {NoUser}, to : BOOLEAN]]
      /\ w \in Users => answers[w].status # "none"
  BY DEF DayInv, RowsOK, DoorsOK
<1>3. /\ toggle' \in [Doors -> [who : Users \cup {NoUser}, to : BOOLEAN]]
      /\ toggle'[d].who = NoUser /\ \A e \in Doors \ {d} : toggle'[e] = toggle[e]
  BY <1>1, <1>2 DEF D!NoToggle
<1>4. /\ answers' \in [Users -> D!Row]
      /\ \A v \in Users : /\ answers'[v].status = answers[v].status
                          /\ v # w => answers'[v] = answers[v]
                          /\ v = w => answers'[v].marked = toggle[d].to
  <2>1. CASE w \in Users
    <3>1. PICK r : r = [answers[w] EXCEPT !.marked = toggle[d].to]
      OBVIOUS
    <3>2. r \in D!Row /\ r.marked = toggle[d].to /\ r.status = answers[w].status
      BY <1>2, <2>1, <3>1 DEF D!Row
    <3>3. answers' = [answers EXCEPT ![w] = r]
      BY <1>1, <1>2, <2>1, <3>1
    <3> QED BY <1>2, <2>1, <3>2, <3>3
  <2>2. CASE w \notin Users
    <3>1. answers' = answers
      BY <1>1, <1>2, <2>2
    <3> QED BY <1>2, <2>2, <3>1
  <2> QED BY <2>1, <2>2
<1>5. RowsOK'
  <2>1. ASSUME NEW v \in Users PROVE RowOK(answers'[v])
    BY <1>2, <1>4 DEF RowOK
  <2> QED BY <1>4, <2>1 DEF RowsOK
<1>6. ASSUME NEW v \in Users PROVE BoxOK(v)'
  <2>1. BoxOK(v) /\ meant'[v] = meant[v]
    BY <1>1, <1>2
  <2>2. \A e \in Doors : toggle'[e].who = v => e # d /\ toggle[e].who = v /\ toggle'[e] = toggle[e]
    BY <1>3, DayConstants
  <2>3. CASE v = w
    <3>1. meant[v] # "unsure" => (\A e \in Doors : toggle'[e].who # v)
      BY <2>1, <2>2, <2>3 DEF BoxOK
    <3>2. meant[v] # "unsure" => (answers'[v].marked <=> meant[v] = "in")
      BY <1>4, <2>1, <2>3 DEF BoxOK
    <3> QED BY <2>1, <3>1, <3>2 DEF BoxOK
  <2>4. CASE v # w
    <3>1. answers'[v] = answers[v] /\ \A e \in Doors : toggle[e].who = v => toggle'[e].who = v
      BY <1>3, <1>4, <2>4
    <3> QED BY <2>1, <2>2, <3>1 DEF BoxOK
  <2> QED BY <2>3, <2>4
<1>7. DoorsOK'
  <2>1. (\A e \in Doors : toggle[e].who \in Users => answers[toggle[e].who].status # "none")'
    <3>1. ASSUME NEW e \in Doors, toggle'[e].who \in Users
          PROVE  answers'[toggle'[e].who].status # "none"
      <4>1. e # d /\ toggle'[e] = toggle[e]
        BY <1>3, <3>1, DayConstants
      <4> QED BY <1>4, <3>1, <4>1 DEF DayInv, DoorsOK
    <3> QED BY <3>1
  <2>2. (\A v \in Users : BoxOK(v))'
    BY <1>6
  <2> QED BY <1>1, <1>3, <2>1, <2>2 DEF DayInv, DoorsOK
<1>8. FiguresOK' /\ PagesOK'
  BY <1>1, <1>4, AnswersStay
<1> QED BY <1>1, <1>5, <1>7, <1>8 DEF DayInv

LEMMA DayCheckIn ==
  ASSUME DayInv, D!CheckInAll
  PROVE  DayInv'
<1>1. /\ UNCHANGED <<figures, priced, eventPage, toggle, served, again>>
      /\ answers' = [v \in Users |-> IF v \in D!Going THEN [answers[v] EXCEPT !.marked = TRUE]
                                     ELSE answers[v]]
      /\ meant' = D!MeantIn(D!Going \ D!Marked)
  BY DEF D!CheckInAll
<1>2. /\ answers \in [Users -> D!Row] /\ \A v \in Users : RowOK(answers[v]) /\ BoxOK(v)
      /\ meant \in [Users -> {"in", "out", "unsure"}]
  BY DEF DayInv, RowsOK, DoorsOK
<1>3. ASSUME NEW v \in Users
      PROVE  /\ answers'[v] \in D!Row /\ answers'[v].status = answers[v].status
             /\ RowOK(answers'[v])
             /\ v \in D!Going \ D!Marked => answers'[v].marked = TRUE
             /\ v \notin D!Going \ D!Marked => (answers'[v].marked <=> answers[v].marked)
  <2>1. CASE v \in D!Going
    <3>1. answers'[v] = [answers[v] EXCEPT !.marked = TRUE] /\ answers[v].status = "going"
      BY <1>1, <2>1 DEF D!Going
    <3>2. /\ answers'[v] \in D!Row /\ answers'[v].status = "going" /\ answers'[v].marked = TRUE
      BY <1>2, <3>1 DEF D!Row
    <3>3. v \notin D!Going \ D!Marked => answers[v].marked
      BY <2>1 DEF D!Marked
    <3> QED BY <3>1, <3>2, <3>3 DEF RowOK
  <2>2. CASE v \notin D!Going
    <3>1. answers'[v] = answers[v]
      BY <1>1, <2>2
    <3> QED BY <1>2, <2>2, <3>1 DEF RowOK
  <2> QED BY <2>1, <2>2
<1>4. RowsOK'
  BY <1>1, <1>3 DEF RowsOK
<1>5. meant' = [v \in Users |-> IF v \notin D!Going \ D!Marked THEN meant[v]
                                ELSE IF \E e \in Doors : toggle[e].who = v THEN "unsure"
                                ELSE IF meant[v] = "unsure" THEN "unsure" ELSE "in"]
  BY <1>1 DEF D!MeantIn
<1>6. meant' \in [Users -> {"in", "out", "unsure"}]
  BY <1>2, <1>5
<1>7. ASSUME NEW v \in Users PROVE BoxOK(v)'
  <2>1. CASE v \notin D!Going \ D!Marked
    <3>1. meant'[v] = meant[v]
      BY <1>5, <2>1
    <3> QED BY <1>1, <1>2, <1>3, <2>1, <3>1 DEF BoxOK
  <2>2. CASE v \in D!Going \ D!Marked
    <3>1. meant'[v] # "unsure" => meant'[v] = "in" /\ \A e \in Doors : toggle[e].who # v
      BY <1>5, <2>2
    <3> QED BY <1>1, <1>3, <2>2, <3>1 DEF BoxOK
  <2> QED BY <2>1, <2>2
<1>8. DoorsOK'
  <2>1. (\A v \in Users : BoxOK(v))'
    BY <1>7
  <2> QED BY <1>1, <1>3, <1>6, <2>1 DEF DayInv, DoorsOK
<1>9. FiguresOK' /\ PagesOK'
  BY <1>1, <1>3, AnswersStay
<1> QED BY <1>1, <1>4, <1>8, <1>9 DEF DayInv

LEMMA DayNext == DayInv /\ D!Next => DayInv'
  BY DayLooks, DayAnswers, DayCancels, DayPhones, DayPrices, DayTaps, DaySaves, DayCheckIn DEF D!Next

-----------------------------------------------------------------------------
(* Messages and inboxes                                                    *)

NoticesTyped ==
    /\ standing \in [People -> {"out", "waitlist", "going", "present"}]
    /\ active \in SUBSET People /\ suspended \in BOOLEAN
    /\ send \in Seq(N!Send) /\ Len(send) <= MaxSends
    /\ mail \in [People -> Seq(N!Notice)]
    /\ moves \in 0..MaxMoves /\ marks \in 0..MaxMarks /\ inTurn \in BOOLEAN

\* The notices of an inbox are of requests that have come, each of another,
\* and stay read by the first mark.
MailOK(u) ==
    \A i \in DOMAIN mail[u] :
       /\ mail[u][i].of \in DOMAIN send /\ mail[u][i].read = mail[u][i].first
       /\ \A j \in DOMAIN mail[u] : mail[u][i].of = mail[u][j].of => i = j

Has(u, k) == \E i \in DOMAIN mail[u] : mail[u][i].of = k

\* Nobody has the notice of a request that has not read its recipients; those
\* still to be told have not got it, and all the others it was to reach have,
\* but for those it could not write to.
RequestOK(s, k) ==
    /\ s.pc = "save" => s.kind \in N!ToAll
    /\ s.pc \in {"save", "read"} =>
          /\ s.todo = {} /\ s.missed = {}
          /\ \A u \in People : ~ Has(u, k)
          /\ s.meant \subseteq N!Recipients(s.kind)
    /\ \A u \in s.todo : ~ Has(u, k)
    /\ s.pc = "answered" => s.todo = {}
    /\ s.pc \in {"deliver", "answered"} =>
          \A u \in s.meant \ s.missed : u \in s.todo \/ Has(u, k)
SendOK(k) == RequestOK(send[k], k)

\* Requests about the community's status, and the last of them.
Changes == {k \in DOMAIN send : send[k].kind \in N!ToAll}
IsLast(k) == k \in Changes /\ \A j \in Changes : j <= k

\* Changes of the status that come one after the other: the last is the only
\* one that may be under way, it has loaded the status or written its own, and
\* the members hear of them in their order.
TurnOK ==
    inTurn =>
       /\ \A j, k \in Changes : j < k => N!Sent(j)
       /\ \A k \in Changes : IsLast(k) =>
             /\ send[k].pc = "save" => send[k].was = suspended
             /\ send[k].pc \in {"read", "deliver", "answered"}
                   => (suspended <=> send[k].kind = "suspended")
       /\ \A u \in People : \A i, j \in DOMAIN mail[u] :
             mail[u][i].of \in Changes /\ mail[u][j].of \in Changes /\ i <= j
                => mail[u][i].of <= mail[u][j].of
LastOK == Changes # {} => \E k \in Changes : IsLast(k)

NoticesInv ==
    /\ NoticesTyped
    /\ \A u \in People : MailOK(u)
    /\ \A k \in DOMAIN send : SendOK(k)
    /\ TurnOK /\ LastOK

LEMMA NoticesCounts ==
  /\ \A S : N!Cardinality(S) = Cardinality(S)
  /\ \A S : N!IsFiniteSet(S) <=> IsFiniteSet(S)
  BY DEF N!Cardinality, Cardinality, N!IsFiniteSet, IsFiniteSet

LEMMA NoticesConstants == MaxSends \in Nat /\ MaxMoves \in Nat /\ MaxMarks \in Nat
  BY PartsAssumption DEF N!NoticesAssumption

\* A set of positions of an inbox or of a list of requests is finite.
LEMMA PositionsFinite ==
  ASSUME NEW S, NEW s \in Seq(S), NEW is \in SUBSET DOMAIN s
  PROVE  IsFiniteSet(is) /\ Cardinality(is) \in Nat
<1>1. DOMAIN s = 1..Len(s) /\ Len(s) \in Nat
  OBVIOUS
<1>2. IsFiniteSet(DOMAIN s)
  BY <1>1, FS_Interval
<1>3. IsFiniteSet(is)
  BY <1>2, FS_Subset
<1> QED BY <1>3, FS_CardinalityType

LEMMA NoticesTypeOK == NoticesInv => N!TypeOK
<1> SUFFICES ASSUME NoticesInv PROVE N!TypeOK
  OBVIOUS
<1>1. \A k \in DOMAIN send : send[k] \in N!Send
  BY DEF NoticesInv, NoticesTyped
<1>2. \A u \in People : \A i \in DOMAIN mail[u] : mail[u][i] \in N!Notice
  BY DEF NoticesInv, NoticesTyped
<1> QED BY <1>1, <1>2 DEF N!TypeOK, NoticesInv, NoticesTyped

LEMMA AllTold == NoticesInv => N!EveryoneTold
<1> SUFFICES ASSUME NoticesInv, NEW k \in DOMAIN send, NEW u \in People
             PROVE  /\ N!Copies(u, k) <= 1
                    /\ send[k].pc = "answered" /\ u \in send[k].meant \ send[k].missed
                          => N!Copies(u, k) = 1
  BY DEF N!EveryoneTold
<1>1. PICK is : is = {i \in DOMAIN mail[u] : mail[u][i].of = k}
  OBVIOUS
<1>2. N!Copies(u, k) = Cardinality(is)
  BY <1>1, NoticesCounts DEF N!Copies
<1>3. CASE Has(u, k)
  <2>1. PICK i \in DOMAIN mail[u] : mail[u][i].of = k
    BY <1>3 DEF Has
  <2>2. is = {i}
    BY <1>1, <2>1 DEF NoticesInv, MailOK
  <2>3. Cardinality({i}) = 1
    BY FS_Singleton, Zenon
  <2> QED BY <1>2, <2>2, <2>3
<1>4. CASE ~ Has(u, k)
  <2>1. is = {}
    BY <1>1, <1>4 DEF Has
  <2>2. N!Copies(u, k) = 0
    BY <1>2, <2>1, FS_EmptySet
  <2>3. ~ (send[k].pc = "answered" /\ u \in send[k].meant \ send[k].missed)
    BY <1>4 DEF NoticesInv, SendOK, RequestOK
  <2> QED BY <2>2, <2>3
<1> QED BY <1>3, <1>4

LEMMA SentAsOften == NoticesInv => N!OncePerPress
<1> SUFFICES ASSUME NoticesInv, NEW m \in DOMAIN send, NEW u \in People
             PROVE  Cardinality({i \in DOMAIN mail[u] : send[mail[u][i].of].first = m})
                      <= Cardinality({k \in DOMAIN send : send[k].first = m})
  BY NoticesCounts DEF N!OncePerPress
<1>1. PICK is, ks : /\ is = {i \in DOMAIN mail[u] : send[mail[u][i].of].first = m}
                    /\ ks = {k \in DOMAIN send : send[k].first = m}
  OBVIOUS
<1>2. PICK f : f = [i \in is |-> mail[u][i].of]
  OBVIOUS
<1>3. f \in Injection(is, ks)
  <2>1. \A i \in is : i \in DOMAIN mail[u] /\ mail[u][i].of \in ks /\ f[i] = mail[u][i].of
    BY <1>1, <1>2 DEF NoticesInv, MailOK
  <2>2. f \in [is -> ks]
    BY <1>2, <2>1
  <2>3. \A i, j \in is : f[i] = f[j] => i = j
    BY <2>1 DEF NoticesInv, MailOK
  <2> QED BY <2>2, <2>3 DEF Injection, IsInjective
<1>4. IsFiniteSet(ks)
  BY <1>1, PositionsFinite DEF NoticesInv, NoticesTyped
<1>5. Cardinality(is) <= Cardinality(ks)
  BY <1>3, <1>4, FS_Injection
<1> QED BY <1>1, <1>5

LEMMA LastHeard == NoticesInv => N!LastSaysStatus
<1> SUFFICES ASSUME NoticesInv PROVE N!LastSaysStatus
  OBVIOUS
<1> DEFINE last == CHOOSE k \in Changes : \A j \in Changes : j <= k
<1> SUFFICES ASSUME inTurn, Changes # {}, send[last].pc = "answered",
                    NEW u \in send[last].meant \ send[last].missed
             PROVE  LET heard == {i \in DOMAIN mail[u] : send[mail[u][i].of].kind \in N!ToAll} IN
                    /\ heard # {}
                    /\ LET i == CHOOSE i \in heard : \A j \in heard : j <= i IN
                       (send[mail[u][i].of].kind = "suspended") = suspended
  BY DEF N!LastSaysStatus, Changes
<1>1. IsLast(last)
  <2>1. \E k \in Changes : \A j \in Changes : j <= k
    BY DEF NoticesInv, LastOK, IsLast
  <2> QED BY <2>1 DEF IsLast
<1>2. PICK k : k = last
  OBVIOUS
<1> HIDE DEF last
<1>3. /\ k \in DOMAIN send /\ k \in Changes /\ \A j \in Changes : j <= k
      /\ send[k].pc = "answered" /\ u \in send[k].meant \ send[k].missed
      /\ send \in Seq(N!Send) /\ DOMAIN send \subseteq Nat
  BY <1>1, <1>2 DEF IsLast, Changes, NoticesInv, NoticesTyped
<1>4. u \in People
  <2>1. send[k] \in N!Send
    BY <1>3
  <2> QED BY <1>3, <2>1 DEF N!Send
<1>5. PICK heard : heard = {i \in DOMAIN mail[u] : send[mail[u][i].of].kind \in N!ToAll}
  OBVIOUS
<1>6. PICK i \in DOMAIN mail[u] : mail[u][i].of = k
  BY <1>3, <1>4 DEF NoticesInv, SendOK, RequestOK, Has
<1>7. i \in heard
  BY <1>3, <1>5, <1>6 DEF Changes
<1>8. DOMAIN mail[u] \subseteq Nat
  BY <1>4 DEF NoticesInv, NoticesTyped
<1>9. ASSUME NEW j \in heard PROVE j <= i
  <2>1. j \in DOMAIN mail[u] /\ mail[u][j].of \in Changes
    BY <1>4, <1>5 DEF NoticesInv, MailOK, Changes
  <2>2. CASE i <= j
    <3>1. k <= mail[u][j].of
      BY <1>3, <1>4, <1>6, <2>1, <2>2 DEF NoticesInv, TurnOK
    <3>2. mail[u][j].of = k
      BY <1>3, <2>1, <3>1 DEF Changes
    <3>3. j = i
      BY <1>4, <1>6, <2>1, <3>2 DEF NoticesInv, MailOK
    <3> QED BY <1>8, <3>3
  <2> QED BY <1>8, <2>1, <2>2
<1>10. (CHOOSE h \in heard : \A j \in heard : j <= h) = i
  <2>1. \A h \in heard : (\A j \in heard : j <= h) => h = i
    BY <1>5, <1>7, <1>8, <1>9
  <2> QED BY <1>7, <1>9, <2>1
<1>11. suspended <=> send[k].kind = "suspended"
  BY <1>1, <1>2, <1>3 DEF NoticesInv, TurnOK
<1>12. suspended \in BOOLEAN
  BY DEF NoticesInv, NoticesTyped
<1>13. (send[mail[u][i].of].kind = "suspended") = suspended
  BY <1>6, <1>11, <1>12
<1> QED BY <1>5, <1>7, <1>10, <1>13

LEMMA FiltersAdd == NoticesInv => N!BadgesAddUp
<1> SUFFICES ASSUME NoticesInv, NEW u \in People
             PROVE  N!Badge(u, "events") + N!Badge(u, "recap") + N!Badge(u, "community")
                      = Cardinality(N!Unread(u))
  BY NoticesCounts DEF N!BadgesAddUp
<1> DEFINE Of(bucket) == {i \in N!Unread(u) : N!Bucket(send[mail[u][i].of].kind) = bucket}
<1>1. PICK a, b, c : a = Of("events") /\ b = Of("recap") /\ c = Of("community")
  OBVIOUS
<1>2. N!Unread(u) = a \cup b \cup c
  <2>1. ASSUME NEW i \in N!Unread(u)
        PROVE  N!Bucket(send[mail[u][i].of].kind) \in {"events", "recap", "community"}
    <3>1. send[mail[u][i].of] \in N!Send
      BY <2>1 DEF N!Unread, NoticesInv, NoticesTyped, MailOK
    <3>2. send[mail[u][i].of].kind \in N!Kinds
      BY <3>1 DEF N!Send
    <3> QED BY <3>2 DEF N!Bucket, N!Kinds, N!ToAll
  <2> QED BY <1>1, <2>1
<1>3. a \cap b = {} /\ (a \cup b) \cap c = {}
  BY <1>1
<1>4. \A is \in SUBSET DOMAIN mail[u] : IsFiniteSet(is) /\ Cardinality(is) \in Nat
  BY PositionsFinite DEF NoticesInv, NoticesTyped
<1>5. a \in SUBSET DOMAIN mail[u] /\ b \in SUBSET DOMAIN mail[u] /\ c \in SUBSET DOMAIN mail[u]
  BY <1>1 DEF N!Unread
<1>6. /\ IsFiniteSet(a) /\ IsFiniteSet(b) /\ IsFiniteSet(c) /\ IsFiniteSet(a \cup b)
      /\ Cardinality(a) \in Nat /\ Cardinality(b) \in Nat /\ Cardinality(c) \in Nat
      /\ Cardinality(a \cup b) \in Nat
  BY <1>4, <1>5
<1>7. Cardinality(a \cup b) = Cardinality(a) + Cardinality(b)
  <2>1. Cardinality(a \cup b) = Cardinality(a) + Cardinality(b) - Cardinality(a \cap b)
    BY <1>6, FS_Union
  <2>2. Cardinality(a \cap b) = 0
    BY <1>3, FS_EmptySet
  <2> QED BY <1>6, <2>1, <2>2
<1>8. Cardinality((a \cup b) \cup c) = Cardinality(a \cup b) + Cardinality(c)
  <2>1. Cardinality((a \cup b) \cup c)
          = Cardinality(a \cup b) + Cardinality(c) - Cardinality((a \cup b) \cap c)
    BY <1>6, FS_Union
  <2>2. Cardinality((a \cup b) \cap c) = 0
    BY <1>3, FS_EmptySet
  <2> QED BY <1>6, <2>1, <2>2
<1>9. /\ N!Badge(u, "events") = Cardinality(a) /\ N!Badge(u, "recap") = Cardinality(b)
      /\ N!Badge(u, "community") = Cardinality(c)
  BY <1>1, NoticesCounts DEF N!Badge
<1> QED BY <1>2, <1>6, <1>7, <1>8, <1>9

LEMMA NoticesImply == NoticesInv => N!TypeOK /\ N!NoticesWork
<1>1. NoticesInv => N!ReadOnce
  BY DEF N!ReadOnce, NoticesInv, MailOK
<1> QED BY <1>1, NoticesTypeOK, AllTold, SentAsOften, LastHeard, FiltersAdd DEF N!NoticesWork

LEMMA NoticesInit == N!Init => NoticesInv
<1> SUFFICES ASSUME N!Init PROVE NoticesInv
  OBVIOUS
<1>1. send = <<>> /\ \A u \in People : mail[u] = <<>>
  BY DEF N!Init
<1>2. NoticesTyped
  <2>1. mail \in [People -> Seq(N!Notice)]
    BY DEF N!Init
  <2>2. standing \in [People -> {"out", "waitlist", "going", "present"}]
    BY DEF N!Init
  <2>3. send \in Seq(N!Send) /\ Len(send) <= MaxSends
    BY <1>1, NoticesConstants
  <2>4. active \in SUBSET People /\ suspended \in BOOLEAN /\ inTurn \in BOOLEAN
    BY Zenon DEF N!Init
  <2>5. moves \in 0..MaxMoves /\ marks \in 0..MaxMarks
    BY NoticesConstants DEF N!Init
  <2> QED BY <2>1, <2>2, <2>3, <2>4, <2>5 DEF NoticesTyped
<1>3. \A u \in People : MailOK(u)
  BY <1>1 DEF MailOK
<1>4. Changes = {} /\ \A k \in DOMAIN send : SendOK(k)
  BY <1>1 DEF Changes
<1>5. TurnOK /\ LastOK
  BY <1>1, <1>4 DEF TurnOK, LastOK
<1> QED BY <1>2, <1>3, <1>4, <1>5 DEF NoticesInv

LEMMA NoticesStutter == NoticesInv /\ UNCHANGED mailVars => NoticesInv'
<1> SUFFICES ASSUME NoticesInv, UNCHANGED mailVars PROVE NoticesInv'
  OBVIOUS
<1> USE DEF mailVars
<1>1. NoticesTyped'
  BY DEF NoticesInv, NoticesTyped
<1>2. \A u \in People : MailOK(u)'
  BY DEF NoticesInv, MailOK
<1>3. \A k \in DOMAIN send : SendOK(k)'
  BY DEF NoticesInv, SendOK, RequestOK, Has, N!Recipients
<1>4. Changes' = Changes
  BY DEF Changes
<1>5. TurnOK' /\ LastOK'
  BY <1>4 DEF NoticesInv, TurnOK, LastOK, IsLast, N!Sent
<1> QED BY <1>1, <1>2, <1>3, <1>5 DEF NoticesInv

-----------------------------------------------------------------------------
(* Steps of the messages                                                   *)

\* One request moves on.
LEMMA RequestMoves ==
  ASSUME NoticesInv, NEW k \in DOMAIN send, NEW s \in N!Send,
         send' = [send EXCEPT ![k] = s], s.kind = send[k].kind
  PROVE  /\ send' \in Seq(N!Send) /\ Len(send') = Len(send) /\ DOMAIN send' = DOMAIN send
         /\ send'[k] = s /\ \A j \in DOMAIN send : j # k => send'[j] = send[j]
         /\ Changes' = Changes
<1>1. send \in Seq(N!Send)
  BY DEF NoticesInv, NoticesTyped
<1>2. /\ send' \in Seq(N!Send) /\ Len(send') = Len(send) /\ DOMAIN send' = DOMAIN send
      /\ send'[k] = s /\ \A j \in DOMAIN send : j # k => send'[j] = send[j]
  BY <1>1
<1>3. Changes' = Changes
  BY <1>2 DEF Changes
<1> QED BY <1>2, <1>3

\* A request that had its recipients to read or to tell is told, or fails: the
\* order of the changes stays.
LEMMA TurnStays ==
  ASSUME NoticesInv, NEW k \in DOMAIN send, NEW s \in N!Send,
         send' = [send EXCEPT ![k] = s], s.kind = send[k].kind,
         UNCHANGED <<suspended, inTurn>>,
         \/ s.pc = "failed"
         \/ send[k].pc \in {"read", "deliver"} /\ s.pc \in {"deliver", "answered"},
         inTurn => \A u \in People : \A i, j \in DOMAIN mail'[u] :
                      mail'[u][i].of \in Changes /\ mail'[u][j].of \in Changes /\ i <= j
                         => mail'[u][i].of <= mail'[u][j].of
  PROVE  TurnOK' /\ LastOK'
<1>1. /\ Changes' = Changes /\ send'[k] = s
      /\ \A j \in DOMAIN send : j # k => send'[j] = send[j]
  BY RequestMoves
<1>2. Changes \subseteq DOMAIN send
  BY DEF Changes
<1>3. LastOK'
  BY <1>1 DEF NoticesInv, LastOK, IsLast
<1>4. TurnOK'
  <2> SUFFICES ASSUME inTurn PROVE TurnOK'
    BY DEF TurnOK
  <2>1. ASSUME NEW j \in Changes, NEW l \in Changes, j < l PROVE N!Sent(j)'
    <3>1. N!Sent(j)
      BY <2>1 DEF NoticesInv, TurnOK
    <3> QED BY <1>1, <1>2, <3>1 DEF N!Sent
  <2>2. ASSUME NEW l \in Changes, IsLast(l)
        PROVE  send'[l].pc \in {"save", "read", "deliver", "answered"} =>
                  /\ send'[l].pc = "save" => send'[l].was = suspended
                  /\ send'[l].pc \in {"read", "deliver", "answered"}
                        => (suspended <=> send'[l].kind = "suspended")
    <3>1. /\ send[l].pc = "save" => send[l].was = suspended
          /\ send[l].pc \in {"read", "deliver", "answered"}
                => (suspended <=> send[l].kind = "suspended")
      BY <2>2 DEF NoticesInv, TurnOK
    <3> QED BY <1>1, <1>2, <3>1
  <2> QED BY <1>1, <2>1, <2>2 DEF TurnOK, IsLast
<1> QED BY <1>3, <1>4

\* A request moves on and the inboxes stay.
LEMMA InboxesStay ==
  ASSUME NoticesInv, NEW k \in DOMAIN send, NEW s \in N!Send,
         send' = [send EXCEPT ![k] = s], s.kind = send[k].kind, RequestOK(s, k),
         UNCHANGED <<standing, active, mail, moves, marks, inTurn>>,
         suspended' \in BOOLEAN, TurnOK', LastOK'
  PROVE  NoticesInv'
<1>1. /\ send' \in Seq(N!Send) /\ Len(send') = Len(send) /\ DOMAIN send' = DOMAIN send
      /\ send'[k] = s /\ \A j \in DOMAIN send : j # k => send'[j] = send[j]
  BY RequestMoves
<1>2. NoticesTyped'
  BY <1>1 DEF NoticesInv, NoticesTyped
<1>3. \A u \in People : MailOK(u)'
  BY <1>1 DEF NoticesInv, MailOK
<1>4. ASSUME NEW j \in DOMAIN send PROVE SendOK(j)'
  <2>1. RequestOK(send'[j], j)
    BY <1>1 DEF NoticesInv, SendOK
  <2> QED BY <2>1 DEF SendOK, RequestOK, Has, N!Recipients
<1> QED BY <1>1, <1>2, <1>3, <1>4 DEF NoticesInv

LEMMA StatusSaves ==
  ASSUME NoticesInv, NEW k \in DOMAIN send, N!SaveStatus(k)
  PROVE  NoticesInv'
<1>1. send[k] \in N!Send /\ RequestOK(send[k], k) /\ suspended \in BOOLEAN
  BY DEF NoticesInv, NoticesTyped, SendOK
<1>2. PICK s : s = [send[k] EXCEPT !.pc = "read"]
  OBVIOUS
<1>3. /\ send[k].pc = "save" /\ send' = [send EXCEPT ![k] = s]
      /\ UNCHANGED <<standing, active, mail, moves, marks, inTurn>>
  BY <1>1, <1>2 DEF N!SaveStatus, N!Send
<1>4. /\ s \in N!Send /\ s.kind = send[k].kind /\ s.pc = "read" /\ s.todo = send[k].todo
      /\ s.missed = send[k].missed /\ s.meant = send[k].meant
  BY <1>1, <1>2 DEF N!Send
<1>5. RequestOK(s, k)
  BY <1>1, <1>3, <1>4 DEF RequestOK
<1>6. /\ Changes' = Changes /\ send'[k] = s
      /\ \A j \in DOMAIN send : j # k => send'[j] = send[j]
  BY <1>3, <1>4, RequestMoves
<1>7. LastOK'
  BY <1>6 DEF NoticesInv, LastOK, IsLast
<1>8. k \in Changes /\ Changes \subseteq DOMAIN send /\ DOMAIN send \subseteq Nat
  BY <1>1, <1>3 DEF Changes, RequestOK, NoticesInv, NoticesTyped
<1>9. suspended' = IF (send[k].kind = "suspended") # send[k].was
                   THEN send[k].kind = "suspended" ELSE suspended
  BY DEF N!SaveStatus
<1>10. send[k].was \in BOOLEAN
  BY <1>1 DEF N!Send
<1>11. suspended' \in BOOLEAN
  BY <1>1, <1>9, Zenon
<1>12. TurnOK'
  <2> SUFFICES ASSUME inTurn PROVE TurnOK'
    BY <1>3 DEF TurnOK
  <2>1. \A j \in Changes : j <= k
    BY <1>3, <1>8 DEF NoticesInv, TurnOK, N!Sent
  <2>2. ASSUME NEW j \in Changes, NEW l \in Changes, j < l PROVE N!Sent(j)'
    <3>1. N!Sent(j)
      BY <2>2 DEF NoticesInv, TurnOK
    <3>2. j # k
      BY <1>3, <3>1 DEF N!Sent
    <3> QED BY <1>6, <1>8, <3>1, <3>2 DEF N!Sent
  <2>3. send[k].was = suspended
    BY <1>3, <1>8, <2>1 DEF NoticesInv, TurnOK, IsLast
  <2>4. suspended' <=> send[k].kind = "suspended"
    BY <1>1, <1>9, <1>10, <2>3
  <2>5. ASSUME NEW l \in Changes, \A j \in Changes : j <= l PROVE l = k
    BY <1>8, <2>1, <2>5
  <2> QED BY <1>3, <1>4, <1>6, <2>2, <2>4, <2>5 DEF NoticesInv, TurnOK, IsLast
<1> QED BY <1>3, <1>4, <1>5, <1>7, <1>11, <1>12, InboxesStay

LEMMA RecipientsRead ==
  ASSUME NoticesInv, NEW k \in DOMAIN send, N!ReadRecipients(k)
  PROVE  NoticesInv'
<1>1. send[k] \in N!Send /\ RequestOK(send[k], k) /\ suspended \in BOOLEAN
  BY DEF NoticesInv, NoticesTyped, SendOK
<1>2. PICK us : us = N!Recipients(send[k].kind)
  OBVIOUS
<1>3. PICK s : s = [send[k] EXCEPT !.todo = us, !.pc = IF us = {} THEN "answered" ELSE "deliver"]
  OBVIOUS
<1>4. /\ send[k].pc = "read" /\ send' = [send EXCEPT ![k] = s]
      /\ UNCHANGED <<standing, active, suspended, mail, moves, marks, inTurn>>
  BY <1>1, <1>2, <1>3 DEF N!ReadRecipients, N!Send
<1>5. us \in SUBSET People
  BY <1>2 DEF N!Recipients
<1>6. /\ s \in N!Send /\ s.kind = send[k].kind /\ s.pc \in {"deliver", "answered"}
      /\ s.pc = "answered" => us = {}
      /\ s.todo = us /\ s.missed = send[k].missed /\ s.meant = send[k].meant
  BY <1>1, <1>3, <1>5 DEF N!Send
<1>7. RequestOK(s, k)
  BY <1>1, <1>2, <1>4, <1>5, <1>6 DEF RequestOK
<1>8. TurnOK' /\ LastOK'
  BY <1>4, <1>6, TurnStays DEF NoticesInv, TurnOK
<1> QED BY <1>1, <1>4, <1>6, <1>7, <1>8, InboxesStay

LEMMA RequestFails ==
  ASSUME NoticesInv, NEW k \in DOMAIN send, N!Fail(k)
  PROVE  NoticesInv'
<1>1. send[k] \in N!Send /\ RequestOK(send[k], k) /\ suspended \in BOOLEAN
  BY DEF NoticesInv, NoticesTyped, SendOK
<1>2. PICK s : s = [send[k] EXCEPT !.pc = "failed"]
  OBVIOUS
<1>3. /\ send' = [send EXCEPT ![k] = s]
      /\ UNCHANGED <<standing, active, suspended, mail, moves, marks, inTurn>>
  BY <1>1, <1>2 DEF N!Fail, N!Send
<1>4. /\ s \in N!Send /\ s.kind = send[k].kind /\ s.pc = "failed" /\ s.todo = send[k].todo
  BY <1>1, <1>2 DEF N!Send
<1>5. RequestOK(s, k)
  BY <1>1, <1>4 DEF RequestOK
<1>6. TurnOK' /\ LastOK'
  BY <1>3, <1>4, TurnStays DEF NoticesInv, TurnOK
<1> QED BY <1>1, <1>3, <1>4, <1>5, <1>6, InboxesStay

\* Of those still to be told, one is through.
LEMMA OneLess ==
  ASSUME NoticesInv, NEW k \in DOMAIN send, NEW u \in send[k].todo, send[k].pc = "deliver"
  PROVE  /\ N!Without(k, u) \in N!Send /\ N!Without(k, u).kind = send[k].kind
         /\ N!Without(k, u).pc \in {"deliver", "answered"}
         /\ N!Without(k, u).todo = send[k].todo \ {u}
         /\ N!Without(k, u).pc = "answered" => N!Without(k, u).todo = {}
         /\ N!Without(k, u).meant = send[k].meant /\ N!Without(k, u).missed = send[k].missed
<1>1. send[k] \in N!Send
  BY DEF NoticesInv, NoticesTyped
<1> QED BY <1>1 DEF N!Without, N!Send

LEMMA NoticeMissed ==
  ASSUME NoticesInv, NEW k \in DOMAIN send, NEW u \in People, N!Miss(k, u)
  PROVE  NoticesInv'
<1>1. send[k] \in N!Send /\ RequestOK(send[k], k) /\ suspended \in BOOLEAN
  BY DEF NoticesInv, NoticesTyped, SendOK
<1>2. PICK w : w = N!Without(k, u)
  OBVIOUS
<1>3. PICK s : s = [w EXCEPT !.missed = w.missed \cup {u}]
  OBVIOUS
<1>4. /\ send[k].pc = "deliver" /\ u \in send[k].todo
      /\ UNCHANGED <<standing, active, suspended, mail, moves, marks, inTurn>>
  BY DEF N!Miss
<1>5. /\ w \in N!Send /\ w.kind = send[k].kind /\ w.pc \in {"deliver", "answered"}
      /\ w.todo = send[k].todo \ {u} /\ (w.pc = "answered" => w.todo = {})
      /\ w.meant = send[k].meant /\ w.missed = send[k].missed
  BY <1>2, <1>4, OneLess
<1>6. send' = [send EXCEPT ![k] = s]
  BY <1>2, <1>3 DEF N!Miss
<1>7. /\ s \in N!Send /\ s.kind = send[k].kind /\ s.pc \in {"deliver", "answered"}
      /\ s.todo = send[k].todo \ {u} /\ (s.pc = "answered" => s.todo = {})
      /\ s.meant = send[k].meant /\ s.missed = send[k].missed \cup {u}
  BY <1>3, <1>5 DEF N!Send
<1>8. RequestOK(s, k)
  BY <1>1, <1>4, <1>7 DEF RequestOK
<1>9. TurnOK' /\ LastOK'
  BY <1>4, <1>6, <1>7, TurnStays DEF NoticesInv, TurnOK
<1> QED BY <1>1, <1>4, <1>6, <1>7, <1>8, <1>9, InboxesStay

LEMMA NoticeDelivered ==
  ASSUME NoticesInv, NEW k \in DOMAIN send, NEW u \in People, N!Deliver(k, u)
  PROVE  NoticesInv'
<1>1. /\ send[k] \in N!Send /\ RequestOK(send[k], k) /\ k \in N!Numbers /\ k \in Nat
      /\ mail \in [People -> Seq(N!Notice)] /\ mail[u] \in Seq(N!Notice)
  <2>1. send \in Seq(N!Send) /\ Len(send) <= MaxSends /\ mail \in [People -> Seq(N!Notice)]
    BY DEF NoticesInv, NoticesTyped
  <2>2. k \in N!Numbers /\ k \in Nat
    BY <2>1, NoticesConstants DEF N!Numbers
  <2>3. RequestOK(send[k], k)
    BY DEF NoticesInv, SendOK
  <2> QED BY <2>1, <2>2, <2>3
<1>2. /\ send[k].pc = "deliver" /\ u \in send[k].todo
      /\ UNCHANGED <<standing, active, suspended, moves, marks, inTurn>>
  BY DEF N!Deliver
<1>3. PICK s : s = N!Without(k, u)
  OBVIOUS
<1>4. /\ s \in N!Send /\ s.kind = send[k].kind /\ s.pc \in {"deliver", "answered"}
      /\ s.todo = send[k].todo \ {u} /\ (s.pc = "answered" => s.todo = {})
      /\ s.meant = send[k].meant /\ s.missed = send[k].missed
  BY <1>2, <1>3, OneLess
<1>5. send' = [send EXCEPT ![k] = s]
  BY <1>3 DEF N!Deliver
<1>6. PICK n : n = [of |-> k, read |-> 0, first |-> 0]
  OBVIOUS
<1>7. n \in N!Notice /\ n.of = k /\ n.read = n.first
  BY <1>1, <1>6, NoticesConstants DEF N!Notice
<1>8. PICK box : box = Append(mail[u], n)
  OBVIOUS
<1>9. PICK last : last = Len(mail[u]) + 1
  OBVIOUS
<1>10. /\ box \in Seq(N!Notice) /\ DOMAIN box = DOMAIN mail[u] \cup {last} /\ box[last] = n
       /\ \A i \in DOMAIN mail[u] : box[i] = mail[u][i] /\ i \in Nat /\ i < last
       /\ last \in Nat
  BY <1>1, <1>7, <1>8, <1>9
<1>11. mail' = [mail EXCEPT ![u] = box]
  BY <1>1, <1>6, <1>8 DEF N!Deliver
<1>12. /\ mail' \in [People -> Seq(N!Notice)] /\ mail'[u] = box
       /\ \A v \in People : v # u => mail'[v] = mail[v]
  BY <1>1, <1>10, <1>11
<1>13. /\ send' \in Seq(N!Send) /\ Len(send') = Len(send) /\ DOMAIN send' = DOMAIN send
       /\ send'[k] = s /\ \A j \in DOMAIN send : j # k => send'[j] = send[j]
       /\ Changes' = Changes
  BY <1>4, <1>5, RequestMoves
<1>14. ~ Has(u, k)
  BY <1>1, <1>2 DEF RequestOK
<1>15. NoticesTyped'
  BY <1>2, <1>12, <1>13 DEF NoticesInv, NoticesTyped
<1>16. ASSUME NEW v \in People PROVE MailOK(v)'
  <2>1. CASE v = u
    <3>1. MailOK(u) /\ mail'[v] = box
      BY <1>12, <2>1 DEF NoticesInv
    <3> QED BY <1>7, <1>10, <1>13, <1>14, <2>1, <3>1 DEF MailOK, Has
  <2>2. CASE v # u
    <3>1. MailOK(v) /\ mail'[v] = mail[v]
      BY <1>12, <2>2 DEF NoticesInv
    <3> QED BY <1>13, <3>1 DEF MailOK
  <2> QED BY <2>1, <2>2
<1>17. ASSUME NEW v \in People, NEW j \in DOMAIN send
       PROVE  (\E i \in DOMAIN mail'[v] : mail'[v][i].of = j) <=> Has(v, j) \/ (v = u /\ j = k)
  <2>1. CASE v = u
    <3>1. mail'[v] = box
      BY <1>12, <2>1
    <3> QED BY <1>7, <1>10, <2>1, <3>1 DEF Has
  <2>2. CASE v # u
    BY <1>12, <2>2 DEF Has
  <2> QED BY <2>1, <2>2
<1>18. ASSUME NEW j \in DOMAIN send PROVE SendOK(j)'
  <2>1. \A v \in People : Has(v, j)' <=> Has(v, j) \/ (v = u /\ j = k)
    BY <1>17 DEF Has
  <2>2. \A kind : N!Recipients(kind)' = N!Recipients(kind)
    BY <1>2 DEF N!Recipients
  <2>3. send[j] \in N!Send
    BY DEF NoticesInv, NoticesTyped
  <2>4. send[j].todo \subseteq People /\ send[j].meant \subseteq People
    BY <2>3 DEF N!Send
  <2>5. CASE j = k
    <3>1. RequestOK(s, j)'
      BY <1>1, <1>2, <1>4, <2>1, <2>4, <2>5 DEF RequestOK
    <3> QED BY <1>13, <2>5, <3>1 DEF SendOK
  <2>6. CASE j # k
    <3>1. RequestOK(send[j], j)
      BY DEF NoticesInv, SendOK
    <3>2. \A v \in People : Has(v, j)' <=> Has(v, j)
      BY <2>1, <2>6
    <3>3. send'[j] = send[j]
      BY <1>13, <2>6
    <3> QED BY <2>2, <2>4, <3>1, <3>2, <3>3 DEF SendOK, RequestOK
  <2> QED BY <2>5, <2>6
<1>19. TurnOK' /\ LastOK'
  <2>1. ASSUME inTurn, NEW v \in People, NEW i \in DOMAIN mail'[v], NEW j \in DOMAIN mail'[v],
               mail'[v][i].of \in Changes, mail'[v][j].of \in Changes, i <= j
        PROVE  mail'[v][i].of <= mail'[v][j].of
    <3>1. CASE v # u
      BY <1>12, <2>1, <3>1 DEF NoticesInv, TurnOK
    <3>2. CASE v = u
      <4>1. mail'[v] = box
        BY <1>12, <3>2
      <4>2. CASE i = last
        <5>1. j = last
          BY <1>10, <2>1, <4>1, <4>2
        <5> QED BY <1>1, <1>7, <1>10, <4>1, <4>2, <5>1
      <4>3. CASE i # last /\ j = last
        <5>1. mail'[v][j].of = k /\ k \in Changes /\ ~ N!Sent(k)
          BY <1>2, <1>7, <1>10, <2>1, <4>1, <4>3 DEF N!Sent
        <5>2. mail'[v][i].of \in Nat
          BY <2>1 DEF Changes, NoticesInv, NoticesTyped
        <5> QED BY <1>1, <2>1, <5>1, <5>2 DEF NoticesInv, TurnOK
      <4>4. CASE i # last /\ j # last
        <5>1. /\ i \in DOMAIN mail[u] /\ j \in DOMAIN mail[u]
              /\ mail'[v][i] = mail[u][i] /\ mail'[v][j] = mail[u][j]
          BY <1>10, <2>1, <4>1, <4>4
        <5> QED BY <2>1, <5>1 DEF NoticesInv, TurnOK
      <4> QED BY <4>2, <4>3, <4>4
    <3> QED BY <3>1, <3>2
  <2> QED BY <1>2, <1>4, <1>5, <2>1, TurnStays
<1> QED BY <1>13, <1>15, <1>16, <1>18, <1>19 DEF NoticesInv

\* A request comes.
LEMMA RequestArrives ==
  ASSUME NoticesInv, NEW kind \in N!Kinds, NEW pc \in {"save", "read"}, NEW first \in N!Numbers,
         N!Arrive(kind, pc, first),
         UNCHANGED <<standing, active, suspended, mail, moves, marks>>,
         inTurn' \in BOOLEAN, inTurn' => inTurn,
         kind \in N!ToAll <=> pc = "save",
         kind \in N!ToAll /\ inTurn' => N!Changing = {}
  PROVE  NoticesInv'
<1>1. send \in Seq(N!Send) /\ Len(send) \in Nat /\ DOMAIN send = 1..Len(send) /\ suspended \in BOOLEAN
  BY DEF NoticesInv, NoticesTyped
<1>2. PICK r : r = [kind |-> kind, pc |-> pc, was |-> suspended, first |-> first,
                    todo |-> {}, meant |-> N!Recipients(kind), missed |-> {}]
  OBVIOUS
<1>3. /\ r \in N!Send /\ r.kind = kind /\ r.pc = pc /\ r.was = suspended
      /\ r.todo = {} /\ r.missed = {} /\ r.meant = N!Recipients(kind)
  BY <1>1, <1>2 DEF N!Send, N!Recipients
<1>4. PICK n : n = Len(send) + 1
  OBVIOUS
<1>5. /\ send' \in Seq(N!Send) /\ Len(send') = n /\ DOMAIN send' = DOMAIN send \cup {n}
      /\ send'[n] = r /\ n \notin DOMAIN send
      /\ \A j \in DOMAIN send : send'[j] = send[j] /\ j < n
  BY <1>1, <1>2, <1>3, <1>4 DEF N!Arrive
<1>6. NoticesTyped'
  <2>1. Len(send) < MaxSends
    BY DEF N!Arrive
  <2>2. Len(send') <= MaxSends
    BY <1>1, <1>4, <1>5, <2>1, NoticesConstants
  <2> QED BY <1>5, <2>2 DEF NoticesInv, NoticesTyped
<1>7. \A u \in People : MailOK(u)'
  BY <1>5 DEF NoticesInv, MailOK
<1>8. ASSUME NEW j \in DOMAIN send' PROVE SendOK(j)'
  <2>1. CASE j = n
    <3>1. \A u \in People : ~ Has(u, n)
      BY <1>5 DEF NoticesInv, MailOK, Has
    <3>2. RequestOK(r, n)
      BY <1>3, <3>1 DEF RequestOK
    <3> QED BY <1>5, <2>1, <3>2 DEF SendOK, RequestOK, Has, N!Recipients
  <2>2. CASE j # n
    <3>1. RequestOK(send'[j], j)
      BY <1>5, <2>2 DEF NoticesInv, SendOK
    <3> QED BY <3>1 DEF SendOK, RequestOK, Has, N!Recipients
  <2> QED BY <2>1, <2>2
<1>9. Changes \subseteq DOMAIN send /\ DOMAIN send \subseteq Nat /\ n \in Nat
  BY <1>1, <1>4 DEF Changes
<1>10. Changes' = IF kind \in N!ToAll THEN Changes \cup {n} ELSE Changes
  BY <1>3, <1>5 DEF Changes
<1>11. LastOK'
  <2>1. CASE kind \in N!ToAll
    <3>1. n \in Changes' /\ \A j \in Changes' : j <= n
      BY <1>5, <1>9, <1>10, <2>1
    <3> QED BY <3>1 DEF LastOK, IsLast
  <2>2. CASE kind \notin N!ToAll
    <3>1. Changes' = Changes
      BY <1>10, <2>2
    <3> QED BY <3>1 DEF NoticesInv, LastOK, IsLast
  <2> QED BY <2>1, <2>2
<1>12. TurnOK'
  <2> SUFFICES ASSUME inTurn' PROVE TurnOK'
    BY DEF TurnOK
  <2>1. inTurn
    OBVIOUS
  <2>2. ASSUME NEW j \in Changes', NEW l \in Changes', j < l PROVE N!Sent(j)'
    <3>1. j \in Changes
      BY <1>5, <1>9, <1>10, <2>2
    <3>2. N!Sent(j)
      <4>1. CASE l \in Changes
        BY <2>1, <2>2, <3>1, <4>1 DEF NoticesInv, TurnOK
      <4>2. CASE l \notin Changes
        <5>1. N!Changing = {}
          BY <1>10, <2>2, <4>2
        <5> QED BY <3>1, <5>1 DEF N!Changing, Changes
      <4> QED BY <4>1, <4>2
    <3>3. send'[j] = send[j]
      BY <1>5, <1>9, <3>1
    <3> QED BY <3>2, <3>3 DEF N!Sent
  <2>3. ASSUME NEW l \in Changes', \A j \in Changes' : j <= l
        PROVE  /\ send'[l].pc = "save" => send'[l].was = suspended
               /\ send'[l].pc \in {"read", "deliver", "answered"}
                     => (suspended <=> send'[l].kind = "suspended")
    <3>1. CASE kind \in N!ToAll
      <4>1. l = n
        BY <1>5, <1>9, <1>10, <2>3, <3>1
      <4> QED BY <1>3, <1>5, <3>1, <4>1
    <3>2. CASE kind \notin N!ToAll
      <4>1. l \in Changes /\ IsLast(l) /\ send'[l] = send[l]
        BY <1>5, <1>9, <1>10, <2>3, <3>2 DEF IsLast
      <4> QED BY <2>1, <4>1 DEF NoticesInv, TurnOK
    <3> QED BY <3>1, <3>2
  <2>4. ASSUME NEW u \in People, NEW i \in DOMAIN mail[u], NEW j \in DOMAIN mail[u],
               mail[u][i].of \in Changes', mail[u][j].of \in Changes', i <= j
        PROVE  mail[u][i].of <= mail[u][j].of
    <3>1. mail[u][i].of \in Changes /\ mail[u][j].of \in Changes
      BY <1>5, <1>10, <2>4 DEF NoticesInv, MailOK
    <3> QED BY <2>1, <2>4, <3>1 DEF NoticesInv, TurnOK
  <2> QED BY <2>2, <2>3, <2>4 DEF TurnOK, IsLast
<1> QED BY <1>6, <1>7, <1>8, <1>11, <1>12 DEF NoticesInv

LEMMA RequestsArrive ==
  ASSUME NoticesInv, NEW kind \in N!Kinds, N!BeginSend(kind) \/ N!BeginStatus(kind)
  PROVE  NoticesInv'
<1>1. Len(send) \in Nat /\ inTurn \in BOOLEAN
  BY DEF NoticesInv, NoticesTyped
<1>2. Len(send) < MaxSends
  BY DEF N!BeginSend, N!BeginStatus, N!Arrive
<1>3. Len(send) + 1 \in N!Numbers
  BY <1>1, <1>2, NoticesConstants DEF N!Numbers
<1>4. CASE N!BeginSend(kind)
  <2>1. kind \notin N!ToAll /\ N!Arrive(kind, "read", Len(send) + 1)
    BY <1>4 DEF N!BeginSend, N!ToAll
  <2>2. UNCHANGED <<standing, active, suspended, mail, moves, marks, inTurn>>
    BY <1>4 DEF N!BeginSend
  <2> QED BY <1>1, <1>3, <2>1, <2>2, RequestArrives
<1>5. CASE N!BeginStatus(kind)
  <2>1. kind \in N!ToAll /\ N!Arrive(kind, "save", Len(send) + 1)
    BY <1>5 DEF N!BeginStatus
  <2>2. UNCHANGED <<standing, active, suspended, mail, moves, marks>>
    BY <1>5 DEF N!BeginStatus
  <2>3. inTurn' = (inTurn /\ N!Changing = {})
    BY <1>5 DEF N!BeginStatus
  <2>4. inTurn' \in BOOLEAN /\ (inTurn' => inTurn /\ N!Changing = {})
    BY <2>3, Zenon
  <2> QED BY <1>3, <2>1, <2>2, <2>4, RequestArrives
<1> QED BY <1>4, <1>5

LEMMA PressedAgain ==
  ASSUME NoticesInv, NEW k \in DOMAIN send, N!PressAgain(k)
  PROVE  NoticesInv'
<1>1. send[k] \in N!Send /\ inTurn \in BOOLEAN
  BY DEF NoticesInv, NoticesTyped
<1>2. send[k].first \in N!Numbers
  BY <1>1 DEF N!Send
<1>3. /\ "broadcast" \in N!Kinds /\ "broadcast" \notin N!ToAll
      /\ N!Arrive("broadcast", "read", send[k].first)
      /\ UNCHANGED <<standing, active, suspended, mail, moves, marks, inTurn>>
  BY DEF N!PressAgain, N!Kinds, N!ToAll
<1> QED BY <1>1, <1>2, <1>3, RequestArrives

\* A member answers or leaves: who is no longer to be told by a request that
\* has not read its recipients yet is not meant any more.
LEMMA MemberMoves ==
  ASSUME NoticesInv, NEW u \in People, N!Move(u)
  PROVE  NoticesInv'
<1>1. /\ send \in Seq(N!Send) /\ active \in SUBSET People
      /\ standing \in [People -> {"out", "waitlist", "going", "present"}]
  BY DEF NoticesInv, NoticesTyped
<1>2. PICK answer \in {"out", "waitlist", "going", "present"}, is \in {FALSE, (u \in active)} :
         /\ standing' = [standing EXCEPT ![u] = answer]
         /\ active' = IF is THEN active ELSE active \ {u}
         /\ send' = [k \in DOMAIN send |-> N!StillMeant(k, u, answer, is)]
  BY DEF N!Move
<1>3. /\ UNCHANGED <<suspended, mail, marks, inTurn>> /\ moves < MaxMoves /\ moves' = moves + 1
  BY DEF N!Move
<1>4. standing' \in [People -> {"out", "waitlist", "going", "present"}] /\ active' \in SUBSET People
  BY <1>1, <1>2
<1>5. ASSUME NEW k \in DOMAIN send
      PROVE  LET s == send'[k] IN
             /\ s \in N!Send /\ s.kind = send[k].kind /\ s.pc = send[k].pc /\ s.was = send[k].was
             /\ s.todo = send[k].todo /\ s.missed = send[k].missed /\ s.meant \subseteq send[k].meant
             /\ s.pc \in {"save", "read"} /\ u \in s.meant => N!IsTold(s.kind, answer, is)
  <2>1. send[k] \in N!Send
    BY <1>1
  <2>2. send'[k] = IF send[k].pc \in {"save", "read"} /\ ~ N!IsTold(send[k].kind, answer, is)
                   THEN [send[k] EXCEPT !.meant = @ \ {u}] ELSE send[k]
    BY <1>2 DEF N!StillMeant
  <2>3. CASE send[k].pc \in {"save", "read"} /\ ~ N!IsTold(send[k].kind, answer, is)
    <3>1. PICK s : s = [send[k] EXCEPT !.meant = send[k].meant \ {u}]
      OBVIOUS
    <3>2. send'[k] = s
      BY <2>2, <2>3, <3>1
    <3> QED BY <2>1, <3>1, <3>2 DEF N!Send
  <2>4. CASE ~ (send[k].pc \in {"save", "read"} /\ ~ N!IsTold(send[k].kind, answer, is))
    <3>1. send'[k] = send[k]
      BY <2>2, <2>4
    <3> QED BY <2>1, <2>4, <3>1
  <2> QED BY <2>3, <2>4
<1>6. DOMAIN send' = DOMAIN send /\ Changes' = Changes
  BY <1>2, <1>5 DEF Changes
<1>7. send' \in Seq(N!Send) /\ Len(send') = Len(send)
  <2>1. PICK r : r = [k \in DOMAIN send |-> N!StillMeant(k, u, answer, is)]
    OBVIOUS
  <2>2. \A k \in DOMAIN send : r[k] \in N!Send
    BY <1>2, <1>5, <2>1
  <2>3. DOMAIN r = DOMAIN send /\ r = [k \in DOMAIN send |-> r[k]]
    BY <2>1
  <2>4. r \in Seq(N!Send) /\ Len(r) = Len(send)
    BY <1>1, <2>2, <2>3
  <2> QED BY <1>2, <2>1, <2>4
<1>8. NoticesTyped'
  <2>1. moves' \in 0..MaxMoves
    BY <1>3, NoticesConstants DEF NoticesInv, NoticesTyped
  <2> QED BY <1>3, <1>4, <1>7, <2>1 DEF NoticesInv, NoticesTyped
<1>9. \A v \in People : MailOK(v)'
  BY <1>3, <1>6 DEF NoticesInv, MailOK
<1>10. is <=> u \in active'
  BY <1>1, <1>2
<1>11. ASSUME NEW k \in DOMAIN send PROVE SendOK(k)'
  <2>1. RequestOK(send[k], k)
    BY DEF NoticesInv, SendOK
  <2>2. CASE send[k].pc \in {"save", "read"}
    <3>1. ASSUME NEW v \in send'[k].meant
          PROVE  v \in People /\ N!IsTold(send'[k].kind, standing'[v], v \in active')
      <4>1. v \in N!Recipients(send[k].kind)
        BY <1>5, <2>1, <2>2, <3>1 DEF RequestOK
      <4>2. v \in People /\ N!IsTold(send[k].kind, standing[v], v \in active)
        BY <4>1 DEF N!Recipients
      <4>3. send'[k].kind \in N!Kinds /\ send'[k].kind = send[k].kind
        BY <1>5 DEF N!Send
      <4>4. CASE v = u
        <5>1. N!IsTold(send'[k].kind, answer, is) /\ standing'[v] = answer
          BY <1>1, <1>2, <1>5, <2>2, <3>1, <4>4
        <5> QED BY <1>10, <4>2, <4>3, <4>4, <5>1 DEF N!IsTold, N!Kinds, N!ToAll
      <4>5. CASE v # u
        <5>1. standing'[v] = standing[v] /\ (v \in active' <=> v \in active)
          BY <1>1, <1>2, <4>2, <4>5
        <5> QED BY <4>2, <4>3, <5>1 DEF N!IsTold, N!Kinds, N!ToAll
      <4> QED BY <4>4, <4>5
    <3>2. (send[k].meant \subseteq N!Recipients(send[k].kind))'
      BY <3>1 DEF N!Recipients
    <3>3. send'[k].pc \in {"save", "read"} /\ send'[k].todo = {} /\ send'[k].missed = {}
      BY <1>5, <2>1, <2>2 DEF RequestOK
    <3> QED BY <1>3, <1>5, <2>1, <2>2, <3>2, <3>3 DEF SendOK, RequestOK, Has
  <2>3. CASE send[k].pc \notin {"save", "read"}
    BY <1>3, <1>5, <2>1, <2>3 DEF SendOK, RequestOK, Has
  <2> QED BY <2>2, <2>3
<1>12. LastOK'
  BY <1>6 DEF NoticesInv, LastOK, IsLast
<1>13. TurnOK'
  <2>1. Changes \subseteq DOMAIN send
    BY DEF Changes
  <2>2. \A k \in Changes : /\ send'[k].pc = send[k].pc /\ send'[k].was = send[k].was
                           /\ send'[k].kind = send[k].kind
    BY <1>5, <2>1
  <2> QED BY <1>3, <1>6, <2>2 DEF NoticesInv, TurnOK, IsLast, N!Sent
<1> QED BY <1>6, <1>8, <1>9, <1>11, <1>12, <1>13 DEF NoticesInv

\* Notices of one member are marked as read: which they are stays.
LEMMA InboxMarked ==
  ASSUME NoticesInv, NEW u \in People, NEW box \in Seq(N!Notice), mail' = [mail EXCEPT ![u] = box],
         DOMAIN box = DOMAIN mail[u],
         \A i \in DOMAIN box : box[i].of = mail[u][i].of /\ box[i].read = box[i].first,
         marks < MaxMarks, marks' = marks + 1,
         UNCHANGED <<standing, active, suspended, send, moves, inTurn>>
  PROVE  NoticesInv'
<1>1. mail \in [People -> Seq(N!Notice)]
  BY DEF NoticesInv, NoticesTyped
<1>2. /\ mail' \in [People -> Seq(N!Notice)] /\ mail'[u] = box
      /\ \A v \in People : v # u => mail'[v] = mail[v]
  BY <1>1
<1>3. NoticesTyped'
  <2>1. marks' \in 0..MaxMarks
    BY NoticesConstants DEF NoticesInv, NoticesTyped
  <2> QED BY <1>2, <2>1 DEF NoticesInv, NoticesTyped
<1>4. \A v \in People : /\ DOMAIN mail'[v] = DOMAIN mail[v]
                        /\ \A i \in DOMAIN mail[v] : mail'[v][i].of = mail[v][i].of
  <2> SUFFICES ASSUME NEW v \in People
               PROVE  /\ DOMAIN mail'[v] = DOMAIN mail[v]
                      /\ \A i \in DOMAIN mail[v] : mail'[v][i].of = mail[v][i].of
    OBVIOUS
  <2>1. CASE v = u
    BY <1>2, <2>1
  <2>2. CASE v # u
    BY <1>2, <2>2
  <2> QED BY <2>1, <2>2
<1>5. ASSUME NEW v \in People PROVE MailOK(v)'
  <2>1. MailOK(v)
    BY DEF NoticesInv
  <2>2. \A i \in DOMAIN mail[v] : mail'[v][i].read = mail'[v][i].first
    <3>1. CASE v = u
      BY <1>2, <3>1
    <3>2. CASE v # u
      BY <1>2, <2>1, <3>2 DEF MailOK
    <3> QED BY <3>1, <3>2
  <2> QED BY <1>4, <2>1, <2>2 DEF MailOK
<1>6. \A v \in People : \A k : (\E i \in DOMAIN mail'[v] : mail'[v][i].of = k) <=> Has(v, k)
  BY <1>4 DEF Has
<1>7. ASSUME NEW k \in DOMAIN send PROVE SendOK(k)'
  <2>1. RequestOK(send[k], k) /\ send[k] \in N!Send
    BY DEF NoticesInv, NoticesTyped, SendOK
  <2>2. \A v \in People : Has(v, k)' <=> Has(v, k)
    BY <1>6 DEF Has
  <2>3. \A kind : N!Recipients(kind)' = N!Recipients(kind)
    BY DEF N!Recipients
  <2>4. send[k].todo \subseteq People /\ send[k].meant \subseteq People
    BY <2>1 DEF N!Send
  <2> QED BY <2>1, <2>2, <2>3, <2>4 DEF SendOK, RequestOK
<1>8. Changes' = Changes
  BY DEF Changes
<1>9. LastOK'
  BY <1>8 DEF NoticesInv, LastOK, IsLast
<1>10. TurnOK'
  BY <1>4, <1>8 DEF NoticesInv, TurnOK, IsLast, N!Sent
<1> QED BY <1>3, <1>5, <1>7, <1>9, <1>10 DEF NoticesInv

\* A notice is read by the mark that finds it unread.
LEMMA NoticeRead ==
  ASSUME NEW n \in N!Notice, n.read = n.first, NEW by \in 0..MaxMarks
  PROVE  /\ N!Read(n, by) \in N!Notice /\ N!Read(n, by).of = n.of
         /\ N!Read(n, by).read = N!Read(n, by).first
  BY DEF N!Read, N!Notice

LEMMA MemberReads ==
  ASSUME NoticesInv, NEW u \in People,
         N!MarkAllRead(u) \/ \E i \in DOMAIN mail[u] : N!MarkRead(u, i)
  PROVE  NoticesInv'
<1>1. /\ marks < MaxMarks /\ marks' = marks + 1
      /\ UNCHANGED <<standing, active, suspended, send, moves, inTurn>>
  BY DEF N!MarkAllRead, N!MarkRead
<1>2. /\ mail \in [People -> Seq(N!Notice)] /\ mail[u] \in Seq(N!Notice)
      /\ \A i \in DOMAIN mail[u] : mail[u][i] \in N!Notice /\ mail[u][i].read = mail[u][i].first
  BY DEF NoticesInv, NoticesTyped, MailOK
<1>3. PICK by : by = marks'
  OBVIOUS
<1>4. by \in 0..MaxMarks
  BY <1>1, <1>3, NoticesConstants DEF NoticesInv, NoticesTyped
<1>5. \A i \in DOMAIN mail[u] : /\ N!Read(mail[u][i], by) \in N!Notice
                                /\ N!Read(mail[u][i], by).of = mail[u][i].of
                                /\ N!Read(mail[u][i], by).read = N!Read(mail[u][i], by).first
  BY <1>2, <1>4, NoticeRead
<1>6. CASE N!MarkAllRead(u)
  <2>1. PICK box : box = [i \in DOMAIN mail[u] |-> N!Read(mail[u][i], by)]
    OBVIOUS
  <2>2. DOMAIN box = DOMAIN mail[u] /\ \A i \in DOMAIN mail[u] : box[i] = N!Read(mail[u][i], by)
    BY <2>1
  <2>3. box \in Seq(N!Notice)
    <3>1. \A i \in DOMAIN mail[u] : box[i] \in N!Notice
      BY <1>5, <2>2
    <3>2. box = [i \in DOMAIN mail[u] |-> box[i]]
      BY <2>1
    <3> QED BY <1>2, <2>2, <3>1, <3>2
  <2>4. mail' = [mail EXCEPT ![u] = box]
    BY <1>2, <1>3, <1>6, <2>1 DEF N!MarkAllRead
  <2>5. \A j \in DOMAIN box : box[j].of = mail[u][j].of /\ box[j].read = box[j].first
    BY <1>5, <2>2
  <2> QED BY <1>1, <2>2, <2>3, <2>4, <2>5, InboxMarked
<1>7. CASE \E i \in DOMAIN mail[u] : N!MarkRead(u, i)
  <2>1. PICK i \in DOMAIN mail[u] : N!MarkRead(u, i)
    BY <1>7
  <2>2. PICK n : n = N!Read(mail[u][i], by)
    OBVIOUS
  <2>3. PICK box : box = [mail[u] EXCEPT ![i] = n]
    OBVIOUS
  <2>4. /\ DOMAIN box = DOMAIN mail[u] /\ box \in Seq(N!Notice) /\ box[i] = n
        /\ \A j \in DOMAIN mail[u] : j # i => box[j] = mail[u][j]
    BY <1>2, <1>5, <2>2, <2>3
  <2>5. mail' = [mail EXCEPT ![u] = box]
    BY <1>2, <1>3, <2>1, <2>2, <2>3 DEF N!MarkRead
  <2>6. \A j \in DOMAIN box : box[j].of = mail[u][j].of /\ box[j].read = box[j].first
    BY <1>2, <1>5, <2>2, <2>4
  <2> QED BY <1>1, <2>4, <2>5, <2>6, InboxMarked
<1> QED BY <1>6, <1>7

LEMMA NoticesNext == NoticesInv /\ N!Next => NoticesInv'
  BY RequestsArrive, PressedAgain, StatusSaves, RecipientsRead, RequestFails, NoticeDelivered,
     NoticeMissed, MemberMoves, MemberReads DEF N!Next

-----------------------------------------------------------------------------
(* The theorems                                                            *)

\* The day of an event.  Every member whose boxes are tapped one after the
\* other is marked as the last tap meant; who reads "You're in" has a place or
\* waits for one; the count of those going is not overstated; the list at the
\* door calls first whom a cancellation promotes, and its numbers count what
\* it lists; who is told of the recap may read it (setCheckedIn() of
\* event.controller.ts, cancelRsvp() of event.service.ts, AttendeeListScreen.tsx).
THEOREM DayRight == D!Spec => [](D!TypeOK /\ D!EventDayWorks)
<1>1. DayInv /\ [D!Next]_D!vars => DayInv'
  BY DayNext, DayStutters DEF D!vars, dayVars
<1> QED BY <1>1, DayInit, DayImplies, PTL DEF D!Spec

\* The questions of an event.  An upvote is added to the voters there are, a
\* withdrawal is saved only on the version it has loaded: a member counts as
\* he meant it, whatever others do meanwhile; no question is resolved without
\* an answer; what awaits one comes first, and the filters share out all that
\* were asked (event-qa.controller.ts, EventQAScreen.tsx).
THEOREM QuestionsRight == Q!Spec => [](Q!TypeOK /\ Q!QuestionsWork)
<1>1. QuestionsInv /\ [Q!Next]_Q!vars => QuestionsInv'
  BY QuestionsNext, QuestionsStutter DEF Q!vars, boardVars
<1> QED BY <1>1, QuestionsInit, QuestionsImply, PTL DEF Q!Spec

\* Broadcasts, the notices of a recap and of a community's status.  Whoever
\* was to be told from the request's arrival to its reading is, once, but for
\* those whose notice could not be written; he has a message no more often
\* than it was sent; the last he has heard of the community's status is so; a
\* notice stays read by its first mark; the badges add up
\* (notification.service.ts, admin.controller.ts, super.controller.ts).
THEOREM NoticesRight == N!Spec => [](N!TypeOK /\ N!NoticesWork)
<1>1. NoticesInv /\ [N!Next]_N!vars => NoticesInv'
  BY NoticesNext, NoticesStutter DEF N!vars, mailVars
<1> QED BY <1>1, NoticesInit, NoticesImply, PTL DEF N!Spec

\* The recap of an event.  It has no more photos than room and none that was
\* not uploaded; a page loses a photo to its manager only; what it counts as
\* uploading is under way; who confirms waits for no upload
\* (PublishRecapScreen.tsx, publishRecap() of event.controller.ts).
THEOREM RecapRight == R!Spec => [](R!TypeOK /\ R!RecapHolds)
<1>1. RecapInv /\ [R!Next]_R!vars => RecapInv'
  BY RecapNext, RecapStutters DEF R!vars, recapVars
<1> QED BY <1>1, RecapInit, RecapImplies, PTL DEF R!Spec

\* The invariant of the part that runs.
AllInv ==
    /\ part = "day" => DayInv
    /\ part = "questions" => QuestionsInv
    /\ part = "notices" => NoticesInv
    /\ part = "recap" => RecapInv

\* The four hold of an event that is in any of its parts: what the run
\* rsvp_serial checks on a small one.
THEOREM EventDayCorrect == AllSpec => []EventDayWorks
<1>1. AllInit => AllInv
  BY DayInit, QuestionsInit, NoticesInit, RecapInit DEF AllInit, AllInv, SomeNotices
<1>2. AllInv /\ [AllNext]_allVars => AllInv'
  <2> SUFFICES ASSUME AllInv, [AllNext]_allVars PROVE AllInv'
    OBVIOUS
  <2>1. part' = part
    BY DEF AllNext, allVars
  <2>2. CASE part = "day" /\ (D!Next \/ UNCHANGED dayVars)
    <3>1. DayInv'
      BY <2>2, DayNext, DayStutters DEF AllInv
    <3> QED BY <2>1, <2>2, <3>1 DEF AllInv
  <2>3. CASE part = "questions" /\ (Q!Next \/ UNCHANGED boardVars)
    <3>1. QuestionsInv'
      BY <2>3, QuestionsNext, QuestionsStutter DEF AllInv
    <3> QED BY <2>1, <2>3, <3>1 DEF AllInv
  <2>4. CASE part = "notices" /\ (N!Next \/ UNCHANGED mailVars)
    <3>1. NoticesInv'
      BY <2>4, NoticesNext, NoticesStutter DEF AllInv
    <3> QED BY <2>1, <2>4, <3>1 DEF AllInv
  <2>5. CASE part = "recap" /\ (R!Next \/ UNCHANGED recapVars)
    <3>1. RecapInv'
      BY <2>5, RecapNext, RecapStutters DEF AllInv
    <3> QED BY <2>1, <2>5, <3>1 DEF AllInv
  <2>6. CASE part \notin {"day", "questions", "notices", "recap"}
    BY <2>1, <2>6 DEF AllInv
  <2>7. /\ part = "day" => D!Next \/ UNCHANGED dayVars
        /\ part = "questions" => Q!Next \/ UNCHANGED boardVars
        /\ part = "notices" => N!Next \/ UNCHANGED mailVars
        /\ part = "recap" => R!Next \/ UNCHANGED recapVars
    BY DEF AllNext, allVars
  <2> QED BY <2>2, <2>3, <2>4, <2>5, <2>6, <2>7
<1>3. AllInv => EventDayWorks
  BY DayImplies, QuestionsImply, NoticesImply, RecapImplies DEF AllInv, EventDayWorks
<1> QED BY <1>1, <1>2, <1>3, PTL DEF AllSpec
=============================================================================
