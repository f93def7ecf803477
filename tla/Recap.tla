------------------------------- MODULE Recap -------------------------------
(***************************************************************************)
(* The recap of an event: the pages of its managers                        *)
(* (web/src/features/eventManager/PublishRecapScreen.tsx), the photos they *)
(* upload for it, and publishRecap() in                                    *)
(* backend/src/controllers/event.controller.ts.                            *)
(*                                                                         *)
(* A page asks for the recap there is when it is opened; the answer may    *)
(* come at any time, or never.  The note is left out: there is one as soon *)
(* as the event is loaded.  So are the notices (EventDay, Notices).        *)
(* Photos uploaded for a page that was left, and those there is no room    *)
(* for, stay materials of the event (Materials).  A manager who has left    *)
(* while publishing comes back once that is answered.                      *)
(***************************************************************************)
EXTENDS Naturals, FiniteSets

CONSTANTS
    Managers,
    Photos,       \* files to choose from, each chosen once
    MaxPhotos,    \* 12 in the code
    MaxRecaps     \* bound: recaps published

RecapAssumption ==
    /\ IsFiniteSet(Managers) /\ IsFiniteSet(Photos)
    /\ MaxPhotos \in Nat \ {0} /\ MaxRecaps \in Nat

VARIABLES
    summary,    \* event.summary, with the number of times it was published
    screen,     \* each manager's page
    request,    \* each manager's POST /events/:eid/recap
    stored,     \* the photos uploaded
    chosen,     \* the photos chosen on some page
    recaps      \* requests sent
vars == <<summary, screen, request, stored, chosen, recaps>>

Screen == [at : {"closed", "form", "confirm", "published"},
           photoUrls : SUBSET Photos,
           todo : SUBSET Photos,           \* those of the running onPickPhotos()
           count : 0..Cardinality(Photos), \* uploadingCount
           chooser : BOOLEAN,              \* the file dialog is open
           seen : 0..MaxRecaps,            \* the version the page was loaded with
           answered : BOOLEAN,
           own : SUBSET Photos,            \* added since the answer
           removed : SUBSET Photos,
           late : BOOLEAN]                 \* files came when there was no room
Closed == [at |-> "closed", photoUrls |-> {}, todo |-> {}, count |-> 0, chooser |-> FALSE,
           seen |-> 0, answered |-> FALSE, own |-> {}, removed |-> {}, late |-> FALSE]

Idle == [pc |-> "none", photoUrls |-> {}]

TypeOK ==
    /\ summary \in [photoUrls : SUBSET Photos, version : 0..MaxRecaps]
    /\ screen \in [Managers -> Screen]
    /\ request \in [Managers -> [pc : {"none", "save", "ok", "error"},
                                 photoUrls : SUBSET Photos]]
    /\ stored \in SUBSET Photos /\ chosen \in SUBSET Photos
    /\ recaps \in 0..MaxRecaps

Init ==
    /\ summary = [photoUrls |-> {}, version |-> 0]
    /\ screen = [m \in Managers |-> Closed]
    /\ request = [m \in Managers |-> Idle]
    /\ stored = {} /\ chosen = {} /\ recaps = 0

-----------------------------------------------------------------------------
(* The page                                                                *)

Turn(m, s) == screen' = [screen EXCEPT ![m] = s]
Server == UNCHANGED <<summary, request, recaps>>
Files == UNCHANGED <<stored, chosen>>

Open(m) ==
    /\ screen[m].at = "closed" /\ request[m].pc = "none"
    /\ Turn(m, [Closed EXCEPT !.at = "form"])
    /\ Server /\ Files

Leave(m) ==
    /\ screen[m].at # "closed" /\ ~ screen[m].chooser
    /\ Turn(m, Closed)
    /\ Server /\ Files

\* The photos of the recap there is take the place of those on the page; one
\* never published has none.
Seed(m) ==
    /\ screen[m].at # "closed" /\ ~ screen[m].answered
    /\ Turn(m, [screen[m] EXCEPT !.answered = TRUE, !.photoUrls = summary.photoUrls,
                                 !.seen = summary.version, !.own = {}, !.removed = {}])
    /\ Server /\ Files

\* The tile is there while there is room for a photo and none is uploading.  The
\* dialog it opens keeps the manager from anything else.
Choose(m) ==
    LET s == screen[m] IN
    /\ s.at = "form" /\ ~ s.chooser /\ s.count = 0
    /\ Cardinality(s.photoUrls) < MaxPhotos
    /\ Turn(m, [s EXCEPT !.chooser = TRUE])
    /\ Server /\ Files

\* onPickPhotos(): a page that is full by now leaves its loop at once, and the
\* counter as it is.  No file: the dialog was closed.
OnPickPhotos(m, files) ==
    LET s == screen[m]
        full == Cardinality(s.photoUrls) >= MaxPhotos IN
    /\ s.chooser /\ files \cap chosen = {}
    /\ chosen' = chosen \cup files
    /\ Turn(m, [s EXCEPT !.chooser = FALSE, !.count = @ + Cardinality(files),
                         !.todo = IF full THEN {} ELSE files,
                         !.late = @ \/ (full /\ files # {})])
    /\ UNCHANGED stored /\ Server

Added(s, p) ==
    IF Cardinality(s.photoUrls) < MaxPhotos THEN s.photoUrls \cup {p} ELSE s.photoUrls

Uploaded(m, p) ==
    LET s == screen[m] IN
    /\ p \in s.todo
    /\ stored' = stored \cup {p}
    /\ Turn(m, [s EXCEPT !.todo = @ \ {p}, !.count = @ - 1, !.photoUrls = Added(s, p),
                         !.own = @ \cup (Added(s, p) \ s.photoUrls)])
    /\ UNCHANGED chosen /\ Server

\* The answer may be lost as well, and the photo be stored.
UploadFails(m, p) ==
    LET s == screen[m] IN
    /\ p \in s.todo
    /\ stored' \in {stored, stored \cup {p}}
    /\ Turn(m, [s EXCEPT !.todo = @ \ {p}, !.count = @ - 1])
    /\ UNCHANGED chosen /\ Server

RemovePhoto(m, p) ==
    LET s == screen[m] IN
    /\ s.at = "form" /\ ~ s.chooser /\ p \in s.photoUrls
    /\ Turn(m, [s EXCEPT !.photoUrls = @ \ {p}, !.removed = @ \cup {p}])
    /\ Server /\ Files

\* requestPublish(), and the sheet that asks once more.
RequestPublish(m) ==
    /\ screen[m].at = "form" /\ ~ screen[m].chooser
    /\ screen[m].count = 0 /\ request[m].pc = "none"
    /\ Turn(m, [screen[m] EXCEPT !.at = "confirm"])
    /\ Server /\ Files

\* Back from either sheet.
Dismiss(m) ==
    /\ screen[m].at \in {"confirm", "published"} /\ ~ screen[m].chooser
    /\ Turn(m, [screen[m] EXCEPT !.at = "form"])
    /\ Server /\ Files

ConfirmPublish(m) ==
    LET s == screen[m] IN
    /\ s.at = "confirm" /\ recaps < MaxRecaps
    /\ recaps' = recaps + 1
    /\ request' = [request EXCEPT ![m] = [pc |-> "save", photoUrls |-> s.photoUrls]]
    /\ Turn(m, [s EXCEPT !.at = "form"])
    /\ UNCHANGED summary /\ Files

-----------------------------------------------------------------------------
(* publishRecap()                                                          *)

Goes(m, pc) == request' = [request EXCEPT ![m].pc = pc]

\* What comes after it, the notices, may fail and the recap is published.
Save(m) ==
    /\ request[m].pc = "save"
    /\ summary' = [photoUrls |-> request[m].photoUrls, version |-> summary.version + 1]
    /\ \E pc \in {"ok", "error"} : Goes(m, pc)
    /\ UNCHANGED <<screen, recaps>> /\ Files

Fail(m) ==
    /\ request[m].pc = "save" /\ Goes(m, "error")
    /\ UNCHANGED <<summary, screen, recaps>> /\ Files

\* confirmPublish() goes on; to a page that was left it means nothing.
Answer(m) ==
    /\ request[m].pc \in {"ok", "error"}
    /\ Turn(m, IF screen[m].at # "closed" /\ request[m].pc = "ok"
               THEN [screen[m] EXCEPT !.at = "published"] ELSE screen[m])
    /\ request' = [request EXCEPT ![m] = Idle]
    /\ UNCHANGED <<summary, recaps>> /\ Files

-----------------------------------------------------------------------------
Next ==
    \E m \in Managers :
       \/ Open(m) \/ Leave(m) \/ Seed(m) \/ Choose(m)
       \/ RequestPublish(m) \/ Dismiss(m) \/ ConfirmPublish(m)
       \/ \E files \in SUBSET Photos : OnPickPhotos(m, files)
       \/ \E p \in Photos : Uploaded(m, p) \/ UploadFails(m, p) \/ RemovePhoto(m, p)
       \/ Save(m) \/ Fail(m) \/ Answer(m)

Spec == Init /\ [][Next]_vars

-----------------------------------------------------------------------------
(* Properties                                                              *)

\* A recap shows no more photos than it has room for, and none that was not
\* uploaded, whatever failed and whoever else publishes
\* (PublishRecapScreen.tsx:99).
RoomKept ==
    \A photoUrls \in {summary.photoUrls} \cup {screen[m].photoUrls : m \in Managers} :
       Cardinality(photoUrls) <= MaxPhotos /\ photoUrls \subseteq stored

\* Once the recap there is has been loaded, the page loses a photo only to its
\* manager: one published before, or one added since (PublishRecapScreen.tsx:56).
PhotosKept ==
    \A m \in Managers :
       LET s == screen[m] IN
       s.answered =>
          /\ s.own \subseteq s.photoUrls \cup s.removed
          /\ s.seen = summary.version => summary.photoUrls \subseteq s.photoUrls \cup s.removed

\* While the page counts an upload there is one, unless files were chosen when
\* the photos just loaded had left no room (PublishRecapScreen.tsx:95).
CountEnds ==
    \A m \in Managers : ~ screen[m].late => screen[m].count = Cardinality(screen[m].todo)

\* Whoever confirms has no upload under way that could still have been in it
\* (PublishRecapScreen.tsx:286).
ConfirmedIsWhole ==
    \A m \in Managers : screen[m].at = "confirm" => screen[m].todo = {}

RecapHolds == RoomKept /\ PhotosKept /\ CountEnds /\ ConfirmedIsWhole
=============================================================================
