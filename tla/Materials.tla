----------------------------- MODULE Materials -----------------------------
(***************************************************************************)
(* Adding materials to an event: the page                                  *)
(* web/src/features/eventManager/MaterialsUploadScreen.tsx, whose button   *)
(* uploads the files of its list one after the other, and addMaterial() in *)
(* backend/src/services/event.service.ts.                                  *)
(*                                                                         *)
(* The browser waits 12 s for an upload and the manager may take a file    *)
(* off the list meanwhile; the server may go on with it.  Who leaves the   *)
(* page leaves the loop behind, which uploads the rest.  A row stands for  *)
(* one choice of a file; the title is there, as it is after a choice.      *)
(***************************************************************************)
EXTENDS Naturals, FiniteSets, Sequences, Functions

CONSTANTS
    MaxFiles,     \* bound: files chosen
    MaxTries,     \* bound: uploads of a row
    MaxVisits     \* bound: times the page is opened

MaterialsAssumption == MaxFiles \in Nat /\ MaxTries \in Nat /\ MaxVisits \in Nat

VARIABLES
    page,      \* where the manager is
    queue,     \* the rows; those of an earlier visit are gone from the page
    loop,      \* submit(), once per visit at a time
    upload     \* the uploads of each row, and how far the server has come
vars == <<page, queue, loop, upload>>

Rows == 1..MaxFiles
Tries == 1..MaxTries
Visits == 1..MaxVisits

NoRow == [status |-> "none", visit |-> 0]
Idle == [pending |-> <<>>, done |-> 0, waits |-> FALSE, failed |-> FALSE, runs |-> FALSE]
NoUpload == [at |-> "none", awaited |-> FALSE]

TypeOK ==
    /\ page \in [at : {"elsewhere", "upload", "materials"}, visit : 0..MaxVisits]
    /\ queue \in [Rows -> [status : {"none", "queued", "uploading", "done", "error", "removed"},
                           visit : 0..MaxVisits]]
    /\ \A v \in Visits :
          /\ loop[v].pending \in Seq(Rows) /\ loop[v].done \in 0..MaxFiles
          /\ {loop[v].waits, loop[v].failed, loop[v].runs} \subseteq BOOLEAN
    /\ upload \in [Rows -> [Tries -> [at : {"none", "sent", "stored", "made", "lost"},
                                      awaited : BOOLEAN]]]

Init ==
    /\ page = [at |-> "elsewhere", visit |-> 0]
    /\ queue = [r \in Rows |-> NoRow]
    /\ loop = [v \in Visits |-> Idle]
    /\ upload = [r \in Rows |-> [k \in Tries |-> NoUpload]]

-----------------------------------------------------------------------------
(* The page                                                                *)

Open ==
    /\ page.at # "upload" /\ page.visit < MaxVisits
    /\ page' = [at |-> "upload", visit |-> page.visit + 1]
    /\ UNCHANGED <<queue, loop, upload>>

Leave ==
    /\ page.at = "upload"
    /\ page' = [page EXCEPT !.at = "elsewhere"]
    /\ UNCHANGED <<queue, loop, upload>>

\* The rows on the page.
Listed == {r \in Rows : /\ page.at = "upload" /\ queue[r].visit = page.visit
                        /\ queue[r].status \notin {"none", "removed"}}

\* Files may be chosen at any time.
OnPick(r) ==
    /\ page.at = "upload"
    /\ queue[r] = NoRow /\ \A q \in 1..r - 1 : queue[q] # NoRow
    /\ queue' = [queue EXCEPT ![r] = [status |-> "queued", visit |-> page.visit]]
    /\ UNCHANGED <<page, loop, upload>>

\* submit(): the files to upload are those waiting now.
Submit ==
    LET v == page.visit
        waiting == {r \in Listed : queue[r].status \in {"queued", "error"}} IN
    /\ page.at = "upload" /\ ~ loop[v].runs /\ waiting # {}
    /\ \E inOrder \in [1..Cardinality(waiting) -> waiting] :
          /\ \A i, j \in DOMAIN inOrder : i < j => inOrder[i] < inOrder[j]
          /\ loop' = [loop EXCEPT ![v] = [Idle EXCEPT !.runs = TRUE, !.pending = inOrder]]
    /\ UNCHANGED <<page, queue, upload>>

Tried(r) == Cardinality({k \in Tries : upload[r][k] # NoUpload})
Current(v) == loop[v].pending[loop[v].done + 1]

\* patchQueue(): a row that is gone stays so.
Patched(r, status) ==
    [queue EXCEPT ![r].status =
       IF page.at = "upload" /\ page.visit = queue[r].visit /\ @ # "removed" THEN status ELSE @]

Send(v) ==
    LET r == Current(v) k == Tried(Current(v)) + 1 IN
    /\ loop[v].runs /\ ~ loop[v].waits /\ loop[v].done < Len(loop[v].pending)
    /\ k \in Tries
    /\ upload' = [upload EXCEPT ![r][k] = [at |-> "sent", awaited |-> TRUE]]
    /\ queue' = Patched(r, "uploading")
    /\ loop' = [loop EXCEPT ![v].waits = TRUE]
    /\ UNCHANGED page

\* The loop is through with a file.
Goes(v, failed) ==
    loop' = [loop EXCEPT ![v].waits = FALSE, ![v].done = @ + 1, ![v].failed = @ \/ failed]
Request(v) == upload[Current(v)][Tried(Current(v))]
Unawaited(v) == [upload EXCEPT ![Current(v)][Tried(Current(v))].awaited = FALSE]

Answer(v) ==
    /\ loop[v].waits /\ Request(v).at = "made"
    /\ queue' = Patched(Current(v), "done")
    /\ Goes(v, FALSE) /\ UNCHANGED <<page, upload>>

Error(v) ==
    /\ loop[v].waits /\ Request(v).at = "lost"
    /\ queue' = Patched(Current(v), "error")
    /\ Goes(v, TRUE) /\ UNCHANGED <<page, upload>>

Timeout(v) ==
    /\ loop[v].waits /\ Request(v).at # "lost"
    /\ upload' = Unawaited(v)
    /\ queue' = Patched(Current(v), "error")
    /\ Goes(v, TRUE) /\ UNCHANGED page

\* removeFile(): an upload under way is given up, and the loop goes on.  A file
\* that waits for its turn is uploaded all the same.
RemoveFile(r) ==
    LET v == page.visit IN
    /\ r \in Listed /\ queue[r].status # "done"
    /\ queue' = [queue EXCEPT ![r].status = "removed"]
    /\ IF loop[v].waits /\ Current(v) = r
       THEN upload' = Unawaited(v) /\ Goes(v, FALSE)
       ELSE UNCHANGED <<upload, loop>>
    /\ UNCHANGED page

\* Without an error the manager is led to the list, wherever he is by then.
Finish(v) ==
    /\ loop[v].runs /\ loop[v].done = Len(loop[v].pending)
    /\ loop' = [loop EXCEPT ![v].runs = FALSE]
    /\ page' = IF loop[v].failed THEN page ELSE [page EXCEPT !.at = "materials"]
    /\ UNCHANGED <<queue, upload>>

-----------------------------------------------------------------------------
(* The server                                                              *)

Becomes(r, k, at) ==
    /\ upload' = [upload EXCEPT ![r][k].at = at]
    /\ UNCHANGED <<page, queue, loop>>

\* getStorageService().put()
Put(r, k) == upload[r][k].at = "sent" /\ Becomes(r, k, "stored")

\* Material.create()
Make(r, k) == upload[r][k].at = "stored" /\ Becomes(r, k, "made")

\* An error, a crash, or a request broken off before all of it was there.  One
\* nobody waits for may as well stay where it is.
Lose(r, k) ==
    /\ upload[r][k].at \in {"sent", "stored"} /\ upload[r][k].awaited
    /\ Becomes(r, k, "lost")

-----------------------------------------------------------------------------
Next ==
    \/ Open \/ Leave \/ Submit
    \/ \E r \in Rows : OnPick(r) \/ RemoveFile(r)
    \/ \E v \in Visits : Send(v) \/ Answer(v) \/ Error(v) \/ Timeout(v) \/ Finish(v)
    \/ \E r \in Rows, k \in Tries : Put(r, k) \/ Make(r, k) \/ Lose(r, k)

Spec == Init /\ [][Next]_vars

-----------------------------------------------------------------------------
(* Properties                                                              *)

Materials(r) == {k \in Tries : upload[r][k].at = "made"}

\* A file that the page calls done is a material of the event, and one that is
\* on it twice was called failed, or taken off the list, while the server went
\* on with it (MaterialsUploadScreen.tsx:135).
AddedAsShown ==
    \A r \in Rows :
       /\ queue[r].status = "done" => Materials(r) # {}
       /\ \A j, k \in Materials(r) : j < k => ~ upload[r][j].awaited

\* Whoever a loop leads to the list of materials finds there every file it was
\* to upload, but for those he has taken off himself
\* (MaterialsUploadScreen.tsx:152).
NoFileForgotten ==
    \A v \in Visits :
       loop[v].done = Len(loop[v].pending) /\ ~ loop[v].failed =>
          \A r \in Range(loop[v].pending) : Materials(r) # {} \/ queue[r].status = "removed"

\* "Upload files sequentially so [...] the backend isn't hit with N concurrent
\* multipart streams" (MaterialsUploadScreen.tsx:113): a page
\* waits for one at a time.
OneStream ==
    \A v \in Visits :
       Cardinality({s \in Rows \X Tries :
                      /\ queue[s[1]].visit = v /\ upload[s[1]][s[2]].awaited
                      /\ upload[s[1]][s[2]].at \in {"sent", "stored"}}) <= 1

MaterialsAdded == AddedAsShown /\ NoFileForgotten /\ OneStream
=============================================================================
