-------------------------------- MODULE Posts --------------------------------
(***************************************************************************)
(* A post of a community, its comments and its moderation: backend/src/    *)
(* services/post.service.ts, moderatePost() of admin.controller.ts, and    *)
(* the web client's page of a post (PostDetailScreen.tsx) and of posts to  *)
(* moderate (ContentModerationScreen.tsx).                                 *)
(*                                                                         *)
(* A request loads the post, checks it and saves it later: Mongoose writes *)
(* the fields whose values were changed, and a save of a post deleted      *)
(* since fails.  A comment and its count are one transaction; a deletion   *)
(* is two steps, and the second may fail.  The text and the pictures of a  *)
(* post are left out.                                                      *)
(***************************************************************************)
EXTENDS Naturals, FiniteSets

CONSTANTS
    Members, Moderators, Nobody,
    MaxDrafts,   \* bound: comments a member thinks of
    MaxCalls     \* bound: requests of a behaviour

PostsAssumption ==
    MaxDrafts \in Nat /\ MaxCalls \in Nat /\ Nobody \notin Members \cup Moderators

Actors == Members \cup Moderators
Drafts == 1..MaxDrafts

VARIABLES
    post,      \* the Post document
    thread,    \* the Comment documents: <<u, d, n>> came after n others of draft d of u
    desk,      \* each actor's request about the post itself
    hand,      \* each member's comments under way
    box,       \* the text in the box of each member's page
    calls,     \* requests begun
    decided,   \* what the last moderation decided
    erased,    \* comments deleted by deletions of the post
    late       \* comments saved while the post was being deleted, or after
vars == <<post, thread, desk, hand, box, calls, decided, erased, late>>

Post == [there : BOOLEAN, kind : {"announcement", "discussion"},
         author : Actors \cup {Nobody}, pinned : BOOLEAN, locked : BOOLEAN,
         hidden : BOOLEAN, commentCount : 0..MaxCalls]
NoPost == [there |-> FALSE, kind |-> "discussion", author |-> Nobody, pinned |-> FALSE,
           locked |-> FALSE, hidden |-> FALSE, commentCount |-> 0]
Comment == Members \X Drafts \X (0..MaxCalls)

Updates == {"lock", "unlock"}
Pins == {"pin", "unpin"}
Decisions == {"keep", "warn", "remove"}
Desk == [pc : {"idle", "erase", "delete"} \cup Updates \cup Pins \cup Decisions, doc : Post]
NoDesk == [pc |-> "idle", doc |-> NoPost]

\* Two comments of a member may be under way: the Enter key is not disabled
\* while one is.
Hand == [{1, 2} -> [pc : {"idle", "save", "saved"}, draft : 0..MaxDrafts]]
NoHand == [i \in {1, 2} |-> [pc |-> "idle", draft |-> 0]]

Box == [draft : 0..MaxDrafts,      \* 0: the box is empty
        typed : 0..MaxDrafts,      \* the drafts there have been
        last : {1, 2},             \* the last of his requests
        loose : SUBSET Drafts,     \* typed, or typed over, while one was under way
        again : SUBSET Drafts]     \* sent again before he learnt what became of it

TypeOK ==
    /\ post \in Post
    /\ thread \in SUBSET Comment
    /\ \A a \in Actors : desk[a] \in Desk
    /\ \A u \in Members : hand[u] \in Hand /\ box[u] \in Box
    /\ calls \in 0..MaxCalls
    /\ decided \in {"none", "keep", "remove", "unsure"}
    /\ erased \in 0..MaxCalls /\ late \in 0..MaxCalls

Init ==
    /\ post = NoPost /\ thread = {}
    /\ desk = [a \in Actors |-> NoDesk]
    /\ hand = [u \in Members |-> NoHand]
    /\ box = [u \in Members |->
                [draft |-> 0, typed |-> 0, last |-> 1, loose |-> {}, again |-> {}]]
    /\ calls = 0 /\ decided = "none" /\ erased = 0 /\ late = 0

Calling == calls < MaxCalls /\ calls' = calls + 1

-----------------------------------------------------------------------------
(* The post                                                                *)

\* createPost()
Create(a) ==
    /\ post = NoPost
    /\ \E k \in {"announcement", "discussion"} :
          /\ k = "announcement" => a \in Moderators
          /\ post' = [NoPost EXCEPT !.there = TRUE, !.kind = k, !.author = a]
    /\ UNCHANGED <<thread, desk, hand, box, calls, decided, erased, late>>

\* ensureAuthorOrStaff(), and the checks of pinPost() and moderatePost().
MayModify(a) == a = post.author \/ a \in Moderators
MayDirect(a) == a \in Moderators

\* getPost()
Load(a, pc) ==
    /\ post.there /\ desk[a] = NoDesk /\ Calling
    /\ desk' = [desk EXCEPT ![a] = [pc |-> pc, doc |-> post]]
    /\ UNCHANGED <<post, thread, hand, box, decided, erased, late>>

BeginUpdate(a, pc) == MayModify(a) /\ Load(a, pc)
BeginPin(a, pc) == MayDirect(a) /\ Load(a, pc)
\* The three buttons of a post; all are disabled while one's request is under
\* way.
TapDecision(a, pc) == MayDirect(a) /\ Load(a, pc)

\* A field is sent if its value is not the one loaded.
Set(f, value, doc) ==
    post' = IF doc[f] # value THEN [post EXCEPT ![f] = value] ELSE post
Done(a) == desk' = [desk EXCEPT ![a] = NoDesk]

\* Mutant of SaveUpdate: the document is written as it was loaded.
SaveUpdateWhole(a) ==
    LET d == desk[a] IN
    /\ d.pc \in Updates
    /\ post' = IF post.there
               THEN [d.doc EXCEPT !.locked = (d.pc = "lock"), !.commentCount = post.commentCount]
               ELSE post
    /\ Done(a)
    /\ UNCHANGED <<thread, hand, box, calls, decided, erased, late>>

SaveUpdate(a) ==
    LET d == desk[a] IN
    /\ d.pc \in Updates
    /\ IF post.there THEN Set("locked", d.pc = "lock", d.doc) ELSE UNCHANGED post
    /\ Done(a)
    /\ UNCHANGED <<thread, hand, box, calls, decided, erased, late>>

SavePin(a) ==
    LET d == desk[a] IN
    /\ d.pc \in Pins
    /\ IF post.there THEN Set("pinned", d.pc = "pin", d.doc) ELSE UNCHANGED post
    /\ Done(a)
    /\ UNCHANGED <<thread, hand, box, calls, decided, erased, late>>

\* A decision that the post already showed when it was loaded writes nothing,
\* so that one saved in between stands.
SaveDecision(a) ==
    LET d == desk[a]
        hide == d.pc = "remove" IN
    /\ d.pc \in Decisions
    /\ IF post.there /\ d.pc # "warn"
       THEN /\ Set("hidden", hide, d.doc)
            /\ decided' = IF d.doc.hidden = hide /\ post.hidden # hide THEN "unsure" ELSE d.pc
       ELSE UNCHANGED <<post, decided>>
    /\ Done(a)
    /\ UNCHANGED <<thread, hand, box, calls, erased, late>>

-----------------------------------------------------------------------------
(* deletePost(): the comments, then the post                               *)

BeginDelete(a) == MayModify(a) /\ Load(a, "erase")

\* Mutant of Erase: the comments are left.
EraseNothing(a) ==
    /\ desk[a].pc = "erase"
    /\ desk' = [desk EXCEPT ![a].pc = "delete"]
    /\ UNCHANGED <<post, thread, hand, box, calls, decided, erased, late>>

Erase(a) ==
    /\ desk[a].pc = "erase"
    /\ thread' = {} /\ late' = 0
    /\ erased' = erased + Cardinality(thread)
    /\ desk' = [desk EXCEPT ![a].pc = "delete"]
    /\ UNCHANGED <<post, hand, box, calls, decided>>

\* It is deleted, or the request fails.
Delete(a) ==
    /\ desk[a].pc = "delete"
    /\ \/ post' = [post EXCEPT !.there = FALSE]
       \/ UNCHANGED post
    /\ Done(a)
    /\ UNCHANGED <<thread, hand, box, calls, decided, erased, late>>

-----------------------------------------------------------------------------
(* Comments                                                                *)

UnderWay(u) == {i \in {1, 2} : hand[u][i].pc # "idle"}
\* What is in the box is on its way.
Pending(u) == \E i \in UnderWay(u) : hand[u][i].draft = box[u].draft

\* A member writes in an empty box, or over what he has sent.
Write(u) ==
    /\ box[u].typed < MaxDrafts /\ (box[u].draft = 0 \/ Pending(u))
    /\ box' = [box EXCEPT ![u].draft = box[u].typed + 1, ![u].typed = @ + 1,
                          ![u].loose = IF UnderWay(u) = {} THEN @
                                       ELSE @ \cup ({box[u].draft, box[u].typed + 1} \ {0})]
    /\ UNCHANGED <<post, thread, desk, hand, calls, decided, erased, late>>

\* addPostComment() as far as its checks; one that is refused leaves the box.
BeginComment(u, i) ==
    /\ box[u].draft # 0 /\ hand[u][i].pc = "idle" /\ Calling
    /\ post.there /\ ~ post.locked
    /\ hand' = [hand EXCEPT ![u][i] = [pc |-> "save", draft |-> box[u].draft]]
    /\ box' = [box EXCEPT ![u].last = i,
                          ![u].again = IF Pending(u) THEN @ \cup {box[u].draft} ELSE @]
    /\ UNCHANGED <<post, thread, desk, decided, erased, late>>

\* submit(), by the button or by the Enter key.
TapSend(u) == hand[u][box[u].last].pc = "idle" /\ \E i \in {1, 2} : BeginComment(u, i)
PressEnter(u) == \E i \in {1, 2} : BeginComment(u, i)

Posted(u, d) == Cardinality({c \in thread : c[1] = u /\ c[2] = d})
BeingDeleted == ~ post.there \/ \E a \in Actors : desk[a].pc = "delete"

\* Mutant of SaveComment: the count is set from the comments there are.
SaveCommentRecounted(u, i) ==
    LET d == hand[u][i].draft IN
    /\ hand[u][i].pc = "save"
    /\ thread' = thread \cup {<<u, d, Posted(u, d)>>}
    /\ post' = IF post.there THEN [post EXCEPT !.commentCount = Cardinality(thread)] ELSE post
    /\ late' = IF BeingDeleted THEN late + 1 ELSE late
    /\ hand' = [hand EXCEPT ![u][i].pc = "saved"]
    /\ UNCHANGED <<desk, box, calls, decided, erased>>

\* The transaction, which does not look at the post again; or it fails.
SaveComment(u, i) ==
    LET d == hand[u][i].draft IN
    /\ hand[u][i].pc = "save"
    /\ \/ /\ thread' = thread \cup {<<u, d, Posted(u, d)>>}
          /\ post' = IF post.there THEN [post EXCEPT !.commentCount = @ + 1] ELSE post
          /\ late' = IF BeingDeleted THEN late + 1 ELSE late
          /\ hand' = [hand EXCEPT ![u][i].pc = "saved"]
       \/ /\ hand' = [hand EXCEPT ![u][i] = NoHand[i]]
          /\ UNCHANGED <<thread, post, late>>
    /\ UNCHANGED <<desk, box, calls, decided, erased>>

\* The answer of the last request clears the box, whatever is in it; or the
\* answer is lost.
Answer(u, i) ==
    /\ hand[u][i].pc = "saved"
    /\ hand' = [hand EXCEPT ![u][i] = NoHand[i]]
    /\ box' = [box EXCEPT ![u] =
         IF i = box[u].last THEN [@ EXCEPT !.draft = 0] ELSE @]
    /\ UNCHANGED <<post, thread, desk, calls, decided, erased, late>>

LoseAnswer(u, i) ==
    /\ hand[u][i].pc = "saved"
    /\ hand' = [hand EXCEPT ![u][i] = NoHand[i]]
    /\ box' = [box EXCEPT ![u].again = @ \cup {hand[u][i].draft}]
    /\ UNCHANGED <<post, thread, desk, calls, decided, erased, late>>

-----------------------------------------------------------------------------
Next ==
    \/ \E a \in Actors :
          \/ Create(a)
          \/ \E pc \in Updates : BeginUpdate(a, pc)
          \/ \E pc \in Pins : BeginPin(a, pc)
          \/ \E pc \in Decisions : TapDecision(a, pc)
          \/ SaveUpdate(a) \/ SavePin(a) \/ SaveDecision(a)
          \/ BeginDelete(a) \/ Erase(a) \/ Delete(a)
    \/ \E u \in Members :
          \/ Write(u) \/ TapSend(u) \/ PressEnter(u)
          \/ \E i \in {1, 2} : SaveComment(u, i) \/ Answer(u, i) \/ LoseAnswer(u, i)

Spec == Init /\ [][Next]_vars

-----------------------------------------------------------------------------
(* Properties                                                              *)

\* A post's count is that of its comments and of those that deletions cut
\* short have erased (post.service.ts:93 and 131).
CountAddsUp == post.there => post.commentCount = Cardinality(thread) + erased

\* A deleted post leaves no comment behind but those saved while it was being
\* deleted, or after (post.service.ts:94 and 118).
NothingLeftBehind == ~ post.there => Cardinality(thread) = late

\* The last decision of a moderator stands, whatever else is saved, unless it
\* overlapped the one before and changed nothing of what it had loaded
\* (admin.controller.ts:447).
DecisionStands ==
    post.there => /\ decided = "remove" => post.hidden
                  /\ decided = "keep" => ~ post.hidden

\* A comment that was written is in the box, under way or on the post, unless
\* it was written or written over while another was under way
\* (PostDetailScreen.tsx:20), or the post's comments have been deleted.
DraftsKept ==
    \A u \in Members : \A d \in 1..box[u].typed :
       \/ box[u].draft = d \/ d \in box[u].loose
       \/ \E i \in UnderWay(u) : hand[u][i].draft = d
       \/ Posted(u, d) > 0
       \/ erased > 0

\* It is on the post once, unless it was sent again before its answer came
\* (PostDetailScreen.tsx:87).
PostedOnce ==
    \A u \in Members, d \in Drafts : d \notin box[u].again => Posted(u, d) <= 1

PostsWork ==
    /\ CountAddsUp /\ NothingLeftBehind /\ DecisionStands /\ DraftsKept /\ PostedOnce
=============================================================================
