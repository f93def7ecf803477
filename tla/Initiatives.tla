----------------------------- MODULE Initiatives -----------------------------
(***************************************************************************)
(* One initiative of a community: its review, its supporters and           *)
(* contributors and its comments (backend/src/services/                    *)
(* initiative.service.ts), from its creation on.                           *)
(*                                                                         *)
(* A request loads the document, checks it, and saves it later.  Mongoose  *)
(* writes the fields that were changed: a push to an array is sent as a    *)
(* push and raises the document's version; an array that is assigned is    *)
(* sent whole, and only if the version is the one loaded; the save of a    *)
(* document deleted since fails.                                           *)
(*                                                                         *)
(* Members are those of the community, Author among them; any of its staff *)
(* may review.  Edits of the text, and notifications, are left out.        *)
(***************************************************************************)
EXTENDS Serving

CONSTANTS
    Members, Author, NoMember,
    IniRequests    \* bound: requests of a behaviour

ASSUME IniRequestsAssumption == IniRequests \in Nat

VARIABLES
    ini,       \* the Initiative document
    comments,  \* number of Comment documents of it
    iniWork    \* what the workers are doing
iniVars == <<ini, comments, pool, sent, iniWork>>

IniStatus == {"draft", "submitted", "approved", "active", "completed", "rejected", "gone"}
\* The array of supporters by its entries, whatever their order: <<u, n>> is
\* the entry of u that came after n others of u.
Doc == [status : IniStatus,
        supporters : SUBSET (Members \X Nat),
        supporterCount : Nat,
        contributors : SUBSET Members,
        commentCount : Nat]

IniPc == {"idle", "submit", "approve", "reject", "complete", "support", "unsupport",
       "contribute", "comment", "deleteComments", "deleteDoc"}
IniWorker == [pc : IniPc, user : Members \cup {NoMember},
           doc : Doc,
           current : BOOLEAN]  \* the version loaded is still the document's

Created == [status |-> "draft", supporters |-> {}, supporterCount |-> 0,
            contributors |-> {}, commentCount |-> 0]
IniIdle == [pc |-> "idle", user |-> NoMember, doc |-> Created, current |-> TRUE]

InitiativesTypeOK ==
    /\ ini \in Doc
    /\ comments \in Nat
    /\ pool \in SUBSET Workers
    /\ sent \in 0..IniRequests
    /\ iniWork \in [Workers -> IniWorker]

\* createInitiative()
InitiativesInit ==
    /\ \E s \in {"draft", "submitted"} : ini = [Created EXCEPT !.status = s]
    /\ comments = 0
    /\ pool \in Pools
    /\ sent = 0
    /\ iniWork = [w \in Workers |-> IniIdle]

-----------------------------------------------------------------------------
IniAt(w, pc) == iniWork[w].pc = pc
IniDone(w) == iniWork' = [iniWork EXCEPT ![w] = IniIdle]
IniExists == ini.status # "gone"
Supporting(doc) == {e[1] : e \in doc.supporters}

\* getInitiative(): only the author and the staff see what is not open yet.
Visible(u) == IniExists /\ (ini.status \in {"draft", "submitted", "rejected"} => u = Author)

IniBegin(w, pc, u) ==
    /\ w \in pool /\ IniAt(w, "idle") /\ IniExists /\ sent < IniRequests
    /\ iniWork' = [iniWork EXCEPT ![w] = [pc |-> pc, user |-> u, doc |-> ini, current |-> TRUE]]
    /\ sent' = sent + 1
    /\ UNCHANGED <<ini, comments, pool>>

\* Worker w is through and has raised the version: other loaded documents
\* are out of date.
DoneRaising(w) ==
    iniWork' = [v \in Workers |-> IF v = w THEN IniIdle ELSE [iniWork[v] EXCEPT !.current = FALSE]]

\* The fields set by a save; arrays are written apart.
Changed(f, old, new) == IF new[f] # old[f] THEN new[f] ELSE ini[f]

-----------------------------------------------------------------------------
(* submitInitiative(), approveInitiative(), rejectInitiative(),            *)
(* completeInitiative()                                                    *)

BeginSubmit(w) == ini.status = "draft" /\ IniBegin(w, "submit", NoMember)
BeginApprove(w) == ini.status \in {"submitted", "rejected"} /\ IniBegin(w, "approve", NoMember)

\* Mutant of BeginReject: what is under way may be rejected too.
BeginRejectAny(w) ==
    ini.status \in {"submitted", "approved", "active"} /\ IniBegin(w, "reject", NoMember)

BeginReject(w) == ini.status \in {"submitted", "approved"} /\ IniBegin(w, "reject", NoMember)

BeginComplete(w) == ini.status \in {"approved", "active"} /\ IniBegin(w, "complete", NoMember)

SaveStatus(w, pc, status) ==
    /\ IniAt(w, pc)
    /\ ini' = IF IniExists THEN [ini EXCEPT !.status = status] ELSE ini
    /\ IniDone(w)
    /\ UNCHANGED <<comments, pool, sent>>

SaveReview(w) ==
    \/ SaveStatus(w, "submit", "submitted")
    \/ SaveStatus(w, "approve", "approved")
    \/ SaveStatus(w, "reject", "rejected")
    \/ SaveStatus(w, "complete", "completed")

-----------------------------------------------------------------------------
(* addSupport(), removeSupport(), addContributor()                         *)

Push(supporters, u) ==
    supporters \cup {<<u, Cardinality({e \in supporters : e[1] = u})>>}
Without(supporters, u) == {e \in supporters : e[1] # u}

BeginSupport(w, u) ==
    /\ ini.status \in {"approved", "active"} /\ u \notin Supporting(ini)
    /\ IniBegin(w, "support", u)

SaveSupport(w) ==
    LET u == iniWork[w].user
        old == iniWork[w].doc
        new == [old EXCEPT !.supporterCount = Cardinality(old.supporters) + 1, !.status = "active"] IN
    /\ IniAt(w, "support")
    /\ IF IniExists
       THEN /\ ini' = [ini EXCEPT !.supporters = Push(@, u),
                                  !.supporterCount = Changed("supporterCount", old, new),
                                  !.status = Changed("status", old, new)]
            /\ DoneRaising(w)
       ELSE IniDone(w) /\ UNCHANGED ini
    /\ UNCHANGED <<comments, pool, sent>>

BeginUnsupport(w, u) == Visible(u) /\ u \in Supporting(ini) /\ IniBegin(w, "unsupport", u)

\* Mutant of SaveUnsupport: the array is written whatever the version.
SaveUnsupportUnversioned(w) ==
    LET old == iniWork[w].doc
        left == Without(old.supporters, iniWork[w].user)
        new == [old EXCEPT !.supporterCount = Cardinality(left)] IN
    /\ IniAt(w, "unsupport")
    /\ IF IniExists
       THEN /\ ini' = [ini EXCEPT !.supporters = left,
                                  !.supporterCount = Changed("supporterCount", old, new)]
            /\ DoneRaising(w)
       ELSE IniDone(w) /\ UNCHANGED ini
    /\ UNCHANGED <<comments, pool, sent>>

\* The filtered array is assigned: the save fails if the version has moved on.
SaveUnsupport(w) ==
    LET old == iniWork[w].doc
        left == Without(old.supporters, iniWork[w].user)
        new == [old EXCEPT !.supporterCount = Cardinality(left)] IN
    /\ IniAt(w, "unsupport")
    /\ IF IniExists /\ iniWork[w].current
       THEN /\ ini' = [ini EXCEPT !.supporters = left,
                                  !.supporterCount = Changed("supporterCount", old, new)]
            /\ DoneRaising(w)
       ELSE IniDone(w) /\ UNCHANGED ini
    /\ UNCHANGED <<comments, pool, sent>>

BeginContribute(w, u) == u \notin ini.contributors /\ IniBegin(w, "contribute", u)

SaveContributor(w) ==
    /\ IniAt(w, "contribute")
    /\ IF IniExists
       THEN /\ ini' = [ini EXCEPT !.contributors = @ \cup {iniWork[w].user}]
            /\ DoneRaising(w)
       ELSE IniDone(w) /\ UNCHANGED ini
    /\ UNCHANGED <<comments, pool, sent>>

-----------------------------------------------------------------------------
(* addComment(), deleteInitiative()                                        *)

BeginComment(w, u) ==
    ini.status \in {"approved", "active", "completed"} /\ IniBegin(w, "comment", u)

\* Mutant of AddComment: the count is the loaded one plus one.
AddCommentToLoaded(w) ==
    /\ IniAt(w, "comment")
    /\ comments' = comments + 1
    /\ ini' = IF IniExists THEN [ini EXCEPT !.commentCount = iniWork[w].doc.commentCount + 1]
              ELSE ini
    /\ IniDone(w)
    /\ UNCHANGED <<pool, sent>>

\* A transaction: the comment is created even if there is no initiative left
\* to count it.
AddComment(w) ==
    /\ IniAt(w, "comment")
    /\ comments' = comments + 1
    /\ ini' = IF IniExists THEN [ini EXCEPT !.commentCount = @ + 1] ELSE ini
    /\ IniDone(w)
    /\ UNCHANGED <<pool, sent>>

BeginDelete(w) == IniBegin(w, "deleteComments", NoMember)

DeleteComments(w) ==
    /\ IniAt(w, "deleteComments")
    /\ comments' = 0
    /\ iniWork' = [iniWork EXCEPT ![w].pc = "deleteDoc"]
    /\ UNCHANGED <<ini, pool, sent>>

DeleteDoc(w) ==
    /\ IniAt(w, "deleteDoc")
    /\ ini' = [Created EXCEPT !.status = "gone"]
    /\ IniDone(w)
    /\ UNCHANGED <<comments, pool, sent>>

-----------------------------------------------------------------------------
IniReceive(w) ==
    \/ BeginSubmit(w) \/ BeginApprove(w) \/ BeginReject(w) \/ BeginComplete(w)
    \/ BeginDelete(w)
    \/ \E u \in Members : \/ BeginSupport(w, u) \/ BeginUnsupport(w, u)
                        \/ BeginContribute(w, u) \/ BeginComment(w, u)

IniServe(w) ==
    \/ SaveReview(w) \/ SaveSupport(w) \/ SaveUnsupport(w) \/ SaveContributor(w)
    \/ AddComment(w) \/ DeleteComments(w) \/ DeleteDoc(w)

InitiativesNext == \E w \in Workers : IniReceive(w) \/ IniServe(w)

InitiativesSpec == InitiativesInit /\ [][InitiativesNext]_iniVars

-----------------------------------------------------------------------------
(* Properties                                                              *)

\* No support is lost: however requests overlap, a supporter stays one until
\* he withdraws or the initiative is deleted.  It takes the version check
\* that guards the array removeSupport() assigns; addSupport() pushes.
SupportNotLost ==
    [][\A u \in Supporting(ini) :
          \/ u \in Supporting(ini')
          \/ ini'.status = "gone"
          \/ \E w \in Workers : IniAt(w, "unsupport") /\ iniWork[w].user = u]_iniVars

\* commentCount is the number of comments, but while the initiative is being
\* deleted: the transaction of addComment() adds to what is there.
CommentCountExact ==
    IniExists /\ (\A w \in Workers : ~ IniAt(w, "deleteDoc")) => ini.commentCount = comments

\* supporterCount is the number of supporters, none of them twice, and an
\* initiative with supporters is active or completed.  Only while requests do
\* not overlap: a second support counts from the supporters it loaded, and a
\* review that is under way saves its status over that of the first support.
SupportersInTurn ==
    Cardinality(pool) = 1 =>
        /\ ini.supporterCount = Cardinality(Supporting(ini))
        /\ ini.supporterCount = Cardinality(ini.supporters)
        /\ Supporting(ini) # {} => ini.status \in {"active", "completed"}
=============================================================================
