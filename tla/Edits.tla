-------------------------------- MODULE Edits --------------------------------
(***************************************************************************)
(* The screens that edit a document of the server: what each loads, lets   *)
(* its user enter and sends, and what the server does with it              *)
(* (web/src/features: EventForm, EditEvent, EditPricing, EditProfile,      *)
(* CommunitySettings, BrandingCustomizer, AdminWizard, the onboarding and  *)
(* settings screens; backend/src: applyScopedEdit, updateCommunity,        *)
(* updateMe and the handlers of the preferences).                          *)
(*                                                                         *)
(* A behaviour is about one document, edited in the browsers of Pages.  A  *)
(* field is empty, as it was or as somebody entered it; a few of them are  *)
(* chosen from a list.  Fields that every screen treats alike are one      *)
(* field: the two times of an event, the two colours of a community, the   *)
(* lines of a profile.  A save is served in one step.                      *)
(***************************************************************************)
EXTENDS Naturals

CONSTANTS
    Pages,
    MaxEntries, \* bound: fields entered in a behaviour
    MaxSaves    \* bound: changes of the document

EditsAssumption == MaxEntries \in Nat /\ MaxSaves \in Nat

VARIABLES
    about,      \* the kind of the document
    doc,        \* its fields
    version,    \* the number of its changes
    page,       \* the screen each browser has open
    store,      \* the copy of the user that each browser keeps
    entries,
    wanted,     \* what was entered last in each field and saved
    inTurn      \* no save so far was made from an outdated screen
vars == <<about, doc, version, page, store, entries, wanted, inTurn>>

Values == {"none", "old", "new", "other"}
Pricings == {"free", "paid", "external", "subscription_only"}
Places == {"physical", "online", "hybrid"}
Statuses == {"draft", "published", "cancelled"}

EventFields == {"title", "description", "cover", "times", "place", "address", "url",
                "capacity", "pricing", "price", "link", "included"}
\* The tiers of a price are a field of the screen only.
Tiers == {"tiers"}
CommunityFields == {"name", "description", "category", "privacy", "logo", "colours",
                    "welcome", "rules"}
UserFields == {"name", "bio", "photo", "interests", "details", "relationship",
               "visibility", "mentions", "push", "email"}
PlatformFields == {"maintenance", "signups"}

\* Texts that are never saved empty, whatever was entered, and switches.
Needed == {"title", "times", "name", "category", "privacy", "colours", "interests",
           "visibility", "mentions", "push", "email", "maintenance", "signups", "included"}
Choices(f) ==
    CASE f = "pricing" -> Pricings
      [] f = "place" -> Places
      [] f \in Needed \cup Tiers -> {"new"}
      [] OTHER -> {"none", "new"}

\* The fields of f, and those of g it has not.
Over(f, g) == [x \in DOMAIN f \cup DOMAIN g |-> IF x \in DOMAIN f THEN f[x] ELSE g[x]]

Blank(fields) == [f \in fields |-> "none"]
Nothing == Blank({})
SomeEvent == Over([f \in EventFields |-> "old"], [status |-> "published"])
Documents ==
    [event |->
        {[SomeEvent EXCEPT !.place = "hybrid", !.pricing = "paid", !.cover = "none",
                           !.link = "none"],
         [SomeEvent EXCEPT !.place = "online", !.address = "none", !.pricing = "external",
                           !.price = "none", !.status = "cancelled"]},
     community |-> {[f \in CommunityFields |-> "old"],
                    [Blank(CommunityFields) EXCEPT !.name = "old", !.category = "old",
                                                   !.privacy = "old"]},
     user |-> {[f \in UserFields |-> "old"]},
     platform |-> {[f \in PlatformFields |-> "old"]}]

PrivacyInputs == {"visibility", "mentions"}
NotificationInputs == {"push", "email"}

-----------------------------------------------------------------------------
(* What the screens send                                                   *)

Only(fields, v) == [f \in fields |-> v[f]]
\* Empty texts are sent as undefined, which is not sent.
Filled(fields, v) == [f \in {g \in fields : v[g] # "none"} |-> v[f]]

PricingSent(v) ==
    [pricing |-> v.pricing, price |-> IF v.pricing = "paid" THEN v.price ELSE "none"]

valuesToDraft(v, status) ==
    LET also == (IF v.place # "online" THEN {"address"} ELSE {})
                 \cup (IF v.place # "physical" THEN {"url"} ELSE {})
                 \cup (IF v.pricing = "external" THEN {"link"} ELSE {})
    IN Over(Only({"title", "times", "place", "capacity"}, v),
            Over(Filled({"description", "cover"} \cup also, v),
                 Over(PricingSent(v), [status |-> status])))

\* A sub-admin sends no price, and the type free.
EditEvent(v, limited, status) ==
    LET draft == valuesToDraft(v, status)
    IN IF limited THEN [f \in DOMAIN draft \ {"price", "link"} |->
                            IF f = "pricing" THEN "free" ELSE draft[f]]
       ELSE draft

\* Of the two long texts each sheet sends both, the other one as it was loaded.
CommunitySettings(v, entered) ==
    IF entered \subseteq {"welcome", "rules"} THEN Only({"welcome", "rules"}, v)
    ELSE Only(entered, v)

Branding(v) == Over(Filled({"logo"}, v), Only({"colours"}, v))

WizardStep(v, step) ==
    CASE step = 1 -> Only({"name", "description", "category"}, v)
      [] step = 2 -> Branding(v)
      [] step = 3 -> Only({"privacy"}, v)
      [] step = 4 -> Only({"welcome", "rules"}, v)

\* The lines of the profile are sent as the screen has them, and it has none
\* before the answer but those entered.
EditProfile(v, lines) ==
    Over(Filled({"name", "bio", "photo", "relationship"}, v),
         Only({"interests"} \cup (IF lines THEN {"details"} ELSE {}), v))

Sent(p, status) ==
    LET pg == page[p]
        v == Over(pg.edits, pg.loaded)
    IN CASE pg.screen = "EditEvent" -> EditEvent(v, pg.limited, status)
         [] pg.screen = "EditPricing" -> PricingSent(v)
         [] pg.screen = "CommunitySettings" -> CommunitySettings(v, DOMAIN pg.edits)
         [] pg.screen = "Branding" -> Branding(v)
         [] pg.screen = "AdminWizard" -> WizardStep(v, pg.step)
         [] pg.screen = "EditProfile" ->
               EditProfile(v, pg.pc = "open" \/ "details" \in DOMAIN pg.edits)
         [] pg.screen = "ProfileSetup" -> Only({"name"}, v)
         [] pg.screen = "InterestsSelector" -> Only({"interests"}, v)
         [] pg.screen = "NotificationPrefs" -> Only(NotificationInputs, v)
         [] OTHER -> pg.edits    \* PrivacySettings and PlatformSettings

-----------------------------------------------------------------------------
(* What the server does with it                                            *)

Take(fields, d, patch) ==
    [f \in DOMAIN d |-> IF f \in fields \cap DOMAIN patch THEN patch[f] ELSE d[f]]

\* Mutant of applyScopedEdit: a patch's place replaces address and link as well.
applyScopedEditWhole(e, patch) ==
    LET place == IF "place" \in DOMAIN patch THEN [address |-> "none", url |-> "none"] ELSE Nothing
    IN Take((EventFields \ {"times"}) \cup {"status"}, e, Over(patch, place))

\* Place and price are merged with what the event has; the times of a patch
\* are not applied.
applyScopedEdit(e, patch) == Take((EventFields \ {"times"}) \cup {"status"}, e, patch)

updateEventRefused(e, patch, limited) ==
    LET now == Over(patch, e)
    IN limited /\ (now.pricing = "paid" \/ now.price # "none")

updateCommunity(c, patch) == Take(CommunityFields, c, patch)
updateMe(u, patch) == Take({"name", "bio", "photo", "interests", "details", "relationship"},
                           u, patch)
updatePrivacy(u, patch) == Take(PrivacyInputs, u, patch)
updatePreferences(u, patch) == Take(NotificationInputs, u, patch)
updatePlatformSettings(s, patch) == Take(PlatformFields, s, patch)

Patched(screen, patch) ==
    CASE about = "event" -> applyScopedEdit(doc, patch)
      [] about = "community" -> updateCommunity(doc, patch)
      [] screen \in {"EditProfile", "ProfileSetup", "InterestsSelector"} -> updateMe(doc, patch)
      [] screen = "PrivacySettings" -> updatePrivacy(doc, patch)
      [] screen = "NotificationPrefs" -> updatePreferences(doc, patch)
      [] about = "platform" -> updatePlatformSettings(doc, patch)

-----------------------------------------------------------------------------
(* The screens                                                             *)

ScreensOf(kind) ==
    CASE kind = "event" -> {"EditEvent", "EditPricing"}
      [] kind = "community" -> {"CommunitySettings", "Branding", "AdminWizard"}
      [] kind = "user" -> {"EditProfile", "ProfileSetup", "InterestsSelector",
                           "PrivacySettings", "NotificationPrefs"}
      [] kind = "platform" -> {"PlatformSettings"}

\* What they take from the browser's copy of the user: EditProfile the interests
\* only until the server has answered.
Copied(screen) ==
    CASE screen = "EditProfile" -> {"name", "interests"}
      [] screen = "ProfileSetup" -> {"name"}
      [] screen = "InterestsSelector" -> {"interests"}
      [] OTHER -> {}
Onboarding == {"ProfileSetup", "InterestsSelector"}

EventInputs(v, limited) ==
    {"title", "description", "cover", "times", "place", "capacity"}
    \cup (IF v.place # "online" THEN {"address"} ELSE {})
    \cup (IF v.place # "physical" THEN {"url"} ELSE {})
    \cup (IF limited THEN {} ELSE {"pricing"})
    \cup (IF v.pricing = "paid" /\ ~ limited THEN {"price", "included"} ELSE {})
    \cup (IF v.pricing = "external" /\ ~ limited THEN {"link"} ELSE {})
PricingInputs(v) == {"pricing"} \cup (IF v.pricing = "paid" THEN {"price"} \cup Tiers ELSE {})
SettingsInputs == CommunityFields \ {"logo", "colours"}
BrandingInputs == {"logo", "colours"}
WizardInputs(step) ==
    CASE step = 1 -> {"name", "description", "category"}
      [] step = 2 -> BrandingInputs
      [] step = 3 -> {"privacy"}
      [] step = 4 -> {"welcome", "rules"}
ProfileInputs == {"name", "bio", "details", "relationship"}

Inputs(pg) ==
    LET v == Over(pg.edits, pg.loaded)
    IN CASE pg.screen = "EditEvent" -> EventInputs(v, pg.limited)
         [] pg.screen = "EditPricing" -> PricingInputs(v)
         [] pg.screen = "CommunitySettings" -> SettingsInputs
         [] pg.screen = "Branding" -> BrandingInputs
         [] pg.screen = "AdminWizard" -> WizardInputs(pg.step)
         [] pg.screen = "EditProfile" -> ProfileInputs
         [] pg.screen \in Onboarding -> Copied(pg.screen)
         [] pg.screen = "PrivacySettings" -> PrivacyInputs
         [] pg.screen = "NotificationPrefs" -> NotificationInputs
         [] pg.screen = "PlatformSettings" -> PlatformFields

Closed == [screen |-> "none", pc |-> "closed", loaded |-> Nothing, edits |-> Nothing, since |-> 0,
           step |-> 1, limited |-> FALSE]
\* The version of a screen that has not seen the document as it is.
Outdated == MaxSaves + 1
StoreOf(u, at) == [f \in {"name", "interests"} |-> [is |-> u[f], at |-> at]]

Init ==
    /\ about \in {"event", "community", "user", "platform"}
    /\ doc \in Documents[about]
    /\ version = 0 /\ entries = 0
    /\ page = [p \in Pages |-> Closed]
    /\ store = [p \in Pages |-> IF about = "user" THEN StoreOf(doc, 0) ELSE Nothing]
    /\ wanted = doc /\ inTurn = TRUE

\* The colours of a community that has none are those the screen starts with.
Begun(screen) == IF screen \in {"Branding", "AdminWizard"} /\ doc.colours = "none"
                 THEN [colours |-> "other"] ELSE Nothing

\* Only EditProfile can be used before the answer: for the others, Open stands
\* for the answer too.
Open(p, screen, limited) ==
    LET pg == [screen |-> screen, pc |-> IF screen = "EditProfile" THEN "loading" ELSE "open",
               loaded |-> [f \in DOMAIN doc |-> IF f \in Copied(screen) THEN store[p][f].is
                                               ELSE IF screen = "EditProfile" THEN "none"
                                               ELSE doc[f]],
               edits |-> Begun(screen), step |-> 1, limited |-> limited,
               since |-> IF \E f \in Copied(screen) : store[p][f].at # version
                         THEN Outdated ELSE version]
    IN /\ page[p].pc = "closed" /\ screen \in ScreensOf(about)
       /\ limited => screen = "EditEvent"
       /\ page' = [page EXCEPT ![p] = pg]
       /\ UNCHANGED <<about, doc, version, store, entries, wanted, inTurn>>

\* The answer overwrites what was entered before it, but for the name, which is
\* not taken from it, and for what the user has not set.
Answer(p) ==
    LET pg == page[p]
        late == {f \in DOMAIN pg.edits : f = "name" \/ doc[f] = "none"}
    IN /\ pg.pc = "loading"
       /\ page' = [page EXCEPT ![p] =
              [pg EXCEPT !.pc = "open", !.edits = Only(late, pg.edits),
                         !.loaded = Over(Only({"name"}, pg.loaded), doc)]]
       /\ UNCHANGED <<about, doc, version, store, entries, wanted, inTurn>>

\* A sheet of the community's settings is about one field.
Enter(p, f, value) ==
    LET pg == page[p]
    IN /\ entries < MaxEntries
       /\ pg.pc = "open" \/ (pg.pc = "loading" /\ pg.screen = "EditProfile")
       /\ f \in Inputs(pg) /\ value \in Choices(f)
       /\ pg.screen = "CommunitySettings" => DOMAIN pg.edits \subseteq {f}
       /\ page' = [page EXCEPT ![p].edits = Over([x \in {f} |-> value], pg.edits)]
       /\ entries' = entries + 1
       /\ UNCHANGED <<about, doc, version, store, wanted, inTurn>>

Leave(p) ==
    /\ page[p].pc # "closed"
    /\ page' = [page EXCEPT ![p] = Closed]
    /\ UNCHANGED <<about, doc, version, store, entries, wanted, inTurn>>

BackStep(p) ==
    /\ page[p].pc = "open" /\ page[p].screen = "AdminWizard" /\ page[p].step > 1
    /\ page' = [page EXCEPT ![p].step = @ - 1]
    /\ UNCHANGED <<about, doc, version, store, entries, wanted, inTurn>>

\* The screen after a save that was served.
After(p, at) ==
    LET pg == page[p]
        now == Over(pg.edits, pg.loaded)
        sent == Inputs(pg)
        since == IF pg.since = version THEN at ELSE pg.since
    IN CASE pg.screen = "CommunitySettings" -> [pg EXCEPT !.edits = Nothing]
         [] pg.screen = "AdminWizard" ->
               IF pg.step = 4 THEN Closed
               ELSE [pg EXCEPT !.step = @ + 1, !.since = since,
                               !.loaded = Over(Only(sent, now), pg.loaded),
                               !.edits = Only(DOMAIN pg.edits \ sent, pg.edits)]
         [] pg.screen \in {"PrivacySettings", "NotificationPrefs", "PlatformSettings"} ->
               [pg EXCEPT !.edits = Nothing, !.loaded = doc', !.since = at]
         [] OTHER -> Closed

\* The fields whose input is kept.  No screen saves the times of an event or
\* what its perk for subscribers is, and an empty text is often not sent.
NotCleared(screen) ==
    CASE screen = "EditEvent" -> {"description", "cover", "address", "url", "link"}
      [] screen \in {"Branding", "AdminWizard"} -> {"logo"}
      [] screen = "EditProfile" -> {"bio", "relationship"}
      [] OTHER -> {}
Kept(pg) ==
    {f \in (DOMAIN pg.edits \cap Inputs(pg)) \ ({"times", "included"} \cup Tiers) :
        ~ (pg.edits[f] = "none" /\ f \in NotCleared(pg.screen))}

Save(p, status) ==
    LET pg == page[p]
        v == Over(pg.edits, pg.loaded)
        sent == Sent(p, status)
        old == store[p]
        refused == about = "event" /\ updateEventRefused(doc, sent, pg.limited)
        next == IF refused THEN doc ELSE Patched(pg.screen, sent)
        at == IF next = doc THEN version ELSE version + 1
        implied == IF pg.screen \in {"EditEvent", "EditPricing"} /\ v.pricing # "paid"
                   THEN [price |-> "none"] ELSE Nothing
        chosen == IF pg.screen = "EditEvent" THEN [status |-> status] ELSE Nothing
        forced == IF pg.limited THEN [pricing |-> "free"] ELSE Nothing
    IN /\ pg.pc # "closed"
       /\ at <= MaxSaves
       /\ pg.screen \in {"CommunitySettings", "PrivacySettings", "NotificationPrefs",
                         "PlatformSettings"} => pg.edits # Nothing
       /\ status = "draft" \/ pg.screen = "EditEvent"
       /\ doc' = next /\ version' = at
       /\ page' = [page EXCEPT ![p] = IF refused THEN pg ELSE After(p, at)]
       /\ wanted' = IF refused THEN wanted
                    ELSE Over(Over(chosen, Over(forced, implied)),
                              Over(Only(Kept(pg), pg.edits), wanted))
       /\ inTurn' = (inTurn /\ (pg.since = version \/ DOMAIN sent \subseteq DOMAIN pg.edits))
       /\ store' = IF pg.screen \in Onboarding
                   THEN [store EXCEPT ![p] = [f \in DOMAIN old |->
                            IF f \in Copied(pg.screen) THEN [is |-> v[f], at |-> at]
                            ELSE [is |-> old[f].is,
                                  at |-> IF old[f].at = version THEN at ELSE old[f].at]]]
                   ELSE store
       /\ UNCHANGED <<about, entries>>

\* A photo is saved as soon as it is picked, and the answer replaces the copy
\* of the user.
UploadPhoto(p) ==
    LET pg == page[p]
        next == updateMe(doc, [photo |-> "new"])
        at == IF next = doc THEN version ELSE version + 1
    IN /\ pg.screen = "EditProfile" /\ at <= MaxSaves /\ entries < MaxEntries
       /\ doc' = next /\ version' = at /\ wanted' = [wanted EXCEPT !.photo = "new"]
       /\ page' = [page EXCEPT ![p] =
              [pg EXCEPT !.edits = Over([photo |-> "new"], pg.edits),
                         !.since = IF pg.since = version THEN at ELSE pg.since]]
       /\ store' = [store EXCEPT ![p] = StoreOf(next, at)]
       /\ entries' = entries + 1
       /\ UNCHANGED <<about, inTurn>>

\* The cover of a new initiative is uploaded as the photo of its author.
UploadCover(p) ==
    LET next == updateMe(doc, [photo |-> "other"])
        at == IF next = doc THEN version ELSE version + 1
    IN /\ page[p].pc = "closed" /\ about = "user" /\ at <= MaxSaves /\ entries < MaxEntries
       /\ doc' = next /\ version' = at /\ wanted' = [wanted EXCEPT !.photo = "other"]
       /\ entries' = entries + 1
       /\ UNCHANGED <<about, page, store, inTurn>>

\* The first screen asks the server for the user.
Reload(p) ==
    /\ page[p].pc = "closed" /\ about = "user"
    /\ store' = [store EXCEPT ![p] = StoreOf(doc, version)]
    /\ UNCHANGED <<about, doc, version, page, entries, wanted, inTurn>>

\* What follows a save from an outdated screen is not looked at.
Next ==
    inTurn /\ \E p \in Pages :
       \/ \E s \in ScreensOf(about), limited \in BOOLEAN : Open(p, s, limited)
       \/ Answer(p) \/ Leave(p) \/ BackStep(p)
       \/ \E f \in DOMAIN doc \cup Tiers : \E value \in Choices(f) : Enter(p, f, value)
       \/ \E status \in {"draft", "published"} : Save(p, status)
       \/ UploadPhoto(p) \/ UploadCover(p) \/ Reload(p)

-----------------------------------------------------------------------------
TypeOK ==
    /\ doc \in [DOMAIN doc -> Values \cup Pricings \cup Places \cup Statuses]
    /\ DOMAIN wanted = DOMAIN doc
    /\ version \in 0..MaxSaves /\ entries \in 0..MaxEntries /\ inTurn \in BOOLEAN
    /\ \A p \in Pages : /\ page[p].pc \in {"closed", "loading", "open"}
                         /\ DOMAIN page[p].edits \subseteq DOMAIN doc \cup Tiers
                         /\ page[p].since \in 0..version \cup {Outdated}

\* A save changes what was entered and nothing else: whatever the screens,
\* their order and the fields they show together, the document is what was
\* entered last in each of its fields, as long as no screen that also sends
\* what it had loaded was loaded before somebody else's save.  Excepted are the
\* inputs of Kept, a sub-admin's save, which makes an event free, and the cover
\* of an initiative.
EditsKept == inTurn => doc = wanted
=============================================================================
