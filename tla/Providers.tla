------------------------------ MODULE Providers ------------------------------
(***************************************************************************)
(* The AI providers of the page and where they live: in the file of the    *)
(* machine that serves it, or in this browser.  The service decides by the *)
(* request's address and says so with its first answer; until then the     *)
(* page does not know.                                                     *)
(*                                                                         *)
(* A provider is its identifier and its models; those of the file have     *)
(* identifiers of their own (ai-profile-db-N), which the service gives.    *)
(* Names, addresses, keys and the enabled mark are left out.  Saving and   *)
(* deleting are split by their awaits: the prompt for the admin token,     *)
(* which covers the page, the request, and its answer.                     *)
(***************************************************************************)
EXTENDS Assistant

CONSTANTS
  Models,             \* names of models
  MaxProviders,       \* bound on the providers of the file, and of this browser
  MaxProviderClicks   \* bound on what the user does

ASSUME ProvidersAssumption == {MaxProviders, MaxProviderClicks} \subseteq Nat

VARIABLES
  backend,          \* backendForRequest: "file" or "browser"
  mode,             \* state.storageMode, "" until the service has answered
  profiles,         \* aiProfiles: the models of each provider
  chosen,           \* activeAIProfileId and activeAIModelId
  settings,         \* the provider in the form
  browserStore,     \* localStorage: the providers and the chosen one
  fileStore,        \* the providers in models.json
  reading,          \* the request for the file's providers
  writes,           \* saves and deletes on their way
  token, tokenKnown, tokenNeeded,  \* aiAdminToken; serverAdminTokenConfigured; the truth
  guessed,          \* the user saved or chose before the mode was known
  own,              \* the providers this browser made and has not deleted
  uploaded,         \* a provider was sent to a service that is not to have it
  providerClicks

pageProviderVars == <<mode, profiles, chosen, settings>>
tokenVars == <<token, tokenKnown, tokenNeeded>>
storeVars == <<browserStore, guessed, own>>
serviceVars == <<backend, fileStore, reading>>
providerVars == <<pageProviderVars, tokenVars, storeVars, serviceVars, writes, uploaded, providerClicks>>

FileIds == {"file"} \X (1..MaxProviders)
BrowserIds == {"browser"} \X (1..MaxProviders)
NoProvider == <<"none", 0>>
NoModel == 0
None == [provider |-> NoProvider, model |-> NoModel]
Empty == [p \in {} |-> {}]
With(all, p, models) == [q \in DOMAIN all \cup {p} |-> IF q = p THEN models ELSE all[q]]
Without(all, p) == [q \in DOMAIN all \ {p} |-> all[q]]
\* models[0]?.id || ''
FirstModel(models) == IF models = {} THEN NoModel ELSE Min(models)
NoReadingYet == [stage |-> "none", answer |-> Empty]

ProvidersInit ==
  /\ backend \in {"file", "browser"} /\ tokenNeeded \in BOOLEAN
  /\ mode = "" /\ profiles = Empty /\ chosen = None /\ settings = NoProvider
  /\ browserStore = [profiles |-> Empty, chosen |-> None] /\ fileStore = Empty
  /\ reading = NoReadingYet /\ writes = {} /\ token = "" /\ tokenKnown = FALSE
  /\ guessed = FALSE /\ own = {} /\ uploaded = FALSE /\ providerClicks = 0

ProviderClick ==
  /\ providerClicks < MaxProviderClicks /\ providerClicks' = providerClicks + 1
  /\ \A w \in writes : w.stage # "prompt"

(***************************************************************************)
(* Which backend.                                                          *)
(***************************************************************************)
LoadAIProfiles(m) ==
  IF m = "file" THEN profiles' = Empty /\ chosen' = None
  ELSE /\ profiles' = browserStore.profiles
       /\ chosen' = IF browserStore.chosen.provider \in DOMAIN profiles' THEN browserStore.chosen ELSE None

\* The answer of /api/bootstrap.  A page has one address: its mode does not change.
ApplyStorageMode ==
  /\ mode = "" /\ mode' = backend
  /\ LoadAIProfiles(mode')
  /\ reading' = IF mode' = "file" THEN [reading EXCEPT !.stage = "asked"] ELSE reading
  /\ UNCHANGED <<settings, tokenVars, storeVars, backend, fileStore, writes, uploaded, providerClicks>>

LoadConfigInfo ==
  /\ tokenKnown' = tokenNeeded /\ tokenKnown' # tokenKnown
  /\ UNCHANGED <<pageProviderVars, token, tokenNeeded, storeVars, serviceVars, writes, uploaded, providerClicks>>

ServeProfiles ==
  /\ reading.stage = "asked" /\ reading' = [stage |-> "answered", answer |-> fileStore]
  /\ UNCHANGED <<pageProviderVars, tokenVars, storeVars, backend, fileStore, writes, uploaded, providerClicks>>

\* A provider that is gone is replaced by the first; a model that is gone falls
\* back to the provider's first by itself (activeAIModel).
LoadAIProfilesFromFile ==
  /\ reading.stage = "answered" /\ reading' = NoReadingYet
  /\ profiles' = reading.answer
  /\ IF chosen.provider \in DOMAIN profiles' THEN
       chosen' = IF profiles'[chosen.provider] = {} THEN [chosen EXCEPT !.model = NoModel] ELSE chosen
     ELSE IF profiles' = Empty THEN chosen' = None
     ELSE \E p \in DOMAIN profiles' : chosen' = [provider |-> p, model |-> FirstModel(profiles'[p])]
  /\ UNCHANGED <<mode, settings, tokenVars, storeVars, backend, fileStore, writes, uploaded, providerClicks>>

LoadFromFileFails ==
  /\ reading.stage # "none" /\ reading' = NoReadingYet
  /\ UNCHANGED <<pageProviderVars, tokenVars, storeVars, backend, fileStore, writes, uploaded, providerClicks>>

PersistEverywhere == \* Mutant: the file's providers are mirrored into localStorage
  /\ browserStore' = [profiles |-> profiles', chosen |-> chosen']
  /\ guessed' = (guessed \/ mode = "")

\* persistAIProfiles: what the page shows goes to localStorage, unless the mode is
\* known to be the file's.
PersistAIProfiles ==
  /\ browserStore' = IF mode = "file" THEN browserStore ELSE [profiles |-> profiles', chosen |-> chosen']
  /\ guessed' = (guessed \/ mode = "")

(***************************************************************************)
(* The form: openAISettings and selectAISettingsProvider.                  *)
(***************************************************************************)
SelectAISettingsProvider(p) ==
  /\ ProviderClick /\ settings' = p
  /\ UNCHANGED <<mode, profiles, chosen, tokenVars, storeVars, serviceVars, writes, uploaded>>

SelectAIModel(p, m) ==
  /\ ProviderClick
  /\ chosen' = [provider |-> p, model |-> m]
  /\ UNCHANGED <<mode, profiles, settings>> /\ PersistAIProfiles
  /\ UNCHANGED <<own, tokenVars, serviceVars, writes, uploaded>>

\* What a save leaves in the page, whoever keeps it.
ShowSaved(p, models) ==
  /\ profiles' = With(profiles, p, models)
  /\ chosen' = [provider |-> p, model |-> IF chosen.model \in models THEN chosen.model ELSE FirstModel(models)]
  /\ settings' = p
  /\ PersistAIProfiles

ShowDeleted(p) ==
  /\ profiles' = Without(profiles, p)
  /\ chosen' = IF chosen.provider = p THEN None ELSE chosen
  /\ settings' \in IF profiles' = Empty THEN {NoProvider} ELSE DOMAIN profiles'
  /\ PersistAIProfiles

\* resolveAIAdminToken: asks for the token if the page knows that one is needed and
\* has none; else the request is made.
Sent(w) == [w EXCEPT !.stage = IF token = "" /\ tokenKnown THEN "prompt" ELSE "sent"]
Send(w) == writes' = writes \cup {Sent(w)} /\ guessed' = (guessed \/ mode = "")

SaveAIProfile(added) ==
  LET known == IF settings \in DOMAIN profiles THEN profiles[settings] ELSE {}
      models == known \cup added
  IN /\ ProviderClick /\ models # {}
     /\ IF mode = "browser"
        THEN \E p \in IF settings = NoProvider THEN BrowserIds \ own ELSE {settings} :
               /\ ShowSaved(p, models) /\ own' = own \cup {p}
               /\ UNCHANGED <<mode, writes>>
        ELSE /\ writes = {}  \* bound: one write at a time
             /\ Send([kind |-> "save", id |-> settings, models |-> models, stage |-> ""])
             /\ UNCHANGED <<pageProviderVars, browserStore, own>>
     /\ UNCHANGED <<tokenVars, serviceVars, uploaded>>

DeleteAIProfile ==
  /\ ProviderClick /\ settings \in DOMAIN profiles
  /\ IF mode # "browser" /\ settings \in FileIds
     THEN /\ writes = {}
          /\ Send([kind |-> "delete", id |-> settings, models |-> {}, stage |-> ""])
          /\ UNCHANGED <<pageProviderVars, browserStore, own>>
     ELSE /\ ShowDeleted(settings) /\ own' = own \ {settings}
          /\ UNCHANGED <<mode, writes>>
  /\ UNCHANGED <<tokenVars, serviceVars, uploaded>>

\* In file mode models are added to and removed from the page's copy only; the file
\* hears of them with the next save.
AddAIModel(m) ==
  /\ ProviderClick /\ settings \in DOMAIN profiles /\ m \notin profiles[settings]
  /\ profiles' = With(profiles, settings, profiles[settings] \cup {m})
  /\ UNCHANGED <<mode, chosen, settings>> /\ PersistAIProfiles
  /\ UNCHANGED <<own, tokenVars, serviceVars, writes, uploaded>>

DeleteUnsaved(m) == \* Mutant: a model that is deleted comes back with the next page
  /\ ProviderClick /\ settings \in DOMAIN profiles /\ m \in profiles[settings]
  /\ profiles' = With(profiles, settings, profiles[settings] \ {m})
  /\ chosen' = IF chosen = [provider |-> settings, model |-> m]
               THEN [chosen EXCEPT !.model = FirstModel(profiles'[settings])] ELSE chosen
  /\ UNCHANGED <<mode, settings, storeVars, tokenVars, serviceVars, writes, uploaded>>

DeleteAIModel(m) ==
  /\ ProviderClick /\ settings \in DOMAIN profiles /\ m \in profiles[settings]
  /\ profiles' = With(profiles, settings, profiles[settings] \ {m})
  /\ chosen' = IF chosen = [provider |-> settings, model |-> m]
               THEN [chosen EXCEPT !.model = FirstModel(profiles'[settings])] ELSE chosen
  /\ UNCHANGED <<mode, settings>> /\ PersistAIProfiles
  /\ UNCHANGED <<own, tokenVars, serviceVars, writes, uploaded>>

(***************************************************************************)
(* Writes to the file.                                                     *)
(***************************************************************************)
\* The prompt is answered, rightly or not, or dismissed, which gives the write up.
CloseAIAdminTokenPrompt(w, value) ==
  /\ w \in writes /\ w.stage = "prompt" /\ token' = value
  /\ writes' = IF value = "" THEN writes \ {w} ELSE {[w EXCEPT !.stage = "sent"]} \cup (writes \ {w})
  /\ UNCHANGED <<pageProviderVars, tokenKnown, tokenNeeded, storeVars, serviceVars, uploaded, providerClicks>>

\* A save of a provider of the file updates it, any other makes a new one; what is
\* not in the file can be neither updated nor deleted.
Refusal(w) ==
  \/ tokenNeeded /\ token # "right"
  \/ backend = "browser"
  \/ w.id \in FileIds \ DOMAIN fileStore

HandleAIProfiles(w) ==
  /\ w \in writes /\ w.stage = "sent"
  /\ uploaded' = (uploaded \/ (w.kind = "save" /\ backend = "browser"))
  /\ \/ writes' = writes \ {w} /\ UNCHANGED fileStore   \* refused, or it fails
     \/ /\ ~Refusal(w)
        /\ LET next == <<"file", Max({0} \cup {p[2] : p \in DOMAIN fileStore}) + 1>>
               id == IF w.id \in FileIds THEN w.id ELSE next
           IN /\ id \in FileIds
              /\ fileStore' = IF w.kind = "delete" THEN Without(fileStore, id) ELSE With(fileStore, id, w.models)
              /\ writes' = {[w EXCEPT !.stage = "done", !.id = id]} \cup (writes \ {w})
  /\ UNCHANGED <<pageProviderVars, tokenVars, storeVars, backend, reading, providerClicks>>

WriteAnswered(w) ==
  /\ w \in writes /\ w.stage = "done" /\ writes' = writes \ {w}
  /\ IF w.kind = "delete" THEN ShowDeleted(w.id) ELSE ShowSaved(w.id, w.models)
  /\ UNCHANGED <<mode, own, tokenVars, serviceVars, uploaded, providerClicks>>

\* Another page of this machine deletes a provider, or an import does.
OtherPage(p) ==
  /\ ProviderClick /\ p \in DOMAIN fileStore /\ fileStore' = Without(fileStore, p)
  /\ UNCHANGED <<pageProviderVars, tokenVars, storeVars, backend, reading, writes, uploaded>>

\* Bound: a write that the service has not seen is dropped with the page.
ReloadProviders ==
  /\ ProviderClick
  /\ mode' = "" /\ profiles' = Empty /\ chosen' = None /\ settings' = NoProvider
  /\ reading' = NoReadingYet /\ writes' = {} /\ token' = "" /\ tokenKnown' = FALSE
  /\ UNCHANGED <<tokenNeeded, storeVars, backend, fileStore, uploaded>>

ProvidersNext ==
  \/ ApplyStorageMode \/ LoadConfigInfo
  \/ ServeProfiles \/ LoadAIProfilesFromFile \/ LoadFromFileFails
  \/ \E p \in DOMAIN profiles \cup {NoProvider} : SelectAISettingsProvider(p)
  \/ \E p \in DOMAIN profiles : \E m \in profiles[p] : SelectAIModel(p, m)
  \/ SelectAIModel(NoProvider, NoModel)
  \/ \E added \in {{}} \cup {{m} : m \in Models} : SaveAIProfile(added)
  \/ DeleteAIProfile
  \/ \E m \in Models : AddAIModel(m) \/ DeleteAIModel(m)
  \/ \E w \in writes, value \in {"", "right", "wrong"} : CloseAIAdminTokenPrompt(w, value)
  \/ \E w \in writes : HandleAIProfiles(w) \/ WriteAnswered(w)
  \/ \E p \in DOMAIN fileStore : OtherPage(p)
  \/ ReloadProviders

\* Chats and providers share no variable: a behaviour is of one of them, and the
\* chats' with one backend only.
PageInit == Init /\ ProvidersInit
PageNext ==
  \/ ProvidersInit /\ backend = "file" /\ ~tokenNeeded /\ Next /\ UNCHANGED providerVars
  \/ Init /\ ProvidersNext /\ UNCHANGED vars

PageSpec == PageInit /\ [][PageNext]_<<vars, providerVars>> /\ WF_vars(Answers)

(***************************************************************************)
(* Properties.                                                             *)
(***************************************************************************)
\* Each provider stays where it belongs, unless the user acted before the page knew
\* where that is: a visitor's providers and keys are not uploaded, and those of the
\* file leave no copy in localStorage (app.js:1082-1084, 529-532, 2838-2840).
ProvidersStayHome ==
  ~guessed => /\ ~uploaded
              /\ DOMAIN browserStore.profiles \intersect FileIds = {}
              /\ mode = "browser" => DOMAIN profiles \intersect FileIds = {}

\* The chosen provider is one of the list or the service's own; once the mode is known
\* a browser's page shows what the next one will, and no provider this browser made is
\* lost unless the user deletes it (persistAIProfiles after every change).
ProvidersAreKept ==
  /\ chosen.provider \in DOMAIN profiles \cup {NoProvider}
  /\ mode = "browser" => browserStore = [profiles |-> profiles, chosen |-> chosen]
  /\ ~guessed => own = DOMAIN browserStore.profiles
=============================================================================
