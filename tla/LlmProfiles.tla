----------------------------- MODULE LlmProfiles -----------------------------
(***************************************************************************)
(* A user's settings as openhands-server keeps them: one document with the *)
(* language model that is run, the saved profiles, and the name of the     *)
(* active one (settings_models.py, llm_profiles.py, settings_router.py).   *)
(* A request loads the whole document, changes it and stores the whole.    *)
(* Requests for profiles have a lock of the user's; saving the settings    *)
(* and seeding the platform's model have none.                             *)
(***************************************************************************)
EXTENDS Naturals, FiniteSets

CONSTANTS
    Names,          \* of profiles
    NoName,         \* where no profile is active
    MaxProfiles,    \* MAX_PROFILES_PER_USER, 10 in the code
    Requests,       \* requests served one after the other, or at the same time
    MaxStores       \* bound on the documents stored

ASSUME ProfilesAssumption ==
    /\ NoName \notin Names
    /\ MaxProfiles \in Nat
    /\ MaxStores \in Nat

VARIABLES
    settings,   \* the stored document, or Nothing
    request,    \* what each request is for and the document it loaded
    stores      \* documents stored so far

profileVars == <<settings, request, stores>>

(* A configuration by its base_url: '' (cleared), None, the provider's     *)
(* default, or any other address, or another model.                        *)
Configs == {"cleared", "none", "default", "other"}
NoProfile == "no profile"

Documents == [llm : Configs, profiles : [Names -> Configs \cup {NoProfile}],
              active : Names \cup {NoName}]
Nothing == [llm |-> "nothing"]
Fresh == [llm |-> "none", profiles |-> [n \in Names |-> NoProfile], active |-> NoName]

Idle == [kind |-> "idle", copy |-> Nothing]
RequestKinds == {"profile", "save", "seed"}

ProfilesInit ==
    /\ settings = Nothing
    /\ request = [r \in Requests |-> Idle]
    /\ stores = 0

(* resolve_llm_base_url: what was cleared stays without an address for     *)
(* now, and gets the default the next time.                                *)
Resolved(config) ==
    CASE config = "cleared" -> "none"
      [] config = "none" -> "default"
      [] OTHER -> config

(* reconcile_active_profile.                                               *)
Reconciled(doc) ==
    IF doc.active # NoName /\ doc.profiles[doc.active] # doc.llm
    THEN [doc EXCEPT !.active = NoName] ELSE doc

(* _post_merge_llm_fixups.                                                 *)
FixedUp(doc) == [doc EXCEPT !.llm = Resolved(@)]

Saved(doc) == {n \in Names : doc.profiles[n] # NoProfile}

(***************************************************************************)
(* The documents a request may make of the one it loaded                   *)
(***************************************************************************)
(* Mutation: the settings are merged and the active profile is not looked  *)
(* at.                                                                     *)
MergedBlindly(doc, llm) == [doc EXCEPT !.llm = llm]

(* Settings.update.                                                        *)
Merged(doc, llm) == Reconciled([doc EXCEPT !.llm = llm])

(* store_settings; the seed of supabase_user_auth, which does not fix up.  *)
SavesOf(doc) == {FixedUp(Merged(doc, llm)) : llm \in Configs}
SeedsOf(doc) == {Merged(doc, "other")}

(* save_profile, of the request's configuration or the one that is run.    *)
ProfilesSaved(doc) ==
    LET Allowed == {n \in Names : n \in Saved(doc) \/ Cardinality(Saved(doc)) < MaxProfiles}
    IN UNION {{Reconciled([doc EXCEPT !.profiles[n] = config]) : config \in Configs} :
                n \in Allowed}

(* delete_profile.                                                         *)
ProfilesDeleted(doc) ==
    {[doc EXCEPT !.profiles[n] = NoProfile,
                 !.active = IF @ = n THEN NoName ELSE @] : n \in Saved(doc)}

(* switch_to_profile: the profile and the model that is run are one        *)
(* object, which is then fixed up.                                         *)
ProfilesActivated(doc) ==
    {[doc EXCEPT !.profiles[n] = Resolved(@),
                 !.llm = Resolved(doc.profiles[n]),
                 !.active = n] : n \in Saved(doc)}

(* rename_profile; to its own name it changes nothing.                     *)
ProfilesRenamed(doc) ==
    UNION {{[doc EXCEPT !.profiles[m] = doc.profiles[n],
                        !.profiles[n] = NoProfile,
                        !.active = IF @ = n THEN m ELSE @] : m \in Names \ Saved(doc)} :
             n \in Saved(doc)}

ChangesOf(kind, doc) ==
    CASE kind = "save" -> SavesOf(IF doc = Nothing THEN Fresh ELSE doc)
      [] kind = "seed" -> SeedsOf(IF doc = Nothing THEN Fresh ELSE doc)
      [] OTHER -> IF doc = Nothing THEN {}
                  ELSE ProfilesSaved(doc) \cup ProfilesDeleted(doc)
                       \cup ProfilesActivated(doc) \cup ProfilesRenamed(doc)

(***************************************************************************)
(* A request                                                               *)
(***************************************************************************)
(* SupabaseSettingsStore takes a read that failed for no settings.         *)
Load(r, kind) ==
    /\ request[r] = Idle
    /\ kind = "profile" => \A q \in Requests : request[q].kind # "profile"
    /\ \E doc \in {settings, Nothing} :
            request' = [request EXCEPT ![r] = [kind |-> kind, copy |-> doc]]
    /\ UNCHANGED <<settings, stores>>

Store(r) ==
    /\ request[r] # Idle
    /\ stores < MaxStores
    /\ settings' \in ChangesOf(request[r].kind, request[r].copy)
    /\ request' = [request EXCEPT ![r] = Idle]
    /\ stores' = stores + 1

(* 404 or 409, nothing to delete, or an error.                             *)
Refuse(r) ==
    /\ request[r] # Idle
    /\ request' = [request EXCEPT ![r] = Idle]
    /\ UNCHANGED <<settings, stores>>

ProfilesNext ==
    \E r \in Requests :
        (\E kind \in RequestKinds : Load(r, kind)) \/ Store(r) \/ Refuse(r)

ProfilesSpec == ProfilesInit /\ [][ProfilesNext]_profileVars

(***************************************************************************)
(* Properties                                                              *)
(***************************************************************************)
(* The values of the variables.                                            *)
ProfilesTypeOK ==
    /\ settings \in Documents \cup {Nothing}
    /\ request \in [Requests -> [kind : RequestKinds \cup {"idle"}, copy : Documents \cup {Nothing}]]
    /\ stores \in 0 .. MaxStores

(* The profile that is marked as active exists, and what is run is this    *)
(* profile, or what its missing base_url stands for, whatever was saved,   *)
(* renamed, overwritten or deleted meanwhile.                              *)
Truthful(doc) ==
    doc # Nothing /\ doc.active # NoName =>
        /\ doc.active \in Saved(doc)
        /\ doc.llm \in {doc.profiles[doc.active], Resolved(doc.profiles[doc.active])}

ActiveProfileRuns == Truthful(settings)
=============================================================================
