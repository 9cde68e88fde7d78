-------------------------- MODULE TrafficProfiles --------------------------
(***************************************************************************)
(* The provider traffic centre of menu [18] and the traffic estimate of    *)
(* menu [17] (traffic.go): profiles in traffic-profiles.json, which is     *)
(* rewritten in place, and the API secret of each provider profile in the  *)
(* operating system's credential store, under a target that is derived     *)
(* from the profile.  One program; it may be killed at any point, and each *)
(* file or credential operation may fail.                                  *)
(***************************************************************************)
EXTENDS Naturals, FiniteSets

CONSTANTS
  Providers,  \* profiles of providers, with a secret
  Hosts       \* profiles of SSH hosts, without one

ASSUME TrafficProfilesAssumption == Providers \cap Hosts = {}

VARIABLES
  store,     \* the profiles in the file
  unreadable,      \* the file is not valid JSON
  secrets,   \* the profiles that have a secret in the credential store
  trafficStep,      \* where the action is
  about,        \* its profile (or the profiles it deletes)
  loaded,    \* the profiles it has loaded
  stranded   \* history: secrets whose configure action did not end well

trafficVars == <<store, unreadable, secrets, trafficStep, about, loaded, stranded>>

Ids == Providers \cup Hosts

TrafficInit ==
  /\ store = {} /\ unreadable = FALSE /\ secrets = {}
  /\ trafficStep = "idle" /\ about = {} /\ loaded = {} /\ stranded = {}

TrafficReturns == trafficStep' = "idle" /\ about' = {} /\ loaded' = {}

\* saveTrafficStore: os.WriteFile truncates the file before it writes.
SaveProfiles(profiles) ==
  /\ store' = profiles /\ unreadable' = FALSE

SaveProfilesFails ==
  \/ UNCHANGED <<store, unreadable>>
  \/ store' = store /\ unreadable' = TRUE

HasProfile(i) == i \in Ids
HasSecret(i) == i \in Providers

\* The fetch with the secret just typed succeeded: credentialWrite is first.
ConfigureWritesSecret(i) ==
  /\ trafficStep = "idle" /\ HasSecret(i)
  /\ secrets' = secrets \cup {i}
  /\ trafficStep' = "configure" /\ about' = {i}
  /\ stranded' = stranded \ {i}
  /\ UNCHANGED <<store, unreadable, loaded>>

ConfigureSaves ==
  /\ trafficStep = "configure" /\ ~unreadable
  /\ SaveProfiles(store \cup about) /\ TrafficReturns
  /\ UNCHANGED <<secrets, stranded>>

\* The file cannot be read or written: the secret is deleted again, the
\* error of that being ignored.
ConfigureFails ==
  /\ trafficStep = "configure" /\ SaveProfilesFails /\ TrafficReturns
  /\ \/ secrets' = secrets \ about /\ UNCHANGED stranded
     \/ stranded' = stranded \cup about /\ UNCHANGED secrets

\* refreshProviderProfile holds what it loaded across the provider's answer;
\* without a secret it only says so.  trafficEstimate does the same with the
\* profile of a host, over SSH.
RefreshLoads(i) ==
  /\ trafficStep = "idle" /\ ~unreadable
  /\ \/ i \in store /\ i \in secrets
     \/ i \in Hosts
  /\ trafficStep' = "refresh" /\ about' = {i} /\ loaded' = store
  /\ UNCHANGED <<store, unreadable, secrets, stranded>>

RefreshSaves ==
  /\ trafficStep = "refresh" /\ SaveProfiles(loaded \cup about) /\ TrafficReturns
  /\ UNCHANGED <<secrets, stranded>>

\* deleteProviderProfile (one) and deleteAllProviderProfiles (all of them).
DeleteLoads(which) ==
  /\ trafficStep = "idle" /\ ~unreadable
  /\ which # {} /\ which \subseteq store \cap Providers
  /\ Cardinality(which) = 1 \/ which = store \cap Providers
  /\ trafficStep' = "delete" /\ about' = which /\ loaded' = store
  /\ UNCHANGED <<store, unreadable, secrets, stranded>>

\* The secrets go first, one by one; an error ends the action.
DeleteSecret(i) ==
  /\ trafficStep = "delete" /\ i \in about \cap secrets
  /\ secrets' = secrets \ {i} /\ stranded' = stranded \ {i}
  /\ UNCHANGED <<store, unreadable, trafficStep, about, loaded>>

SomeSecretGone == about \ secrets # {}
SecretsGone == about \cap secrets = {}

DeleteSaves ==
  /\ trafficStep = "delete" /\ SecretsGone
  /\ SaveProfiles(loaded \ about) /\ TrafficReturns
  /\ UNCHANGED <<secrets, stranded>>

TrafficActionFails ==
  /\ trafficStep \in {"refresh", "delete"} /\ SaveProfilesFails /\ TrafficReturns
  /\ UNCHANGED <<secrets, stranded>>

TrafficKilled ==
  /\ trafficStep # "idle" /\ TrafficReturns
  /\ stranded' = IF trafficStep = "configure" THEN stranded \cup about ELSE stranded
  /\ UNCHANGED <<store, unreadable, secrets>>

TrafficNext ==
  \/ \E i \in Ids : ConfigureWritesSecret(i) \/ RefreshLoads(i) \/ DeleteSecret(i)
  \/ \E which \in SUBSET Providers : DeleteLoads(which)
  \/ ConfigureSaves \/ ConfigureFails \/ RefreshSaves
  \/ DeleteSaves \/ TrafficActionFails \/ TrafficKilled

TrafficSpec == TrafficInit /\ [][TrafficNext]_trafficVars
-----------------------------------------------------------------------------
TTypeOK ==
  /\ store \subseteq Ids /\ loaded \subseteq Ids /\ about \subseteq Ids
  /\ unreadable \in BOOLEAN
  /\ secrets \subseteq Providers /\ stranded \subseteq Providers
  /\ trafficStep \in {"idle", "configure", "refresh", "delete"}

\* While the file can be read, every secret can be deleted from the menu,
\* which lists profiles: it has a profile, or a configure action is between
\* its two writes or did not end.
SecretsListed ==
  ~unreadable =>
  secrets \subseteq store \cup stranded
                    \cup (IF trafficStep = "configure" THEN about ELSE {})
=============================================================================
