------------------------------ MODULE MCMenus ------------------------------
(***************************************************************************)
(* The parts of the local program, with the scripts they drive, that share *)
(* neither state nor a step, checked in one run: a behaviour is one of a   *)
(* single part, while the others rest in one of their initial states.      *)
(***************************************************************************)
EXTENDS SshKeys, IpRebind, Credentials, SystemProxy, RecentTargets,
        TrafficProfiles, TLC

CONSTANTS w1, w2, plain, auth, t1, t2, t3, p1, k1, k2, h1, a1, a2, a3

VARIABLE part

MCServices == {w1, w2}
MCValues == {plain, auth}
MCAuth == {auth}
MCTargets == {t1, t2, t3}
MCPrograms == {p1}
MCProviders == {k1, k2}
MCHosts == {h1}
\* Three addresses, so that the node can move on, or back, while a rebind to
\* its second address is under way.
MCAddresses == {a1, a2, a3}

\* The state in which a part rests while another one runs.
KeysRest == priv = None /\ authorized = {}
RebindRest == direct /\ accepted /\ counted = {}
CredentialsRest == inForce["panel"] = Nothing /\ older = Blank
ProxyRest == setting = [s \in Services |-> plain]
RecentRest == legacy = NoTargets

MCInit ==
  /\ part \in {"keys", "rebind", "credentials", "proxy", "recent", "traffic"}
  /\ KeysInit /\ RebindInit /\ CredentialsInit
  /\ ProxyInit /\ RecentInit /\ TrafficInit
  /\ part # "keys" => KeysRest
  /\ part # "rebind" => RebindRest
  /\ part # "credentials" => CredentialsRest
  /\ part # "proxy" => ProxyRest
  /\ part # "recent" => RecentRest

KeysPart ==
  /\ part = "keys" /\ KeysNext
  /\ UNCHANGED <<part, rebindVars, credentialVars, proxyVars, recentVars, trafficVars>>
RebindPart ==
  /\ part = "rebind" /\ RebindNext
  /\ UNCHANGED <<part, keysVars, credentialVars, proxyVars, recentVars, trafficVars>>
CredentialsPart ==
  /\ part = "credentials" /\ CredentialsNext
  /\ UNCHANGED <<part, keysVars, rebindVars, proxyVars, recentVars, trafficVars>>
ProxyPart ==
  /\ part = "proxy" /\ ProxyNext
  /\ UNCHANGED <<part, keysVars, rebindVars, credentialVars, recentVars, trafficVars>>
RecentPart ==
  /\ part = "recent" /\ RecentNext
  /\ UNCHANGED <<part, keysVars, rebindVars, credentialVars, proxyVars, trafficVars>>
TrafficPart ==
  /\ part = "traffic" /\ TrafficNext
  /\ UNCHANGED <<part, keysVars, rebindVars, credentialVars, proxyVars, recentVars>>

MCNext ==
  \/ KeysPart \/ RebindPart \/ CredentialsPart
  \/ ProxyPart \/ RecentPart \/ TrafficPart

MCSpec ==
  MCInit /\ [][MCNext]_<<part, keysVars, rebindVars, credentialVars, proxyVars,
                        recentVars, trafficVars>>

\* The type invariant of every part.
MenusTypeOK ==
  KTypeOK /\ BTypeOK /\ NTypeOK /\ PTypeOK /\ RTypeOK /\ TTypeOK
=============================================================================
