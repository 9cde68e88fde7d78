---------------------------- MODULE SystemProxy ----------------------------
(***************************************************************************)
(* The macOS system proxy of menu [14] (local_proxy_system.go).            *)
(*                                                                         *)
(* The settings of a network service are one value: a value the user chose *)
(* (Values), Forced when every proxy of the service points to              *)
(* 127.0.0.1:10808, or Partial when the administrator script has applied   *)
(* only some of the nine or ten commands it has for the service.  The      *)
(* snapshot file maps the services it holds to the settings they had.      *)
(* The administrator script is a process of its own: it outlives the       *)
(* program when that is killed, and may outlive the two minutes that the   *)
(* program waits for it.  Another program, or the user in System Settings, *)
(* may change a service that is not just being written, at any time.       *)
(***************************************************************************)
EXTENDS Naturals, FiniteSets

CONSTANTS
  Services,     \* network services
  Values,       \* proxy settings a user may choose
  AuthValues,   \* those of them that use an authenticated proxy
  Forced, Partial, NotHeld,
  MaxChanges    \* bound on the changes others make

ASSUME SystemProxyAssumption ==
  /\ AuthValues \subseteq Values
  /\ Forced \notin Values /\ Partial \notin Values /\ NotHeld \notin Values
  /\ Forced # Partial /\ Forced # NotHeld /\ Partial # NotHeld
  /\ Services # {} /\ IsFiniteSet(Services)
  /\ MaxChanges \in Nat

VARIABLES
  setting,    \* the settings of each service
  writer,     \* history: whose settings they are, the "user"'s or the "tool"'s
  online,     \* the services networksetup lists and can read
  snapshot,   \* local-proxy-state.json: saved settings, None if not held
  proxyPc,         \* where the menu action is
  seen,       \* the services the action discovered, None if not
  job,        \* "force" or "restore": what the administrator script does
  todo,       \* services the script has still to finish
  env,        \* HTTP_PROXY of the program: "inherited", "proxy" or "unset"
  envBefore,  \* localProxyEnvBefore
  proxyChanges     \* number of changes made by others

proxyVars == <<setting, writer, online, snapshot, proxyPc, seen, job, todo,
          env, envBefore, proxyChanges>>

adminScript == <<job, todo>>
proxyMenu == <<proxyPc, seen, env, envBefore>>
surroundings == <<online, proxyChanges>>

Settings == Values \cup {Forced, Partial}
NothingSaved == [s \in Services |-> NotHeld]
Held(f) == {s \in Services : f[s] # NotHeld}
Exists == Held(snapshot) # {}

ProxyInit ==
  /\ setting \in [Services -> (Values \ AuthValues) \cup {Forced}]
  /\ writer = [s \in Services |-> "user"]
  /\ online = Services
  /\ snapshot = NothingSaved
  /\ proxyPc = "idle" /\ seen = NothingSaved
  /\ job = "force" /\ todo = {}
  /\ env = "inherited" /\ envBefore = NotHeld
  /\ proxyChanges = 0

-----------------------------------------------------------------------------
\* The program's own environment.

RememberAndSetEnvironment ==
  /\ env' = "proxy"
  /\ envBefore' = IF envBefore = NotHeld THEN env ELSE envBefore

RestoreEnvironmentBlindly == env' = envBefore /\ envBefore' = NotHeld

RestoreEnvironment ==
  /\ env' = IF envBefore # NotHeld THEN envBefore
            ELSE IF env = "proxy" THEN "unset" ELSE env
  /\ envBefore' = NotHeld

ProxyReturns == proxyPc' = "idle" /\ seen' = NothingSaved

-----------------------------------------------------------------------------
\* configureMacOSProxy

ReadableAtAll == online # {}
Manageable == online # {} /\ \A s \in online : setting[s] \notin AuthValues

\* Discovery skips unreadable services, fails when none is left and refuses
\* authenticated proxies before anything is saved.
ConfigureDiscover ==
  /\ proxyPc = "idle" /\ Manageable
  /\ seen' = [s \in Services |-> IF s \in online THEN setting[s] ELSE NotHeld]
  /\ proxyPc' = "save"
  /\ UNCHANGED <<setting, writer, surroundings, snapshot, adminScript, env, envBefore>>

\* All of them forced already and no snapshot: nothing is saved.
AlreadyForced ==
  /\ proxyPc = "save" /\ ~Exists
  /\ \A s \in Held(seen) : seen[s] = Forced
  /\ RememberAndSetEnvironment /\ ProxyReturns
  /\ UNCHANGED <<setting, writer, surroundings, snapshot, adminScript>>

\* The first snapshot holds every service that was seen.
SnapshotFirst ==
  /\ ~Exists
  /\ \E s \in Held(seen) : seen[s] # Forced
  /\ snapshot' = seen

SnapshotAsItIs == Exists /\ UNCHANGED snapshot

SnapshotAnew ==
  /\ Exists
  /\ snapshot' = [s \in Services |->
                    IF seen[s] # NotHeld THEN seen[s] ELSE snapshot[s]]

\* A later configure adds the services the snapshot does not hold yet, and
\* leaves those it holds alone.
SnapshotExtend ==
  /\ Exists
  /\ \A s \in Held(seen) \ Held(snapshot) : seen[s] # Forced
  /\ snapshot' = [s \in Services |->
                    IF snapshot[s] # NotHeld THEN snapshot[s] ELSE seen[s]]

\* writeMacOSProxyState replaces the file by renaming a synced temporary one.
SaveSnapshot ==
  /\ proxyPc = "save"
  /\ SnapshotFirst \/ SnapshotExtend
  /\ proxyPc' = "force"
  /\ UNCHANGED <<setting, writer, surroundings, adminScript, seen, env, envBefore>>

\* The file cannot be written, or an unknown service is forced already.
SaveRefused ==
  /\ proxyPc = "save" /\ ProxyReturns
  /\ UNCHANGED <<setting, writer, surroundings, snapshot, adminScript, env, envBefore>>

-----------------------------------------------------------------------------
\* runMacOSAdminCommands.  The authorization dialog is modal: a script starts
\* when no other one runs.
StartForcing ==
  /\ proxyPc = "force" /\ todo = {}
  /\ proxyPc' = "forcing" /\ job' = "force" /\ todo' = Held(seen)
  /\ UNCHANGED <<setting, writer, surroundings, snapshot, seen, env, envBefore>>

StartRestoring ==
  /\ proxyPc = "restore" /\ todo = {}
  /\ proxyPc' = "restoring" /\ job' = "restore" /\ todo' = Held(snapshot)
  /\ UNCHANGED <<setting, writer, surroundings, snapshot, seen, env, envBefore>>

\* A "set -e" script of networksetup commands.

Target(s) == IF job = "force" THEN Forced ELSE snapshot[s]

ScriptBegins(s) ==
  /\ s \in todo /\ s \in online
  /\ \A t \in todo : setting[t] # Partial
  /\ setting' = [setting EXCEPT ![s] = Partial]
  /\ writer' = [writer EXCEPT ![s] = "tool"]
  /\ UNCHANGED <<surroundings, snapshot, adminScript, proxyMenu>>

ScriptFinishes(s) ==
  /\ s \in todo /\ s \in online /\ setting[s] = Partial
  /\ writer[s] = "tool" /\ Target(s) # NotHeld
  /\ setting' = [setting EXCEPT ![s] = Target(s)]
  /\ writer' = [writer EXCEPT ![s] = IF job = "force" THEN "tool" ELSE "user"]
  /\ todo' = todo \ {s}
  /\ UNCHANGED <<surroundings, snapshot, job, proxyMenu>>

\* The prompt is cancelled, it times out, or a command fails: the rest of
\* the script does not run, and the action ends with an error.
ScriptStops ==
  /\ proxyPc \in {"forcing", "undoing", "restoring"} /\ todo # {}
  /\ todo' = {} /\ ProxyReturns
  /\ UNCHANGED <<setting, writer, surroundings, snapshot, job, env, envBefore>>

\* The two minutes are over and osascript is killed, but not the commands
\* that it started with administrator privileges.
ScriptAbandoned ==
  /\ proxyPc \in {"forcing", "undoing", "restoring"} /\ todo # {}
  /\ ProxyReturns
  /\ UNCHANGED <<setting, writer, surroundings, snapshot, adminScript, env, envBefore>>

\* A script without its program: it stops at a failing command.
LingeringStops ==
  /\ proxyPc = "idle" /\ todo # {} /\ todo' = {}
  /\ UNCHANGED <<setting, writer, surroundings, snapshot, job, proxyMenu>>

-----------------------------------------------------------------------------
\* configureMacOSProxy after its script

ForcedSeen == \A s \in Held(seen) : s \in online /\ setting[s] = Forced
AsSaved == \A s \in Held(snapshot) : s \in online /\ setting[s] = snapshot[s]

VerifyForced ==
  /\ proxyPc = "forcing" /\ todo = {}
  /\ IF ForcedSeen THEN proxyPc' = "probe" /\ UNCHANGED seen ELSE ProxyReturns
  /\ UNCHANGED <<setting, writer, surroundings, snapshot, adminScript, env, envBefore>>

ProbeAnswers ==
  /\ proxyPc = "probe" /\ RememberAndSetEnvironment /\ ProxyReturns
  /\ UNCHANGED <<setting, writer, surroundings, snapshot, adminScript>>

\* Nothing behind the port speaks HTTP or SOCKS: the settings go back to the
\* snapshot, which is kept whether or not that works.
ProbeFails ==
  /\ proxyPc = "probe" /\ todo = {}
  /\ proxyPc' = "undoing" /\ job' = "restore" /\ todo' = Held(snapshot)
  /\ UNCHANGED <<setting, writer, surroundings, snapshot, seen, env, envBefore>>

VerifyUndone ==
  /\ proxyPc = "undoing" /\ todo = {} /\ ProxyReturns
  /\ UNCHANGED <<setting, writer, surroundings, snapshot, adminScript, env, envBefore>>

-----------------------------------------------------------------------------
\* removeMacOSProxy, also run by the uninstaller

\* It refuses when a saved service is gone or no longer forced.
Owned == \A s \in Held(snapshot) : s \in online /\ setting[s] = Forced

RemoveStart ==
  /\ proxyPc = "idle" /\ Exists /\ Owned
  /\ proxyPc' = "restore"
  /\ UNCHANGED <<setting, writer, surroundings, snapshot, adminScript, seen, env, envBefore>>

\* When the settings read back differ: the snapshot was kept, retry later.
VerifyRestored ==
  /\ proxyPc = "restoring" /\ todo = {}
  /\ IF AsSaved THEN proxyPc' = "delete" /\ UNCHANGED seen ELSE ProxyReturns
  /\ UNCHANGED <<setting, writer, surroundings, snapshot, adminScript, env, envBefore>>

DeleteSnapshot ==
  /\ proxyPc = "delete" /\ ProxyReturns
  /\ \/ snapshot' = NothingSaved /\ RestoreEnvironment
     \/ UNCHANGED <<snapshot, env, envBefore>>
  /\ UNCHANGED <<setting, writer, surroundings, adminScript>>

-----------------------------------------------------------------------------
\* Everyone else

\* The program is killed; the script goes on by itself, or with it.
ProxyKilled ==
  /\ proxyPc # "idle" /\ ProxyReturns
  /\ env' = "inherited" /\ envBefore' = NotHeld
  /\ \/ UNCHANGED todo
     \/ todo' = {}
  /\ UNCHANGED <<setting, writer, surroundings, snapshot, job>>

\* Settings cannot be changed in the middle of the script's service.
OthersChange(s, v) ==
  /\ proxyChanges < MaxChanges /\ s \in online
  /\ ~(s \in todo /\ setting[s] = Partial)
  /\ setting' = [setting EXCEPT ![s] = v]
  /\ writer' = [writer EXCEPT ![s] = "user"]
  /\ proxyChanges' = proxyChanges + 1
  /\ UNCHANGED <<online, snapshot, adminScript, proxyPc, seen, env, envBefore>>

\* A service is unplugged or plugged in.
ServiceToggles(s) ==
  /\ proxyChanges < MaxChanges
  /\ online' = (online \ {s}) \cup ({s} \ online)
  /\ proxyChanges' = proxyChanges + 1
  /\ UNCHANGED <<setting, writer, snapshot, adminScript, proxyMenu>>

ProxyNext ==
  \/ ConfigureDiscover \/ AlreadyForced \/ SaveSnapshot \/ SaveRefused
  \/ \E s \in Services : ScriptBegins(s) \/ ScriptFinishes(s)
  \/ ScriptStops \/ ScriptAbandoned \/ LingeringStops
  \/ VerifyForced \/ ProbeAnswers \/ ProbeFails \/ VerifyUndone
  \/ StartForcing \/ StartRestoring \/ RemoveStart \/ VerifyRestored \/ DeleteSnapshot
  \/ ProxyKilled
  \/ \E s \in Services : ServiceToggles(s)
  \/ \E s \in Services, v \in Values \cup {Forced} : OthersChange(s, v)

ProxySpec == ProxyInit /\ [][ProxyNext]_proxyVars
-----------------------------------------------------------------------------
PTypeOK ==
  /\ setting \in [Services -> Settings]
  /\ writer \in [Services -> {"user", "tool"}]
  /\ online \subseteq Services
  /\ snapshot \in [Services -> Settings \cup {NotHeld}]
  /\ proxyPc \in {"idle", "save", "force", "forcing", "restore",
              "probe", "undoing", "restoring", "delete"}
  /\ seen \in [Services -> Settings \cup {NotHeld}]
  /\ job \in {"force", "restore"}
  /\ todo \subseteq Services
  /\ env \in {"inherited", "proxy", "unset"}
  /\ envBefore \in {"inherited", "proxy", "unset", NotHeld}
  /\ proxyChanges \in 0..MaxChanges

\* Whatever the tool has forced or left half written can be restored: the
\* snapshot holds the service, through cancelled prompts, scripts that stop
\* or linger, failed probes, crashes and services that come and go.
OriginalsRecoverable ==
  \A s \in Services :
    writer[s] = "tool" /\ setting[s] \in {Forced, Partial} => snapshot[s] # NotHeld

\* A half written service is never saved as an original, nor one with an
\* authenticated proxy, whose restore would be refused.
SnapshotRestorable ==
  \A s \in Services : snapshot[s] \notin {Partial} \cup AuthValues

\* The snapshot is given up only when each service it held has its saved
\* settings back, or got others from somebody else meanwhile.
SnapshotSpentOnRestore ==
  [][\A s \in Services :
       snapshot[s] # NotHeld /\ snapshot'[s] # snapshot[s] =>
         writer[s] = "user" \/ setting[s] = snapshot[s]]_proxyVars
=============================================================================
