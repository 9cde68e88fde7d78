---------------------------- MODULE MenusProofs ----------------------------
(***************************************************************************)
(* Proofs about three menus of the local program that keep state of their  *)
(* own: the system proxy of the desktop (SystemProxy), the login history   *)
(* (RecentTargets) and the profiles of provider traffic (TrafficProfiles). *)
(* They share neither state nor a step.                                    *)
(***************************************************************************)
EXTENDS MCMenus, SshKeysProofs, IpRebindProofs, CredentialsProofs, FiniteSetTheorems, TLAPS

-----------------------------------------------------------------------------
(* The system proxy, for every set of services and settings: what the user *)
(* had chosen can be restored at any time.                                 *)

\* Types.

LEMMA ProxyTypesStep == PTypeOK /\ ProxyNext => PTypeOK'
<1> SUFFICES ASSUME PTypeOK, ProxyNext PROVE PTypeOK'
  OBVIOUS
<1>1. ASSUME ConfigureDiscover PROVE PTypeOK'
  BY <1>1, SystemProxyAssumption DEF ConfigureDiscover, Manageable, PTypeOK,
     surroundings, adminScript, proxyMenu, Settings, NothingSaved, Held
<1>2. ASSUME AlreadyForced PROVE PTypeOK'
  BY <1>2, SystemProxyAssumption DEF AlreadyForced, RememberAndSetEnvironment,
     ProxyReturns, PTypeOK, surroundings, adminScript, proxyMenu, Settings,
     NothingSaved, Held
<1>3. ASSUME SaveSnapshot PROVE PTypeOK'
  <2>1. snapshot' \in [Services -> Settings \cup {NotHeld}]
    <3>1. CASE SnapshotFirst
      BY <3>1 DEF SnapshotFirst, PTypeOK
    <3>2. CASE SnapshotExtend
      BY <3>2 DEF SnapshotExtend, PTypeOK
    <3> QED
      BY <1>3, <3>1, <3>2 DEF SaveSnapshot
  <2> QED
    BY <1>3, <2>1 DEF SaveSnapshot, PTypeOK, surroundings, adminScript
<1>4. ASSUME SaveRefused PROVE PTypeOK'
  BY <1>4, SystemProxyAssumption DEF SaveRefused, ProxyReturns, PTypeOK,
     surroundings, adminScript, proxyMenu, Settings, NothingSaved, Held
<1>5. ASSUME NEW s \in Services, ScriptBegins(s) PROVE PTypeOK'
  BY <1>5, SystemProxyAssumption DEF ScriptBegins, PTypeOK, surroundings,
     adminScript, proxyMenu, Settings, NothingSaved, Held
<1>6. ASSUME NEW s \in Services, ScriptFinishes(s) PROVE PTypeOK'
  <2>1. Target(s) \in Settings
    BY <1>6 DEF ScriptFinishes, Target, PTypeOK, Settings
  <2> QED
    BY <1>6, <2>1 DEF ScriptFinishes, PTypeOK, surroundings, proxyMenu
<1>7. ASSUME ScriptStops PROVE PTypeOK'
  BY <1>7, SystemProxyAssumption DEF ScriptStops, ProxyReturns, PTypeOK,
     surroundings, adminScript, proxyMenu, Settings, NothingSaved, Held
<1>8. ASSUME ScriptAbandoned PROVE PTypeOK'
  BY <1>8, SystemProxyAssumption DEF ScriptAbandoned, ProxyReturns, PTypeOK,
     surroundings, adminScript, proxyMenu, Settings, NothingSaved, Held
<1>9. ASSUME LingeringStops PROVE PTypeOK'
  BY <1>9, SystemProxyAssumption DEF LingeringStops, PTypeOK, surroundings,
     adminScript, proxyMenu, Settings, NothingSaved, Held
<1>10. ASSUME VerifyForced PROVE PTypeOK'
  BY <1>10, SystemProxyAssumption DEF VerifyForced, ProxyReturns, PTypeOK,
     surroundings, adminScript, proxyMenu, Settings, NothingSaved, Held
<1>11. ASSUME ProbeAnswers PROVE PTypeOK'
  BY <1>11, SystemProxyAssumption DEF ProbeAnswers, RememberAndSetEnvironment,
     ProxyReturns, PTypeOK, surroundings, adminScript, proxyMenu, Settings,
     NothingSaved, Held
<1>12. ASSUME ProbeFails PROVE PTypeOK'
  BY <1>12, SystemProxyAssumption DEF ProbeFails, PTypeOK, surroundings,
     adminScript, proxyMenu, Settings, NothingSaved, Held
<1>13. ASSUME VerifyUndone PROVE PTypeOK'
  BY <1>13, SystemProxyAssumption DEF VerifyUndone, ProxyReturns, PTypeOK,
     surroundings, adminScript, proxyMenu, Settings, NothingSaved, Held
<1>14. ASSUME StartForcing PROVE PTypeOK'
  BY <1>14, SystemProxyAssumption DEF StartForcing, PTypeOK, surroundings,
     adminScript, proxyMenu, Settings, NothingSaved, Held
<1>15. ASSUME StartRestoring PROVE PTypeOK'
  BY <1>15, SystemProxyAssumption DEF StartRestoring, PTypeOK, surroundings,
     adminScript, proxyMenu, Settings, NothingSaved, Held
<1>16. ASSUME RemoveStart PROVE PTypeOK'
  BY <1>16, SystemProxyAssumption DEF RemoveStart, PTypeOK, surroundings,
     adminScript, proxyMenu, Settings, NothingSaved, Held
<1>17. ASSUME VerifyRestored PROVE PTypeOK'
  BY <1>17, SystemProxyAssumption DEF VerifyRestored, ProxyReturns, PTypeOK,
     surroundings, adminScript, proxyMenu, Settings, NothingSaved, Held
<1>18. ASSUME DeleteSnapshot PROVE PTypeOK'
  BY <1>18, SystemProxyAssumption DEF DeleteSnapshot, ProxyReturns,
     RestoreEnvironment, NothingSaved, PTypeOK, surroundings, adminScript,
     proxyMenu, Settings, Held
<1>19. ASSUME ProxyKilled PROVE PTypeOK'
  BY <1>19, SystemProxyAssumption DEF ProxyKilled, ProxyReturns, PTypeOK,
     surroundings, adminScript, proxyMenu, Settings, NothingSaved, Held
<1>20. ASSUME NEW s \in Services, ServiceToggles(s) PROVE PTypeOK'
  BY <1>20, SystemProxyAssumption DEF ServiceToggles, PTypeOK, surroundings,
     adminScript, proxyMenu, Settings, NothingSaved, Held
<1>21. ASSUME NEW s \in Services, NEW v \in Values \cup {Forced}, OthersChange(s, v)
      PROVE  PTypeOK'
  BY <1>21, SystemProxyAssumption DEF OthersChange, PTypeOK, surroundings,
     adminScript, proxyMenu, Settings, NothingSaved, Held
<1> QED
  BY <1>1, <1>2, <1>3, <1>4, <1>5, <1>6, <1>7, <1>8, <1>9, <1>10, <1>11, <1>12,
     <1>13, <1>14, <1>15, <1>16, <1>17, <1>18, <1>19, <1>20, <1>21 DEF ProxyNext

-----------------------------------------------------------------------------
(* What the snapshot is good for.                                          *)

\* Only the administrator script leaves a service half written.
PartialIsOurs == \A s \in Services : setting[s] = Partial => writer[s] = "tool"

\* The script works on saved services only, also after its program is gone.
WorksOnSaved ==
  /\ todo \subseteq Held(snapshot)
  /\ proxyPc = "force" => Held(seen) \subseteq Held(snapshot)

\* What is about to be saved may be restored, or is saved already.
SeenRestorable ==
  proxyPc = "save" =>
    \A s \in Services : /\ seen[s] \notin AuthValues
                        /\ seen[s] = Partial => snapshot[s] # NotHeld

\* A restore that has not been stopped has given the finished services back.
GivenBack ==
  /\ proxyPc = "restoring" =>
       job = "restore" /\ \A s \in Held(snapshot) \ todo : writer[s] = "user"
  /\ proxyPc = "delete" =>
       todo = {} /\ \A s \in Held(snapshot) : writer[s] = "user"

ProxyInv ==
  /\ PartialIsOurs /\ WorksOnSaved /\ SeenRestorable /\ GivenBack
  /\ OriginalsRecoverable /\ SnapshotRestorable


\* Adding to a function what another one holds.
LEMMA Grows ==
  ASSUME NEW f, NEW g, NEW h,
         \A s \in Services : h[s] = IF f[s] # NotHeld THEN f[s] ELSE g[s]
  PROVE  /\ Held(f) \subseteq Held(h)
         /\ Held(g) \subseteq Held(h)
         /\ \A s \in Services : h[s] = f[s] \/ (f[s] = NotHeld /\ h[s] = g[s])
<1>1. \A s \in Services : f[s] # NotHeld => h[s] = f[s]
  OBVIOUS
<1>2. \A s \in Services : f[s] = NotHeld => h[s] = g[s]
  OBVIOUS
<1>3. Held(f) \subseteq Held(h)
  BY <1>1 DEF Held
<1>4. Held(g) \subseteq Held(h)
  BY <1>1, <1>2 DEF Held
<1> QED
  BY <1>1, <1>2, <1>3, <1>4

LEMMA ProxyStep == PTypeOK /\ ProxyInv /\ ProxyNext => ProxyInv'
<1> SUFFICES ASSUME PTypeOK, ProxyInv, ProxyNext PROVE ProxyInv'
  OBVIOUS
<1>1. ASSUME ConfigureDiscover PROVE ProxyInv'
  BY <1>1, SystemProxyAssumption DEF ConfigureDiscover, Manageable, PTypeOK,
     ProxyInv, PartialIsOurs, WorksOnSaved, SeenRestorable, GivenBack,
     OriginalsRecoverable, SnapshotRestorable, surroundings, adminScript,
     proxyMenu, Settings, NothingSaved, Held
<1>2. ASSUME AlreadyForced PROVE ProxyInv'
  BY <1>2, SystemProxyAssumption DEF AlreadyForced, RememberAndSetEnvironment,
     ProxyReturns, PTypeOK, ProxyInv, PartialIsOurs, WorksOnSaved,
     SeenRestorable, GivenBack, OriginalsRecoverable, SnapshotRestorable,
     surroundings, adminScript, proxyMenu, Settings, NothingSaved, Held
<1>3. ASSUME SaveSnapshot PROVE ProxyInv'
  <2>1. /\ Held(snapshot) \subseteq Held(snapshot')
        /\ Held(seen) \subseteq Held(snapshot')
        /\ \A s \in Services : \/ snapshot'[s] = snapshot[s]
                              \/ (snapshot[s] = NotHeld /\ snapshot'[s] = seen[s])
    <3>1. CASE SnapshotFirst
      BY <3>1 DEF SnapshotFirst, Exists, Held, PTypeOK
    <3>2. CASE SnapshotExtend
      <4>1. \A s \in Services :
              snapshot'[s] = IF snapshot[s] # NotHeld THEN snapshot[s] ELSE seen[s]
        BY <3>2 DEF SnapshotExtend
      <4> QED
        BY <4>1, Grows
    <3> QED
      BY <1>3, <3>1, <3>2 DEF SaveSnapshot
  <2>2. proxyPc = "save" /\ proxyPc' = "force"
    BY <1>3 DEF SaveSnapshot
  <2>3. UNCHANGED <<setting, writer, todo, seen>>
    BY <1>3 DEF SaveSnapshot, adminScript
  <2>4. PartialIsOurs' /\ WorksOnSaved' /\ SeenRestorable' /\ GivenBack'
    BY <2>1, <2>2, <2>3 DEF ProxyInv, PartialIsOurs, WorksOnSaved, SeenRestorable, GivenBack
  <2>5. OriginalsRecoverable'
    BY <2>1, <2>3 DEF ProxyInv, OriginalsRecoverable, Held
  <2>6. SnapshotRestorable'
    BY <2>1, <2>2 DEF ProxyInv, SnapshotRestorable, SeenRestorable
  <2> QED
    BY <2>4, <2>5, <2>6 DEF ProxyInv
<1>4. ASSUME SaveRefused PROVE ProxyInv'
  BY <1>4, SystemProxyAssumption DEF SaveRefused, ProxyReturns, PTypeOK,
     ProxyInv, PartialIsOurs, WorksOnSaved, SeenRestorable, GivenBack,
     OriginalsRecoverable, SnapshotRestorable, surroundings, adminScript,
     proxyMenu, Settings, NothingSaved, Held
<1>5. ASSUME NEW s \in Services, ScriptBegins(s) PROVE ProxyInv'
  BY <1>5, SystemProxyAssumption DEF ScriptBegins, PTypeOK, ProxyInv,
     PartialIsOurs, WorksOnSaved, SeenRestorable, GivenBack,
     OriginalsRecoverable, SnapshotRestorable, surroundings, adminScript,
     proxyMenu, Settings, NothingSaved, Held
<1>6. ASSUME NEW s \in Services, ScriptFinishes(s) PROVE ProxyInv'
  <2>1. /\ s \in todo /\ todo' = todo \ {s}
        /\ setting' = [setting EXCEPT ![s] = Target(s)]
        /\ writer' = [writer EXCEPT ![s] = IF job = "force" THEN "tool" ELSE "user"]
        /\ UNCHANGED <<snapshot, job, proxyPc, seen>>
    BY <1>6 DEF ScriptFinishes, proxyMenu
  <2>2. Target(s) # Partial /\ snapshot[s] # NotHeld
    BY <2>1, SystemProxyAssumption DEF Target, ProxyInv, SnapshotRestorable, WorksOnSaved,
       Held
  <2>3. PartialIsOurs'
    BY <2>1, <2>2 DEF ProxyInv, PartialIsOurs, PTypeOK
  <2>4. WorksOnSaved' /\ SeenRestorable' /\ SnapshotRestorable'
    BY <2>1 DEF ProxyInv, WorksOnSaved, SeenRestorable, SnapshotRestorable
  <2>5. GivenBack'
    BY <2>1 DEF ProxyInv, GivenBack, PTypeOK
  <2>6. OriginalsRecoverable'
    BY <2>1, <2>2 DEF ProxyInv, OriginalsRecoverable, PTypeOK
  <2> QED
    BY <2>3, <2>4, <2>5, <2>6 DEF ProxyInv
<1>7. ASSUME ScriptStops PROVE ProxyInv'
  BY <1>7, SystemProxyAssumption DEF ScriptStops, ProxyReturns, PTypeOK,
     ProxyInv, PartialIsOurs, WorksOnSaved, SeenRestorable, GivenBack,
     OriginalsRecoverable, SnapshotRestorable, surroundings, adminScript,
     proxyMenu, Settings, NothingSaved, Held
<1>8. ASSUME ScriptAbandoned PROVE ProxyInv'
  BY <1>8, SystemProxyAssumption DEF ScriptAbandoned, ProxyReturns, PTypeOK,
     ProxyInv, PartialIsOurs, WorksOnSaved, SeenRestorable, GivenBack,
     OriginalsRecoverable, SnapshotRestorable, surroundings, adminScript,
     proxyMenu, Settings, NothingSaved, Held
<1>9. ASSUME LingeringStops PROVE ProxyInv'
  BY <1>9, SystemProxyAssumption DEF LingeringStops, PTypeOK, ProxyInv,
     PartialIsOurs, WorksOnSaved, SeenRestorable, GivenBack,
     OriginalsRecoverable, SnapshotRestorable, surroundings, adminScript,
     proxyMenu, Settings, NothingSaved, Held
<1>10. ASSUME VerifyForced PROVE ProxyInv'
  BY <1>10, SystemProxyAssumption DEF VerifyForced, ProxyReturns, PTypeOK,
     ProxyInv, PartialIsOurs, WorksOnSaved, SeenRestorable, GivenBack,
     OriginalsRecoverable, SnapshotRestorable, surroundings, adminScript,
     proxyMenu, Settings, NothingSaved, Held
<1>11. ASSUME ProbeAnswers PROVE ProxyInv'
  BY <1>11, SystemProxyAssumption DEF ProbeAnswers, RememberAndSetEnvironment,
     ProxyReturns, PTypeOK, ProxyInv, PartialIsOurs, WorksOnSaved,
     SeenRestorable, GivenBack, OriginalsRecoverable, SnapshotRestorable,
     surroundings, adminScript, proxyMenu, Settings, NothingSaved, Held
<1>12. ASSUME ProbeFails PROVE ProxyInv'
  BY <1>12, SystemProxyAssumption DEF ProbeFails, PTypeOK, ProxyInv,
     PartialIsOurs, WorksOnSaved, SeenRestorable, GivenBack,
     OriginalsRecoverable, SnapshotRestorable, surroundings, adminScript,
     proxyMenu, Settings, NothingSaved, Held
<1>13. ASSUME VerifyUndone PROVE ProxyInv'
  BY <1>13, SystemProxyAssumption DEF VerifyUndone, ProxyReturns, PTypeOK,
     ProxyInv, PartialIsOurs, WorksOnSaved, SeenRestorable, GivenBack,
     OriginalsRecoverable, SnapshotRestorable, surroundings, adminScript,
     proxyMenu, Settings, NothingSaved, Held
<1>14. ASSUME StartForcing PROVE ProxyInv'
  BY <1>14, SystemProxyAssumption DEF StartForcing, PTypeOK, ProxyInv,
     PartialIsOurs, WorksOnSaved, SeenRestorable, GivenBack,
     OriginalsRecoverable, SnapshotRestorable, surroundings, adminScript,
     proxyMenu, Settings, NothingSaved, Held
<1>15. ASSUME StartRestoring PROVE ProxyInv'
  BY <1>15, SystemProxyAssumption DEF StartRestoring, PTypeOK, ProxyInv,
     PartialIsOurs, WorksOnSaved, SeenRestorable, GivenBack,
     OriginalsRecoverable, SnapshotRestorable, surroundings, adminScript,
     proxyMenu, Settings, NothingSaved, Held
<1>16. ASSUME RemoveStart PROVE ProxyInv'
  BY <1>16, SystemProxyAssumption DEF RemoveStart, PTypeOK, ProxyInv,
     PartialIsOurs, WorksOnSaved, SeenRestorable, GivenBack,
     OriginalsRecoverable, SnapshotRestorable, surroundings, adminScript,
     proxyMenu, Settings, NothingSaved, Held
<1>17. ASSUME VerifyRestored PROVE ProxyInv'
  BY <1>17, SystemProxyAssumption DEF VerifyRestored, ProxyReturns, PTypeOK,
     ProxyInv, PartialIsOurs, WorksOnSaved, SeenRestorable, GivenBack,
     OriginalsRecoverable, SnapshotRestorable, surroundings, adminScript,
     proxyMenu, Settings, NothingSaved, Held
<1>18. ASSUME DeleteSnapshot PROVE ProxyInv'
  BY <1>18, SystemProxyAssumption DEF DeleteSnapshot, ProxyReturns,
     RestoreEnvironment, NothingSaved, PTypeOK, ProxyInv, PartialIsOurs,
     WorksOnSaved, SeenRestorable, GivenBack, OriginalsRecoverable,
     SnapshotRestorable, surroundings, adminScript, proxyMenu, Settings, Held
<1>19. ASSUME ProxyKilled PROVE ProxyInv'
  BY <1>19, SystemProxyAssumption DEF ProxyKilled, ProxyReturns, PTypeOK,
     ProxyInv, PartialIsOurs, WorksOnSaved, SeenRestorable, GivenBack,
     OriginalsRecoverable, SnapshotRestorable, surroundings, adminScript,
     proxyMenu, Settings, NothingSaved, Held
<1>20. ASSUME NEW s \in Services, ServiceToggles(s) PROVE ProxyInv'
  BY <1>20, SystemProxyAssumption DEF ServiceToggles, PTypeOK, ProxyInv,
     PartialIsOurs, WorksOnSaved, SeenRestorable, GivenBack,
     OriginalsRecoverable, SnapshotRestorable, surroundings, adminScript,
     proxyMenu, Settings, NothingSaved, Held
<1>21. ASSUME NEW s \in Services, NEW v \in Values \cup {Forced}, OthersChange(s, v)
      PROVE  ProxyInv'
  BY <1>21, SystemProxyAssumption DEF OthersChange, PTypeOK, ProxyInv,
     PartialIsOurs, WorksOnSaved, SeenRestorable, GivenBack,
     OriginalsRecoverable, SnapshotRestorable, surroundings, adminScript,
     proxyMenu, Settings, NothingSaved, Held
<1> QED
  BY <1>1, <1>2, <1>3, <1>4, <1>5, <1>6, <1>7, <1>8, <1>9, <1>10, <1>11, <1>12,
     <1>13, <1>14, <1>15, <1>16, <1>17, <1>18, <1>19, <1>20, <1>21 DEF ProxyNext

LEMMA ProxyStart == ProxyInit => PTypeOK /\ ProxyInv
<1> SUFFICES ASSUME ProxyInit PROVE PTypeOK /\ ProxyInv
  OBVIOUS
<1>1. PTypeOK
  BY SystemProxyAssumption DEF ProxyInit, PTypeOK, Settings, NothingSaved
<1>2. ProxyInv
  BY SystemProxyAssumption DEF ProxyInit, ProxyInv, PartialIsOurs, WorksOnSaved,
     SeenRestorable, GivenBack, OriginalsRecoverable, SnapshotRestorable, NothingSaved, Held
<1> QED
  BY <1>1, <1>2

LEMMA ProxyStutter == PTypeOK /\ ProxyInv /\ UNCHANGED proxyVars => PTypeOK' /\ ProxyInv'
  BY DEF proxyVars, PTypeOK, ProxyInv, PartialIsOurs, WorksOnSaved, SeenRestorable,
     GivenBack, OriginalsRecoverable, SnapshotRestorable, Held

LEMMA ProxyInvariance == ProxySpec => [](PTypeOK /\ ProxyInv)
<1>1. PTypeOK /\ ProxyInv /\ [ProxyNext]_proxyVars => PTypeOK' /\ ProxyInv'
  BY ProxyTypesStep, ProxyStep, ProxyStutter
<1> QED
  BY <1>1, ProxyStart, PTL DEF ProxySpec

-----------------------------------------------------------------------------

\* The variables of the menu and of the settings keep their types.
THEOREM ProxyTypeCorrect == ProxySpec => []PTypeOK
  BY ProxyInvariance, PTL

\* configureMacOSProxy: whatever it has forced or left half written, through
\* cancelled prompts, lingering scripts, failed probes and kills, is in the
\* snapshot.
THEOREM ProxyOriginalsKept == ProxySpec => []OriginalsRecoverable
<1>1. ProxyInv => OriginalsRecoverable
  BY DEF ProxyInv
<1> QED
  BY <1>1, ProxyInvariance, PTL

\* writeMacOSProxyState: no half written service and no authenticated proxy is
\* ever saved as an original.
THEOREM ProxySnapshotRestorable == ProxySpec => []SnapshotRestorable
<1>1. ProxyInv => SnapshotRestorable
  BY DEF ProxyInv
<1> QED
  BY <1>1, ProxyInvariance, PTL

\* Only these two steps write the snapshot.
LEMMA SnapshotWriters == ASSUME ProxyNext, snapshot' # snapshot
                         PROVE  SaveSnapshot \/ DeleteSnapshot
  BY DEF ProxyNext, ConfigureDiscover, AlreadyForced, SaveRefused, ScriptBegins,
     ScriptFinishes, ScriptStops, ScriptAbandoned, LingeringStops, VerifyForced,
     ProbeAnswers, ProbeFails, VerifyUndone, StartForcing, StartRestoring, RemoveStart,
     VerifyRestored, ProxyKilled, ServiceToggles, OthersChange

\* removeMacOSProxy: the snapshot of a service is given up only when its
\* settings are the user's again.
THEOREM ProxySnapshotSpent == ProxySpec => SnapshotSpentOnRestore
<1> DEFINE Spent == \A s \in Services :
      snapshot[s] # NotHeld /\ snapshot'[s] # snapshot[s] =>
        writer[s] = "user" \/ setting[s] = snapshot[s]
<1>1. PTypeOK /\ ProxyInv /\ [ProxyNext]_proxyVars => [Spent]_proxyVars
  <2> SUFFICES ASSUME PTypeOK, ProxyInv, ProxyNext, NEW s \in Services,
                      snapshot[s] # NotHeld, snapshot'[s] # snapshot[s]
               PROVE  writer[s] = "user"
    OBVIOUS
  <2>1. ~SaveSnapshot
    BY DEF SaveSnapshot, SnapshotFirst, SnapshotExtend, Exists, Held, PTypeOK
  <2>2. DeleteSnapshot
    BY <2>1, SnapshotWriters
  <2> QED
    BY <2>2 DEF DeleteSnapshot, ProxyInv, GivenBack, Held
<1> QED
  BY <1>1, ProxyInvariance, PTL DEF ProxySpec, SnapshotSpentOnRestore

-----------------------------------------------------------------------------
(* The login history.                                                      *)

\* Normalising and merging only drop entries.
LEMMA NormalizeDrops == ASSUME NEW f, NEW t \in Targets
                        PROVE  Normalize(f)[t] \in {0, f[t]}
  BY DEF Normalize

LEMMA MergeDrops == ASSUME NEW f, NEW g, NEW t \in Targets
                    PROVE  Merge(f, g)[t] \in {0, f[t], g[t]}
<1> DEFINE F == Normalize(f)
           G == Normalize(g)
           h == [u \in Targets |-> IF F[u] >= G[u] THEN F[u] ELSE G[u]]
<1>1. Merge(f, g) = Normalize(h)
  BY DEF Merge
<1>2. h[t] \in {F[t], G[t]}
  OBVIOUS
<1> HIDE DEF h, F, G
<1>3. Merge(f, g)[t] \in {0, h[t]}
  BY <1>1, NormalizeDrops
<1>4. F[t] \in {0, f[t]} /\ G[t] \in {0, g[t]}
  BY NormalizeDrops DEF F, G
<1> QED
  BY <1>2, <1>3, <1>4

\* No list has an entry as old as a reported deletion of it.
Fresh(f) == \A t \in Targets : f[t] = 0 \/ f[t] > gone[t]

LEMMA MergeFresh == ASSUME NEW f, NEW g, Fresh(f), Fresh(g) PROVE Fresh(Merge(f, g))
  BY MergeDrops DEF Fresh

HistoryFresh ==
  /\ Fresh(current) /\ Fresh(legacy) /\ \A t \in Targets : gone[t] <= clock
  /\ \A p \in Programs : Fresh(readFile[p]) /\ Fresh(shown[p]) /\ Fresh(toWrite[p])

\* The only program still sees what it has read.
ReadIsCurrent ==
  \A p \in Programs :
    /\ place[p] \in {"reading", "menu", "loading"} => readFile[p] = current
    /\ place[p] = "menu" \/ (place[p] = "loading" /\ chosen[p].op = "delete") =>
         shown[p] = Merge(current, legacy)

\* So the number of the chosen entry is still that of its target, and the
\* file that is written does not hold it.
NumberHolds ==
  \A p \in Programs : chosen[p].op = "delete" =>
    /\ chosen[p].target \in Targets
    /\ place[p] = "loading" => chosen[p].target \in Entries(shown[p])
                               /\ Position(shown[p], chosen[p].target) = chosen[p].index
    /\ place[p] \in {"write", "removed", "renamed"} => toWrite[p][chosen[p].target] = 0
    /\ place[p] \in {"loading", "write", "removed", "renamed"}
WrittenIsCurrent == \A p \in Programs : place[p] = "renamed" => current = toWrite[p]

HistoryTyped ==
  /\ current \in [Targets -> Nat] /\ legacy \in [Targets -> Nat] /\ gone \in [Targets -> Nat]
  /\ clock \in Nat
  /\ place \in [Programs -> {"idle", "reading", "menu", "loading", "write", "removed",
                             "renamed", "clearing"}]
  /\ readFile \in [Programs -> [Targets -> Nat]]
  /\ shown \in [Programs -> [Targets -> Nat]]
  /\ toWrite \in [Programs -> [Targets -> Nat]]

Top == Cardinality(Targets) + MaxUses
Places == {"idle", "reading", "menu", "loading", "write", "removed", "renamed", "clearing"}

LEMMA TopIsNat == Top \in Nat /\ Cardinality(Targets) \in Nat /\ Cardinality(Targets) <= Top
  BY FS_CardinalityType, RecentTargetsAssumption DEF Top

LEMMA NormalizeTyped == ASSUME NEW f \in HistoryFiles PROVE Normalize(f) \in HistoryFiles
  BY TopIsNat DEF Normalize, HistoryFiles, Top

LEMMA MergeTyped ==
  ASSUME NEW f \in HistoryFiles, NEW g \in HistoryFiles PROVE Merge(f, g) \in HistoryFiles
<1> DEFINE F == Normalize(f)
           G == Normalize(g)
           h == [u \in Targets |-> IF F[u] >= G[u] THEN F[u] ELSE G[u]]
<1>1. F \in HistoryFiles /\ G \in HistoryFiles
  BY NormalizeTyped
<1> HIDE DEF F, G
<1>2. h \in HistoryFiles
  BY <1>1 DEF HistoryFiles
<1>3. Normalize(h) \in HistoryFiles
  BY <1>2, NormalizeTyped
<1> QED
  BY <1>3 DEF Merge, F, G

\* The entries of a normalised list have the numbers from 1 to MaxRecent.
LEMMA NormalizeNumbers ==
  ASSUME NEW f \in HistoryFiles, NEW t \in Entries(Normalize(f))
  PROVE  Position(Normalize(f), t) \in 1..MaxRecent
<1> DEFINE N == Normalize(f)
           Ahead == {u \in Entries(f) : f[u] >= f[t]}
           Left == {u \in Entries(N) : N[u] >= N[t]}
<1>1. t \in Targets /\ N[t] > 0 /\ N[t] = f[t] /\ Position(f, t) <= MaxRecent
  BY TopIsNat DEF Entries, Normalize, HistoryFiles, Top
<1>2. \A u \in Entries(N) : u \in Entries(f) /\ N[u] = f[u]
  BY TopIsNat DEF Entries, Normalize, HistoryFiles, Top
<1> HIDE DEF N
<1>3. Left \subseteq Ahead /\ t \in Left
  BY <1>1, <1>2, TopIsNat DEF N, HistoryFiles, Top, Entries
<1>4. IsFiniteSet(Ahead) /\ IsFiniteSet(Left)
  BY <1>3, FS_Subset, RecentTargetsAssumption DEF Entries
<1>5. Cardinality(Left) <= Cardinality(Ahead) /\ Cardinality(Left) # 0
  BY <1>3, <1>4, FS_Subset, FS_EmptySet
<1>6. Cardinality(Left) \in Nat /\ Cardinality(Ahead) \in Nat
  BY <1>4, FS_CardinalityType
<1>7. Position(f, t) = Cardinality(Ahead) /\ Position(N, t) = Cardinality(Left)
  BY DEF Position
<1> QED
  BY <1>1, <1>5, <1>6, <1>7, RecentTargetsAssumption DEF N

LEMMA MergeNumbers ==
  ASSUME NEW f \in HistoryFiles, NEW g \in HistoryFiles, NEW t \in Entries(Merge(f, g))
  PROVE  Position(Merge(f, g), t) \in 1..MaxRecent
<1> DEFINE F == Normalize(f)
           G == Normalize(g)
           h == [u \in Targets |-> IF F[u] >= G[u] THEN F[u] ELSE G[u]]
<1>1. F \in HistoryFiles /\ G \in HistoryFiles
  BY NormalizeTyped
<1> HIDE DEF F, G
<1>2. h \in HistoryFiles
  BY <1>1 DEF HistoryFiles
<1>3. Merge(f, g) = Normalize(h)
  BY DEF Merge, F, G
<1> QED
  BY <1>2, <1>3, NormalizeNumbers

\* The logins that will still be recorded.
Remembering == {q \in Programs : chosen[q].op = "remember" /\ place[q] = "loading"}
UsesLeft == clock + Cardinality(Remembering) <= Top

\* The list a program shows is normalised.
ShownNumbered ==
  \A p \in Programs : \A t \in Entries(shown[p]) : Position(shown[p], t) \in 1..MaxRecent

RecentTyped == RTypeOK /\ UsesLeft /\ ShownNumbered

LEMMA EmptyTyped == NoTargets \in HistoryFiles /\ Entries(NoTargets) = {}
  BY TopIsNat DEF NoTargets, HistoryFiles, Entries, Top

\* Nobody starts to remember.
LEMMA UsesKept ==
  ASSUME RTypeOK, UsesLeft, clock' = clock, Remembering' \subseteq Remembering PROVE UsesLeft'
<1>1. IsFiniteSet(Remembering)
  BY FS_Subset, RecentTargetsAssumption DEF Remembering
<1>2. Cardinality(Remembering') <= Cardinality(Remembering)
  BY <1>1, FS_Subset
<1>3. Cardinality(Remembering) \in Nat /\ Cardinality(Remembering') \in Nat
  BY <1>1, FS_Subset, FS_CardinalityType
<1> QED
  BY <1>2, <1>3, TopIsNat DEF UsesLeft, RTypeOK, Top

LEMMA ReturnTyped ==
  ASSUME RecentTyped, NEW p \in Programs, NEW from, RecentReturns(p, from), clock' = clock
  PROVE  /\ place' \in [Programs -> Places] /\ chosen' \in [Programs -> RecentChoices]
         /\ readFile' \in [Programs -> HistoryFiles] /\ shown' \in [Programs -> HistoryFiles]
         /\ toWrite' \in [Programs -> HistoryFiles] /\ UsesLeft' /\ ShownNumbered'
<1>1. /\ place' = [place EXCEPT ![p] = "idle"] /\ chosen' = [chosen EXCEPT ![p] = NoChoice]
      /\ readFile' = [readFile EXCEPT ![p] = NoTargets]
      /\ shown' = [shown EXCEPT ![p] = NoTargets]
      /\ toWrite' = [toWrite EXCEPT ![p] = NoTargets]
  BY DEF RecentReturns, Goes
<1>2. NoChoice \in RecentChoices /\ NoChoice.op = "none"
  BY DEF NoChoice, RecentChoices
<1>3. /\ place' \in [Programs -> Places] /\ chosen' \in [Programs -> RecentChoices]
      /\ readFile' \in [Programs -> HistoryFiles] /\ shown' \in [Programs -> HistoryFiles]
      /\ toWrite' \in [Programs -> HistoryFiles]
  BY <1>1, <1>2, EmptyTyped DEF RecentTyped, RTypeOK, Places
<1>4. Remembering' \subseteq Remembering
  BY <1>1, <1>2 DEF RecentTyped, RTypeOK, Remembering
<1>5. ShownNumbered'
  <2> SUFFICES ASSUME NEW q \in Programs, NEW t \in Entries(shown'[q])
               PROVE  Position(shown'[q], t) \in 1..MaxRecent
    BY DEF ShownNumbered, Entries, Position
  <2>1. q # p /\ shown'[q] = shown[q]
    BY <1>1, EmptyTyped DEF RecentTyped, RTypeOK
  <2> QED
    BY <2>1 DEF RecentTyped, ShownNumbered
<1> QED
  BY <1>3, <1>4, <1>5, UsesKept DEF RecentTyped

LEMMA RecentTypesStep == RecentTyped /\ RecentNext => RecentTyped'
<1> SUFFICES ASSUME RecentTyped, NEW p \in Programs,
                    \/ ReadForMenu(p) \/ ShowMenu(p) \/ LeaveMenu(p)
                    \/ ClearCurrent(p) \/ ClearLegacy(p)
                    \/ \E t \in Targets : ChooseDelete(p, t) \/ ChooseRemember(p, t)
                    \/ LoadToRemember(p) \/ LoadToDelete(p)
                    \/ RemoveOld(p) \/ RenameNew(p) \/ DropLegacy(p) \/ RecentFails(p)
             PROVE  RecentTyped'
  BY DEF RecentNext
<1> USE DEF Places
<1>a. RTypeOK /\ UsesLeft /\ ShownNumbered /\ clock \in 0..Top /\ gone \in HistoryFiles
  BY DEF RecentTyped, RTypeOK, Top
<1>b. ASSUME shown' = shown PROVE ShownNumbered'
  BY <1>a, <1>b DEF ShownNumbered, Entries, Position
<1>c. NoTargets \in HistoryFiles /\ LegacyDropped \in HistoryFiles
  BY <1>a, EmptyTyped DEF LegacyDropped, RTypeOK
<1>d. Merge(readFile[p], legacy) \in HistoryFiles
  BY <1>a, MergeTyped DEF RTypeOK
<1>1. ASSUME ReadForMenu(p) \/ ClearCurrent(p) \/ RemoveOld(p) \/ RenameNew(p)
      PROVE  RecentTyped'
  <2>1. /\ UNCHANGED <<legacy, clock, shown, chosen, toWrite, gone>>
        /\ current' \in {current, NoTargets, toWrite[p]}
        /\ readFile' \in {readFile, [readFile EXCEPT ![p] = current]}
        /\ \E to \in {"reading", "clearing", "removed", "renamed"} :
             place' = [place EXCEPT ![p] = to]
    BY <1>1 DEF ReadForMenu, ClearCurrent, RemoveOld, RenameNew, Goes, historyFiles
  <2>2. RTypeOK'
    BY <1>a, <1>c, <2>1 DEF RTypeOK
  <2>3. Remembering' \subseteq Remembering
    BY <1>a, <2>1 DEF RTypeOK, Remembering
  <2> QED
    BY <1>a, <1>b, <2>1, <2>2, <2>3, UsesKept DEF RecentTyped
<1>2. ASSUME ShowMenu(p) PROVE RecentTyped'
  <2>1. /\ UNCHANGED <<current, legacy, clock, readFile, chosen, toWrite, gone>>
        /\ place' = [place EXCEPT ![p] = "menu"]
        /\ shown' = [shown EXCEPT ![p] = Merge(readFile[p], legacy)]
    BY <1>2 DEF ShowMenu, Goes, historyFiles
  <2>2. RTypeOK'
    BY <1>a, <1>d, <2>1 DEF RTypeOK
  <2>3. Remembering' \subseteq Remembering
    BY <1>a, <2>1 DEF RTypeOK, Remembering
  <2>4. ShownNumbered'
    <3> SUFFICES ASSUME NEW q \in Programs, NEW t \in Entries(shown'[q])
                 PROVE  Position(shown'[q], t) \in 1..MaxRecent
      BY DEF ShownNumbered, Entries, Position
    <3>1. CASE q = p
      BY <1>a, <2>1, <3>1, MergeNumbers DEF RTypeOK
    <3>2. CASE q # p
      BY <1>a, <2>1, <3>2 DEF RTypeOK, ShownNumbered
    <3> QED
      BY <3>1, <3>2
  <2> QED
    BY <1>a, <2>1, <2>2, <2>3, <2>4, UsesKept DEF RecentTyped
<1>3. ASSUME LeaveMenu(p) \/ ClearLegacy(p) \/ RecentFails(p) \/ DropLegacy(p)
             \/ (LoadToDelete(p) /\ Numbered(p) = {})
      PROVE  RecentTyped'
  <2>1. /\ \E from : RecentReturns(p, from)
        /\ UNCHANGED <<current, clock>> /\ legacy' \in {legacy, LegacyDropped}
        /\ gone' = gone \/ \E t : gone' = [gone EXCEPT ![t] = clock]
    BY <1>3 DEF LeaveMenu, ClearLegacy, RecentFails, DropLegacy, LoadToDelete, Goes,
       historyFiles
  <2>2. gone' \in HistoryFiles
    BY <1>a, <2>1 DEF HistoryFiles, Top
  <2>3. /\ place' \in [Programs -> Places] /\ chosen' \in [Programs -> RecentChoices]
        /\ readFile' \in [Programs -> HistoryFiles] /\ shown' \in [Programs -> HistoryFiles]
        /\ toWrite' \in [Programs -> HistoryFiles] /\ UsesLeft' /\ ShownNumbered'
    BY <2>1, ReturnTyped
  <2> QED
    BY <1>a, <1>c, <2>1, <2>2, <2>3 DEF RecentTyped, RTypeOK
<1>4. ASSUME NEW t \in Targets, ChooseDelete(p, t) PROVE RecentTyped'
  <2> DEFINE choice == [op |-> "delete", target |-> t, index |-> Position(shown[p], t)]
  <2>1. /\ UNCHANGED <<current, legacy, clock, shown, toWrite, gone>>
        /\ place' = [place EXCEPT ![p] = "loading"] /\ t \in Entries(shown[p])
        /\ readFile' = [readFile EXCEPT ![p] = current] /\ chosen' = [chosen EXCEPT ![p] = choice]
    BY <1>4 DEF ChooseDelete, Goes, historyFiles
  <2>2. choice \in RecentChoices /\ choice.op = "delete"
    BY <1>a, <2>1 DEF RecentChoices, ShownNumbered
  <2> HIDE DEF choice
  <2>3. RTypeOK'
    BY <1>a, <2>1, <2>2 DEF RTypeOK
  <2>4. Remembering' \subseteq Remembering
    BY <1>a, <2>1, <2>2 DEF RTypeOK, Remembering
  <2> QED
    BY <1>a, <1>b, <2>1, <2>3, <2>4, UsesKept DEF RecentTyped
<1>5. ASSUME NEW t \in Targets, ChooseRemember(p, t) PROVE RecentTyped'
  <2> DEFINE choice == [op |-> "remember", target |-> t]
             Uses == {q \in Programs : chosen[q].op = "remember"}
  <2>1. /\ UNCHANGED <<current, legacy, clock, shown, toWrite, gone>>
        /\ place' = [place EXCEPT ![p] = "loading"] /\ clock + Cardinality(Uses) < Top
        /\ readFile' = [readFile EXCEPT ![p] = current] /\ chosen' = [chosen EXCEPT ![p] = choice]
    BY <1>5 DEF ChooseRemember, Goes, historyFiles, Top
  <2>2. choice \in RecentChoices
    BY DEF RecentChoices
  <2> HIDE DEF choice
  <2>3. RTypeOK'
    BY <1>a, <2>1, <2>2 DEF RTypeOK
  <2>4. Remembering' \subseteq Uses \cup {p}
    BY <1>a, <2>1 DEF RTypeOK, Remembering
  <2>5. IsFiniteSet(Uses)
    BY FS_Subset, RecentTargetsAssumption
  <2>6. /\ IsFiniteSet(Uses \cup {p}) /\ Cardinality(Uses \cup {p}) <= Cardinality(Uses) + 1
        /\ Cardinality(Uses) \in Nat /\ Cardinality(Uses \cup {p}) \in Nat
    <3>1. Cardinality(Uses) \in Nat
      BY <2>5, FS_CardinalityType
    <3>2. IsFiniteSet(Uses \cup {p})
          /\ Cardinality(Uses \cup {p}) \in {Cardinality(Uses), Cardinality(Uses) + 1}
      BY <2>5, FS_AddElement
    <3> HIDE DEF Uses
    <3> QED
      BY <3>1, <3>2
  <2>7. Cardinality(Remembering') \in Nat
        /\ Cardinality(Remembering') <= Cardinality(Uses \cup {p})
    BY <2>4, <2>6, FS_Subset, FS_CardinalityType
  <2> HIDE DEF Uses
  <2>8. UsesLeft'
    BY <1>a, <2>1, <2>6, <2>7, TopIsNat DEF UsesLeft, Top
  <2> QED
    BY <1>a, <1>b, <2>1, <2>3, <2>8 DEF RecentTyped
<1>6. ASSUME LoadToRemember(p) PROVE RecentTyped'
  <2> DEFINE merged == [Merge(readFile[p], legacy) EXCEPT ![chosen[p].target] = clock + 1]
  <2>1. /\ UNCHANGED <<current, legacy, readFile, shown, chosen, gone>>
        /\ place[p] = "loading" /\ chosen[p].op = "remember" /\ clock' = clock + 1
        /\ place' = [place EXCEPT ![p] = "write"]
        /\ toWrite' = [toWrite EXCEPT ![p] = Normalize(merged)]
    BY <1>6 DEF LoadToRemember, Goes, historyFiles
  <2>2. p \in Remembering /\ Remembering' \subseteq Remembering \ {p}
    BY <1>a, <2>1 DEF RTypeOK, Remembering
  <2>3. IsFiniteSet(Remembering)
    BY FS_Subset, RecentTargetsAssumption DEF Remembering
  <2>4. /\ IsFiniteSet(Remembering \ {p})
        /\ Cardinality(Remembering \ {p}) = Cardinality(Remembering) - 1
        /\ Cardinality(Remembering) \in Nat /\ Cardinality(Remembering \ {p}) \in Nat
    BY <2>2, <2>3, FS_RemoveElement, FS_CardinalityType
  <2>5. /\ Cardinality(Remembering') \in Nat
        /\ Cardinality(Remembering') <= Cardinality(Remembering) - 1
    BY <2>2, <2>4, FS_Subset, FS_CardinalityType
  <2>6. UsesLeft' /\ clock + 1 \in 0..Top
    BY <1>a, <2>1, <2>4, <2>5, TopIsNat DEF UsesLeft, Top
  <2>7. Normalize(merged) \in HistoryFiles
    <3>1. merged \in HistoryFiles
      BY <1>d, <2>6 DEF HistoryFiles, Top
    <3> QED
      BY <3>1, NormalizeTyped
  <2> HIDE DEF merged
  <2>8. RTypeOK'
    BY <1>a, <2>1, <2>6, <2>7 DEF RTypeOK, Top
  <2> QED
    BY <1>b, <2>1, <2>6, <2>8 DEF RecentTyped
<1>7. ASSUME LoadToDelete(p), Numbered(p) # {} PROVE RecentTyped'
  <2> DEFINE rest == [t \in Targets |-> IF t \in Numbered(p) THEN 0
                                        ELSE Merge(readFile[p], legacy)[t]]
  <2>1. /\ UNCHANGED <<current, legacy, clock, readFile, shown, chosen, gone>>
        /\ place' = [place EXCEPT ![p] = "write"]
        /\ toWrite' = [toWrite EXCEPT ![p] = rest]
    BY <1>7 DEF LoadToDelete, Goes, historyFiles
  <2>2. rest \in HistoryFiles
    BY <1>d, TopIsNat DEF HistoryFiles, Top
  <2> HIDE DEF rest
  <2>3. RTypeOK'
    BY <1>a, <2>1, <2>2 DEF RTypeOK
  <2>4. Remembering' \subseteq Remembering
    BY <1>a, <2>1 DEF RTypeOK, Remembering
  <2> QED
    BY <1>a, <1>b, <2>1, <2>3, <2>4, UsesKept DEF RecentTyped
<1> QED
  BY <1>1, <1>2, <1>3, <1>4, <1>5, <1>6, <1>7

LEMMA RecentTypesStart == RecentInit => RecentTyped
<1> SUFFICES ASSUME RecentInit PROVE RecentTyped
  OBVIOUS
<1>1. legacy \in HistoryFiles
  BY TopIsNat DEF RecentInit, HistoryFiles, Top
<1>2. NoChoice \in RecentChoices /\ NoChoice.op = "none"
  BY DEF NoChoice, RecentChoices
<1>3. RTypeOK
  BY <1>1, <1>2, EmptyTyped, TopIsNat DEF RecentInit, RTypeOK, Top
<1>4. Remembering = {} /\ clock <= Top
  BY <1>2, TopIsNat DEF RecentInit, Remembering
<1>5. UsesLeft
  BY <1>3, <1>4, FS_EmptySet, TopIsNat DEF UsesLeft, RTypeOK
<1>6. ShownNumbered
  BY EmptyTyped DEF RecentInit, ShownNumbered
<1> QED
  BY <1>3, <1>5, <1>6 DEF RecentTyped

LEMMA RecentAlwaysTyped == RecentSpec => []RecentTyped
<1>1. RecentTyped /\ UNCHANGED recentVars => RecentTyped'
  BY DEF RecentTyped, recentVars, historyFiles, RTypeOK, UsesLeft, Remembering,
     ShownNumbered,
     Entries, Position
<1> QED
  BY <1>1, RecentTypesStart, RecentTypesStep, PTL DEF RecentSpec

\* The two files, and what every program has read, shows and writes, stay
\* lists of at most MaxRecent targets with a time of last use; the number of
\* a chosen entry is one of the list.
THEOREM HistoryTypeCorrect == RecentSpec => []RTypeOK
<1>1. RecentTyped => RTypeOK
  BY DEF RecentTyped
<1> QED
  BY <1>1, RecentAlwaysTyped, PTL

-----------------------------------------------------------------------------
(* One program: what was deleted stays away.                               *)

DeletionInv == HistoryFresh /\ ReadIsCurrent /\ NumberHolds /\ WrittenIsCurrent

LEMMA TypedHistory == ASSUME RTypeOK PROVE HistoryTyped
<1>1. \A f \in HistoryFiles : f \in [Targets -> Nat]
  BY TopIsNat DEF HistoryFiles, Top
<1> QED
  BY <1>1, TopIsNat DEF RTypeOK, HistoryTyped, Top, HistoryFiles

LEMMA NothingFresh == Fresh(NoTargets)
  BY DEF Fresh, NoTargets

\* The only program returns: it is idle and holds nothing.
LEMMA OnlyOneReturns ==
  ASSUME RTypeOK, NEW p, Programs = {p}, NEW from, RecentReturns(p, from)
  PROVE  /\ ReadIsCurrent' /\ NumberHolds' /\ WrittenIsCurrent'
         /\ \A q \in Programs : readFile'[q] = NoTargets /\ shown'[q] = NoTargets
                                 /\ toWrite'[q] = NoTargets
<1>1. place'[p] = "idle" /\ chosen'[p].op = "none"
  BY DEF RecentReturns, Goes, NoChoice, RTypeOK
<1>2. readFile'[p] = NoTargets /\ shown'[p] = NoTargets /\ toWrite'[p] = NoTargets
  BY DEF RecentReturns, RTypeOK
<1> QED
  BY <1>1, <1>2 DEF ReadIsCurrent, NumberHolds, WrittenIsCurrent

LEMMA DeletionStep ==
  ASSUME NEW q, Programs = {q}, LegacyRemovable
  PROVE  RTypeOK /\ DeletionInv /\ RecentNext => DeletionInv'
<1> SUFFICES ASSUME RTypeOK, DeletionInv, NEW p \in Programs,
                    \/ ReadForMenu(p) \/ ShowMenu(p) \/ LeaveMenu(p)
                    \/ ClearCurrent(p) \/ ClearLegacy(p)
                    \/ \E t \in Targets : ChooseDelete(p, t) \/ ChooseRemember(p, t)
                    \/ LoadToRemember(p) \/ LoadToDelete(p)
                    \/ RemoveOld(p) \/ RenameNew(p) \/ DropLegacy(p) \/ RecentFails(p)
             PROVE  DeletionInv'
  BY DEF RecentNext
<1> USE TypedHistory DEF HistoryTyped, Goes, historyFiles
<1>0. Programs = {p}
  OBVIOUS
<1>1. CASE ReadForMenu(p)
  BY <1>0, <1>1 DEF ReadForMenu, DeletionInv, HistoryFresh, ReadIsCurrent, NumberHolds,
     WrittenIsCurrent, Fresh
<1>2. CASE ShowMenu(p)
  <2>1. Fresh(Merge(readFile[p], legacy)) /\ readFile[p] = current
    BY <1>2, MergeFresh DEF ShowMenu, DeletionInv, HistoryFresh, ReadIsCurrent
  <2> QED
  BY <1>0, <1>2, <2>1 DEF ShowMenu, DeletionInv, HistoryFresh, ReadIsCurrent, NumberHolds,
     WrittenIsCurrent, Fresh
<1>3. CASE \/ LeaveMenu(p) \/ ClearLegacy(p) \/ RecentFails(p)
           \/ (LoadToDelete(p) /\ Numbered(p) = {})
  <2>1. /\ \E from : RecentReturns(p, from)
        /\ UNCHANGED <<current, clock, gone>> /\ legacy' \in {legacy, NoTargets}
    BY <1>3 DEF LeaveMenu, ClearLegacy, RecentFails, LoadToDelete, LegacyDropped
  <2>2. Fresh(NoTargets)'
    BY NothingFresh DEF Fresh, NoTargets
  <2> QED
    BY <2>1, <2>2, OnlyOneReturns DEF DeletionInv, HistoryFresh, Fresh
<1>4. CASE ClearCurrent(p) \/ RemoveOld(p) \/ RenameNew(p)
  <2>1. Fresh(NoTargets)'
    BY NothingFresh DEF Fresh, NoTargets
  <2> QED
    BY <1>0, <1>4, <2>1 DEF ClearCurrent, RemoveOld, RenameNew, DeletionInv, HistoryFresh,
       ReadIsCurrent, NumberHolds, WrittenIsCurrent, Fresh
<1>5. ASSUME NEW t \in Targets, ChooseDelete(p, t) PROVE DeletionInv'
  <2>1. place[p] = "menu" /\ t \in Entries(shown[p])
    BY <1>5 DEF ChooseDelete
  <2> DEFINE choice == [op |-> "delete", target |-> t, index |-> Position(shown[p], t)]
  <2>2. chosen' = [chosen EXCEPT ![p] = choice]
    BY <1>5 DEF ChooseDelete
  <2>3. choice.op = "delete" /\ choice.target = t /\ choice.index = Position(shown[p], t)
    OBVIOUS
  <2> HIDE DEF choice
  <2>4. shown[p] = Merge(current, legacy)
    BY <2>1 DEF DeletionInv, ReadIsCurrent, NumberHolds
  <2> QED
    <3>1. /\ place'[p] = "loading" /\ chosen'[p] = choice /\ readFile'[p] = current
          /\ UNCHANGED <<current, legacy, clock, shown, toWrite, gone>>
      BY <1>5, <2>2 DEF ChooseDelete, RTypeOK
    <3>2. HistoryFresh'
      BY <1>0, <3>1 DEF DeletionInv, HistoryFresh, Fresh
    <3>3. ReadIsCurrent' /\ WrittenIsCurrent'
      BY <1>0, <2>4, <3>1 DEF ReadIsCurrent, WrittenIsCurrent
    <3>4. NumberHolds'
      BY <1>0, <2>1, <2>3, <3>1 DEF NumberHolds, Entries, Position
    <3> QED
      BY <3>2, <3>3, <3>4 DEF DeletionInv
<1>6. ASSUME NEW t \in Targets, ChooseRemember(p, t) PROVE DeletionInv'
  BY <1>0, <1>6 DEF ChooseRemember, RTypeOK, DeletionInv, HistoryFresh, ReadIsCurrent,
     NumberHolds, WrittenIsCurrent, Fresh
<1>7. CASE LoadToRemember(p)
  <2> DEFINE merged == [Merge(readFile[p], legacy) EXCEPT ![chosen[p].target] = clock + 1]
  <2>1. /\ UNCHANGED <<current, legacy, readFile, shown, chosen, gone>>
        /\ place[p] = "loading" /\ chosen[p].op = "remember" /\ clock' = clock + 1
        /\ place' = [place EXCEPT ![p] = "write"]
        /\ toWrite' = [toWrite EXCEPT ![p] = Normalize(merged)]
    BY <1>7 DEF LoadToRemember
  <2>2. Fresh(merged)
    <3>1. Fresh(Merge(readFile[p], legacy))
      BY MergeFresh DEF DeletionInv, HistoryFresh
    <3>2. Merge(readFile[p], legacy) \in [Targets -> Nat]
      BY MergeTyped, TopIsNat DEF RTypeOK, HistoryFiles, Top
    <3> QED
      BY <3>1, <3>2 DEF Fresh, DeletionInv, HistoryFresh
  <2>3. Fresh(Normalize(merged))
    BY <2>2, NormalizeDrops DEF Fresh
  <2> HIDE DEF merged
  <2> QED
    BY <1>0, <2>1, <2>3 DEF DeletionInv, HistoryFresh, ReadIsCurrent, NumberHolds,
       WrittenIsCurrent, Fresh
<1>8. CASE LoadToDelete(p) /\ Numbered(p) # {}
  <2> DEFINE rest == [t \in Targets |-> IF t \in Numbered(p) THEN 0
                                        ELSE Merge(readFile[p], legacy)[t]]
  <2>1. /\ UNCHANGED <<current, legacy, clock, readFile, shown, chosen, gone>>
        /\ place[p] = "loading" /\ chosen[p].op = "delete"
        /\ place' = [place EXCEPT ![p] = "write"]
        /\ toWrite' = [toWrite EXCEPT ![p] = rest]
    BY <1>8 DEF LoadToDelete
  <2>2. Fresh(rest)
    BY MergeFresh DEF Fresh, DeletionInv, HistoryFresh
  <2>3. chosen[p].target \in Targets /\ rest[chosen[p].target] = 0
    <3>1. readFile[p] = current /\ shown[p] = Merge(current, legacy)
      BY <2>1 DEF DeletionInv, ReadIsCurrent
    <3>2. chosen[p].target \in Targets /\ chosen[p].target \in Numbered(p)
      BY <2>1, <3>1 DEF DeletionInv, NumberHolds, Numbered
    <3> QED
      BY <3>2
  <2> HIDE DEF rest
  <2> QED
    BY <1>0, <2>1, <2>2, <2>3 DEF DeletionInv, HistoryFresh, ReadIsCurrent, NumberHolds,
       WrittenIsCurrent, Fresh
<1>9. CASE DropLegacy(p)
  <2>1. /\ RecentReturns(p, "renamed") /\ legacy' = NoTargets /\ UNCHANGED <<current, clock>>
        /\ current = toWrite[p]
    BY <1>9 DEF DropLegacy, LegacyDropped, RecentReturns, DeletionInv, WrittenIsCurrent
  <2>2. /\ gone' \in [Targets -> Nat]
        /\ \A t \in Targets : gone'[t] <= clock /\ (gone'[t] # gone[t] => current[t] = 0)
    <3>1. CASE chosen[p].op = "delete"
      BY <1>9, <2>1, <3>1 DEF DropLegacy, RecentReturns, DeletionInv, HistoryFresh,
         NumberHolds
    <3>2. CASE chosen[p].op # "delete"
      BY <1>9, <2>1, <3>2 DEF DropLegacy, DeletionInv, HistoryFresh
    <3> QED
      BY <3>1, <3>2
  <2>3. Fresh(current)' /\ Fresh(NoTargets)'
    BY <2>1, <2>2 DEF Fresh, NoTargets, DeletionInv, HistoryFresh
  <2>4. HistoryFresh'
    BY <2>1, <2>2, <2>3, OnlyOneReturns DEF HistoryFresh, Fresh
  <2> QED
    BY <2>1, <2>4, OnlyOneReturns DEF DeletionInv
<1> QED
  BY <1>1, <1>2, <1>3, <1>4, <1>5, <1>6, <1>7, <1>8, <1>9

LEMMA DeletionStarts == RecentInit => DeletionInv
  BY RecentTypesStart, TypedHistory, TopIsNat DEF RecentTyped, HistoryTyped, RecentInit,
     DeletionInv, HistoryFresh, ReadIsCurrent, NumberHolds,
     WrittenIsCurrent, Fresh, NoTargets, NoChoice

\* deleteRecentTarget (recent_targets.go:159): with one program, and an old
\* file that can be removed, an entry reported as deleted is in neither file
\* until it is used again, whatever was interrupted before or after.
THEOREM DeletionHolds ==
  ASSUME NEW q, Programs = {q}, LegacyRemovable
  PROVE  RecentSpec => []DeletedStaysAway
<1>1. RTypeOK /\ DeletionInv /\ UNCHANGED recentVars => DeletionInv'
  BY DEF DeletionInv, recentVars, historyFiles, HistoryFresh, ReadIsCurrent, NumberHolds,
     WrittenIsCurrent, Fresh, Entries, Position
<1>2. RTypeOK /\ DeletionInv => DeletedStaysAway
  BY MergeFresh DEF DeletionInv, HistoryFresh, Fresh, DeletedStaysAway
<1> QED
  BY <1>1, <1>2, DeletionStarts, DeletionStep, HistoryTypeCorrect, PTL DEF RecentSpec

-----------------------------------------------------------------------------
(* The profiles, for any number of them: no secret is left in the          *)
(* credential store that the menu cannot delete.                           *)

\* What an action holds since it loaded the file is still what the file holds.
LoadedIsStore == trafficStep \in {"refresh", "delete"} => loaded = store /\ ~unreadable

\* Only a provider's profile is configured.
ConfiguresProvider == trafficStep = "configure" => about \subseteq Providers

SecretsInv == TTypeOK /\ LoadedIsStore /\ ConfiguresProvider /\ SecretsListed

LEMMA SecretsStart == TrafficInit => SecretsInv
  BY DEF TrafficInit, SecretsInv, TTypeOK, LoadedIsStore, ConfiguresProvider,
         SecretsListed

LEMMA SecretsStep == SecretsInv /\ [TrafficNext]_trafficVars => SecretsInv'
<1> SUFFICES ASSUME SecretsInv, [TrafficNext]_trafficVars PROVE SecretsInv'
  OBVIOUS
<1> USE DEF SecretsInv, TTypeOK, LoadedIsStore, ConfiguresProvider, SecretsListed, Ids
<1>1. ASSUME NEW i \in Ids, ConfigureWritesSecret(i) PROVE SecretsInv'
  BY <1>1 DEF ConfigureWritesSecret, HasSecret
<1>2. ASSUME NEW i \in Ids, RefreshLoads(i) PROVE SecretsInv'
  BY <1>2 DEF RefreshLoads
<1>3. ASSUME NEW i \in Ids, DeleteSecret(i) PROVE SecretsInv'
  BY <1>3 DEF DeleteSecret
<1>4. ASSUME NEW which \in SUBSET Providers, DeleteLoads(which) PROVE SecretsInv'
  BY <1>4 DEF DeleteLoads
<1>5. ASSUME ConfigureSaves PROVE SecretsInv'
  BY <1>5 DEF ConfigureSaves, SaveProfiles, TrafficReturns
<1>6. ASSUME ConfigureFails PROVE SecretsInv'
  <2>1. store' = store /\ (unreadable' = unreadable \/ unreadable' = TRUE)
    BY <1>6 DEF ConfigureFails, SaveProfilesFails
  <2>2. stranded \cup about \subseteq Providers
    BY <1>6 DEF ConfigureFails
  <2>3. trafficStep = "configure" /\ trafficStep' = "idle" /\ about' = {} /\ loaded' = {}
    BY <1>6 DEF ConfigureFails, TrafficReturns
  <2>4. \/ secrets' = secrets \ about /\ stranded' = stranded
        \/ stranded' = stranded \cup about /\ secrets' = secrets
    BY <1>6 DEF ConfigureFails
  <2> QED
    BY <2>1, <2>2, <2>3, <2>4
<1>7. ASSUME RefreshSaves PROVE SecretsInv'
  BY <1>7 DEF RefreshSaves, SaveProfiles, TrafficReturns
<1>8. ASSUME DeleteSaves PROVE SecretsInv'
  BY <1>8 DEF DeleteSaves, SecretsGone, SaveProfiles, TrafficReturns
<1>9. ASSUME TrafficActionFails PROVE SecretsInv'
  BY <1>9 DEF TrafficActionFails, SaveProfilesFails, TrafficReturns
<1>10. ASSUME TrafficKilled PROVE SecretsInv'
  BY <1>10 DEF TrafficKilled, TrafficReturns
<1>11. ASSUME UNCHANGED trafficVars PROVE SecretsInv'
  BY <1>11 DEF trafficVars
<1> QED
  BY <1>1, <1>2, <1>3, <1>4, <1>5, <1>6, <1>7, <1>8, <1>9, <1>10, <1>11 DEF TrafficNext

\* What is stored, what an action holds and what it is about are profiles.
THEOREM TrafficTypeCorrect == TrafficSpec => []TTypeOK
<1>1. SecretsInv => TTypeOK
  BY DEF SecretsInv
<1> QED
  BY <1>1, SecretsStart, SecretsStep, PTL DEF TrafficSpec

\* configureProviderProfile, deleteProviderProfile: whichever write of the
\* profiles or of a secret fails, and wherever the program is killed, a
\* readable file lists every secret but those of a configuration that was cut.
THEOREM NoLostSecret == TrafficSpec => []SecretsListed
<1>1. SecretsInv => SecretsListed
  BY DEF SecretsInv
<1> QED
  BY <1>1, SecretsStart, SecretsStep, PTL DEF TrafficSpec

-----------------------------------------------------------------------------
(* The run of MCMenus.                                                     *)

\* MCMenus: with one part running at a time, every part behaves as its own
\* specification says, so that what is proved of a part holds of the whole.
THEOREM MenusRunParts ==
  MCSpec => /\ KeysSpec /\ RebindSpec /\ CredentialsSpec
            /\ ProxySpec /\ RecentSpec /\ TrafficSpec
<1> USE DEF MCInit, MCNext, KeysPart, RebindPart, CredentialsPart, ProxyPart, RecentPart,
            TrafficPart
<1> DEFINE all == <<part, keysVars, rebindVars, credentialVars, proxyVars, recentVars, trafficVars>>
<1>1. MCInit => /\ KeysInit /\ RebindInit /\ CredentialsInit
                /\ ProxyInit /\ RecentInit /\ TrafficInit
  OBVIOUS
<1>2. [MCNext]_all => [KeysNext]_keysVars
  OBVIOUS
<1>3. [MCNext]_all => [RebindNext]_rebindVars
  OBVIOUS
<1>4. [MCNext]_all => [CredentialsNext]_credentialVars
  OBVIOUS
<1>5. [MCNext]_all => [ProxyNext]_proxyVars
  OBVIOUS
<1>6. [MCNext]_all => [RecentNext]_recentVars
  OBVIOUS
<1>7. [MCNext]_all => [TrafficNext]_trafficVars
  OBVIOUS
<1> QED
  BY <1>1, <1>2, <1>3, <1>4, <1>5, <1>6, <1>7, PTL
     DEF MCSpec, KeysSpec, RebindSpec, CredentialsSpec, ProxySpec, RecentSpec, TrafficSpec

\* The menus keep their types side by side.
THEOREM MenusTypeCorrect == MCSpec => []MenusTypeOK
<1>1. KTypeOK /\ BTypeOK /\ NTypeOK /\ PTypeOK /\ RTypeOK /\ TTypeOK => MenusTypeOK
  BY DEF MenusTypeOK
<1> QED
  BY <1>1, MenusRunParts, KeysTypeCorrect, RebindTypeCorrect, CredentialsTypeCorrect,
     ProxyTypeCorrect, HistoryTypeCorrect, TrafficTypeCorrect, PTL
=============================================================================
