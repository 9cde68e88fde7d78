------------------------------- MODULE Ss2022 -------------------------------
(***************************************************************************)
(* The SS2022 service of a node (23-ss2022-tcp.sh): the allowlist of exact *)
(* addresses, the chain of packet filter rules that enforces it, the       *)
(* helper that rebuilds the chain for the script and for systemd under a   *)
(* lock of its own, and the menus of local programs that view and change   *)
(* the list (local_network.go, [19] and [24]), set the service up ([1] and *)
(* the repair) or remove it ([18]).                                        *)
(*                                                                         *)
(* The script refuses to run twice at a time.  It may be cut before any    *)
(* step; a helper it has started then goes on by itself.  The install      *)
(* transaction around menu [1] (28a) takes no lock of the script: its      *)
(* snapshot and its rollback run beside whatever the script does.          *)
(***************************************************************************)
EXTENDS Naturals

CONSTANTS
  Sources,   \* exact public addresses
  NoChain    \* no rule sends the traffic of the port to the chain

ASSUME Ss2022Assumption == \A s \in SUBSET Sources : NoChain # s

VARIABLES
  listed,     \* allowlist.txt
  stored,     \* which of server.json and service.env exist
  service,    \* "absent", "stopped", "starting", "active"
  chain,      \* the sources that the chain in force accepts, or NoChain
  helpers,    \* what the helper does for the script and for systemd
  operation,  \* the script that holds the lock
  manager,    \* the local program
  display,    \* the list that the menu shows, or NothingShown
  kept,       \* the install transaction: its snapshot and the stage of its rollback
  shutOut,    \* history: sources whose removal was reported
  unsettled   \* history: since the last whole state a removal has begun, or a set-up
              \* or removal has run without the protection of a snapshot

ssVars == <<listed, stored, service, chain, helpers, operation, manager, display,
            kept, shutOut, unsettled>>
service2022 == <<listed, stored, service, chain, helpers>>
told2022 == <<shutOut, unsettled>>

StoredFiles == {"config", "meta"}
Partial2022 == stored \notin {{}, StoredFiles}
Workers == {"script", "systemd"}
Resting == [stage |-> "idle", read |-> {}]
\* "overtaken" is history: a rollback brought the files back while the script
\* was at work.
NoOperation == [pc |-> "none", kind |-> "none", source |-> {}, before |-> {},
                waits |-> FALSE, overtaken |-> FALSE]
NothingShown == NoChain
AtMainMenu == [pc |-> "menu", kind |-> "none", source |-> {}, answer |-> "none"]
NothingKept == [taken |-> FALSE]
\* A rollback that ends early starts from its beginning the next time.
RollBackEnds == kept' = IF kept.taken THEN [kept EXCEPT !.stage = "held"] ELSE kept

-----------------------------------------------------------------------------
(* The helper: builds the next chain from the file, takes the chain in     *)
(* force away, and puts the next one in its place.                         *)

HelperUnlocked == TRUE
HelperFree == \A w \in Workers : helpers[w] = Resting
HelperStarts(w) ==
  /\ HelperFree /\ "meta" \in stored
  /\ helpers' = [helpers EXCEPT ![w] = [stage |-> "built", read |-> listed]]

HelperSwaps(w) ==
  /\ helpers[w].stage = "built"
  /\ chain' = NoChain /\ helpers' = [helpers EXCEPT ![w].stage = "swapped"]
  /\ UNCHANGED <<listed, stored, service, operation, manager, display, kept, told2022>>

HelperInserts(w) ==
  /\ helpers[w].stage = "swapped"
  /\ chain' = helpers[w].read /\ helpers' = [helpers EXCEPT ![w] = Resting]
  /\ service' = IF w = "systemd" /\ service = "starting" THEN "active" ELSE service
  /\ UNCHANGED <<listed, stored, operation, manager, display, kept, told2022>>

\* A rule cannot be changed; the script, if it waits, learns of it.
HelperFails(w) ==
  /\ helpers[w] # Resting
  /\ helpers' = [helpers EXCEPT ![w] = Resting]
  /\ operation' = IF w = "script" /\ operation.pc = "applying"
                  THEN [operation EXCEPT !.pc = "apply failed"] ELSE operation
  /\ UNCHANGED <<listed, stored, service, chain, manager, display, kept, told2022>>

\* verify, which like apply and remove reads the port from service.env first.
Enforced == HelperFree /\ "meta" \in stored /\ chain = listed

-----------------------------------------------------------------------------
(* systemd: the chain is applied before the service starts and removed     *)
(* after it ends, where service.env tells the port.                        *)

ChainRemoved == chain' = IF "meta" \in stored THEN NoChain ELSE chain

\* Stopping ends systemd's own helper first; the removal of the chain gives up
\* where the script's helper keeps the lock.
Stops2022(s) ==
  /\ helpers["systemd"] = Resting
  /\ service' = s
  /\ IF service \in {"active", "starting"} /\ HelperFree THEN ChainRemoved
     ELSE UNCHANGED chain

ServiceStarts ==
  /\ service = "starting" /\ HelperStarts("systemd")
  /\ UNCHANGED <<listed, stored, service, chain, operation, manager, display, kept, told2022>>

ServiceCrashes ==
  /\ service = "active" /\ HelperFree
  /\ service' = "starting" /\ ChainRemoved
  /\ UNCHANGED <<listed, stored, helpers, operation, manager, display, kept, told2022>>

NodeReboots ==
  /\ chain' = NoChain /\ helpers' = [w \in Workers |-> Resting]
  /\ service' = IF service = "absent" THEN service ELSE "starting"
  /\ operation' = NoOperation /\ manager' = AtMainMenu /\ display' = NothingShown
  /\ RollBackEnds /\ UNCHANGED <<listed, stored, told2022>>

-----------------------------------------------------------------------------
(* The script.                                                             *)

RunsAt(kind, pc) == operation.kind = kind /\ operation.pc = pc
GoesOn(pc) == operation' = [operation EXCEPT !.pc = pc]
Changes == {"allow", "remove"}

\* What the program does with an answer: an entry of the menu is left after a
\* failure, whatever was asked for (menu [1] rolls back), and after its last
\* request; a view of the list leads to its entries.
Leaves2022 == manager' = AtMainMenu /\ display' = NothingShown
LastRequests == {"observed", "repair", "dismantle"}
Entered(a) ==
  IF a # "ok" THEN [manager EXCEPT !.answer = a]
  ELSE IF manager.pc = "view" THEN [AtMainMenu EXCEPT !.pc = "entries"]
  ELSE [AtMainMenu EXCEPT !.pc = manager.pc, !.answer = "ok"]
Hears2022(a) ==
  IF \/ a = "failed" /\ manager.pc # "construct"
     \/ a = "ok" /\ manager.pc \in LastRequests
  THEN Leaves2022 ELSE manager' = Entered(a) /\ UNCHANGED display

\* The answer may be lost on its way to the program that waits for it.
Reports(answer) ==
  /\ operation' = NoOperation
  /\ IF operation.waits THEN \E a \in {answer, "lost"} : Hears2022(a)
     ELSE UNCHANGED <<manager, display>>

Changed == IF operation.kind = "allow" THEN listed \cup operation.source
           ELSE listed \ operation.source
InstallsList ==
  /\ operation.kind \in Changes /\ operation.pc = "begin" /\ "meta" \in stored
  /\ listed' = Changed
  /\ operation' = [operation EXCEPT !.pc = "apply", !.before = listed]
  /\ shutOut' = IF operation.kind = "allow" THEN shutOut \ operation.source ELSE shutOut
  /\ UNCHANGED <<stored, service, chain, helpers, manager, display, kept, unsettled>>

RefusesChange ==
  /\ operation.kind \in Changes /\ operation.pc = "begin" /\ "meta" \notin stored
  /\ Reports("failed")
  /\ UNCHANGED <<service2022, kept, told2022>>

StartsHelper ==
  /\ operation.pc \in {"apply", "reapply"} /\ HelperStarts("script")
  /\ GoesOn(IF operation.pc = "apply" THEN "applying" ELSE "reapplying")
  /\ UNCHANGED <<listed, stored, service, chain, manager, display, kept, told2022>>

HelperDone ==
  /\ operation.pc = "applying" /\ helpers["script"] = Resting /\ GoesOn("verify")
  /\ UNCHANGED <<service2022, manager, display, kept, told2022>>

\* The set-up also demands that the service is running.
Verified == Enforced /\ (operation.kind = "ensure" => service = "active")
Verifies ==
  /\ operation.pc = "verify" /\ Verified /\ GoesOn("handoff")
  /\ UNCHANGED <<service2022, manager, display, kept, told2022>>

\* The helper fails, its lock is not released in time, service.env is gone, or
\* the chain differs.
HelperRefuses == ~HelperFree \/ "meta" \notin stored
ApplyFailed ==
  \/ operation.pc = "apply failed"
  \/ operation.pc = "apply" /\ HelperRefuses
  \/ operation.pc = "verify" /\ ~Verified
\* The former list is installed where the directory is still there.
UndoesChange ==
  /\ operation.kind \in Changes /\ ApplyFailed
  /\ listed' = IF stored = {} THEN listed ELSE operation.before
  /\ GoesOn("reapply")
  /\ UNCHANGED <<stored, service, chain, helpers, manager, display, kept, told2022>>

ChangeUndone ==
  /\ \/ operation.pc = "reapplying" /\ helpers["script"] = Resting
     \/ operation.pc = "reapply" /\ HelperRefuses
  /\ Reports("failed") /\ UNCHANGED <<service2022, kept, told2022>>

\* The password is read from the configuration.  The public address may be
\* unavailable: the change stays and is reported as failed.
SetUpWhole == operation.kind = "ensure" /\ stored = StoredFiles /\ ~kept.taken
WritesHandoff ==
  /\ operation.pc = "handoff"
  /\ \/ /\ "config" \in stored /\ Reports("ok")
        /\ shutOut' = IF operation.kind = "remove" /\ ~operation.overtaken
                      THEN shutOut \cup operation.source ELSE shutOut
        /\ unsettled' = (unsettled /\ ~SetUpWhole)
     \/ Reports("failed") /\ UNCHANGED told2022
  /\ UNCHANGED <<service2022, kept>>

HealthyWithoutRules == stored = StoredFiles /\ service = "active"
Healthy == stored = StoredFiles /\ service = "active" /\ Enforced
ReadsStatus ==
  /\ operation.kind \in {"status", "snapshot"} /\ operation.pc = "begin"
  /\ IF ~Healthy THEN Reports("failed")
     ELSE IF operation.kind = "status" THEN Reports("ok")
     ELSE GoesOn("list") /\ UNCHANGED <<manager, display>>
  /\ UNCHANGED <<service2022, kept, told2022>>

ListsSources ==
  /\ operation.pc = "list" /\ operation' = NoOperation
  /\ IF operation.waits
     THEN \/ manager' = Entered("ok") /\ display' = listed
          \/ Hears2022("lost")
     ELSE UNCHANGED <<manager, display>>
  /\ UNCHANGED <<service2022, kept, told2022>>

-----------------------------------------------------------------------------
(* Setting up.                                                             *)

EnsureRefused ==
  /\ RunsAt("ensure", "begin") /\ Partial2022 /\ Reports("failed")
  /\ UNCHANGED <<service2022, kept, told2022>>

GeneratesConfig ==
  /\ RunsAt("ensure", "begin") /\ ~Partial2022
  /\ stored' = stored \cup {"config"} /\ GoesOn("meta")
  /\ UNCHANGED <<listed, service, chain, helpers, manager, display, kept, told2022>>

WritesMetadata ==
  /\ RunsAt("ensure", "meta") /\ "config" \in stored
  /\ stored' = stored \cup {"meta"} /\ GoesOn("unit")
  /\ UNCHANGED <<listed, service, chain, helpers, manager, display, kept, told2022>>

EnablesService ==
  /\ RunsAt("ensure", "unit")
  /\ service' = IF service = "active" THEN "active" ELSE "starting"
  /\ GoesOn("apply")
  /\ UNCHANGED <<listed, stored, chain, helpers, manager, display, kept, told2022>>

\* Also where the configuration is gone that was just written.
EnsureFails ==
  /\ operation.kind = "ensure" /\ Reports("failed")
  /\ \/ ApplyFailed
     \/ operation.pc = "meta" /\ "config" \notin stored
  /\ UNCHANGED <<service2022, kept, told2022>>

-----------------------------------------------------------------------------
(* Removing: the service and its chain, the unit, then the files.          *)

StopsService ==
  /\ RunsAt("purge", "begin") /\ HelperFree
  /\ service' = "absent" /\ ChainRemoved /\ GoesOn("purge")
  /\ unsettled' = TRUE
  /\ UNCHANGED <<listed, stored, helpers, manager, display, kept, shutOut>>

RemovesFile ==
  /\ RunsAt("purge", "purge")
  /\ \/ listed # {} /\ listed' = {} /\ UNCHANGED stored
     \/ \E f \in stored : stored' = stored \ {f} /\ UNCHANGED listed
  /\ UNCHANGED <<service, chain, helpers, operation, manager, display, kept, told2022>>

Purged ==
  /\ RunsAt("purge", "purge") /\ listed = {} /\ stored = {}
  /\ Reports("ok") /\ unsettled' = kept.taken
  /\ UNCHANGED <<service2022, kept, shutOut>>

-----------------------------------------------------------------------------
(* The local programs.  Another one may run the script as well; its only   *)
(* trace is that of the script.                                            *)

Begins(kind, s, waits) ==
  operation' = [pc |-> "begin", kind |-> kind, source |-> s, before |-> {},
                waits |-> waits, overtaken |-> FALSE]

\* The script refuses to run while another one holds its lock.
Asks(kind, s, pc) ==
  IF operation = NoOperation
  THEN /\ Begins(kind, s, TRUE)
       /\ manager' = [pc |-> pc, kind |-> kind, source |-> s, answer |-> "none"]
       /\ UNCHANGED display
  ELSE /\ IF pc = "construct"
          THEN /\ manager' = [pc |-> pc, kind |-> kind, source |-> s, answer |-> "failed"]
               /\ UNCHANGED display
          ELSE Leaves2022
       /\ UNCHANGED operation
Heard(pc, answer) == manager.pc = pc /\ manager.answer = answer
Displays(pc) == manager' = [AtMainMenu EXCEPT !.pc = pc] /\ UNCHANGED <<operation, display>>
Elsewhere == UNCHANGED <<service2022, kept, told2022>>

\* Menu [24] shows the list first, and again after every change.
OpenEntries ==
  /\ manager = AtMainMenu /\ Asks("snapshot", {}, "view") /\ Elsewhere
AddEntry ==
  /\ manager.pc = "entries"
  /\ \E s \in Sources : Asks("allow", {s}, "change")
  /\ Elsewhere
\* Also for a look at the list alone.
ListForRemoval ==
  /\ manager.pc = "entries" /\ Asks("snapshot", {}, "removal") /\ Elsewhere
ChooseRemoval ==
  /\ Heard("removal", "ok")
  /\ \/ Displays("entries")
     \/ \E s \in Sources : s \in display /\ Asks("remove", {s}, "change")
  /\ Elsewhere
ChangeConfirmed == Heard("change", "ok") /\ Asks("snapshot", {}, "view") /\ Elsewhere
CloseEntries ==
  /\ manager.pc = "entries" /\ Leaves2022 /\ UNCHANGED operation /\ Elsewhere

\* Menu [19]: status, then the address the node sees; the status read after
\* the change only decides what is printed.
OpenOneShot ==
  /\ manager = AtMainMenu /\ Asks("status", {}, "one-shot") /\ Elsewhere
AddObserved ==
  /\ Heard("one-shot", "ok")
  /\ \/ \E s \in Sources : Asks("allow", {s}, "observed")
     \/ Leaves2022 /\ UNCHANGED operation
  /\ Elsewhere

\* The repair sets the service up again where it knows of one.
Repair ==
  /\ manager = AtMainMenu /\ "meta" \in stored /\ Asks("ensure", {}, "repair") /\ Elsewhere

Dismantle2022 ==
  /\ manager = AtMainMenu /\ ~kept.taken /\ Asks("purge", {}, "dismantle") /\ Elsewhere

\* runCaptured: the connection went with the answer; the request is repeated.
\* The repair looks again whether there is a service to set up.
Resends ==
  /\ manager.answer = "lost" /\ Elsewhere
  /\ IF manager.pc = "repair" /\ "meta" \notin stored THEN Leaves2022 /\ UNCHANGED operation
     ELSE Asks(manager.kind, manager.source, manager.pc)

\* The time limit of a captured command; the script goes on for nobody.
GivesUpWaiting ==
  /\ operation.waits /\ operation' = [operation EXCEPT !.waits = FALSE]
  /\ Hears2022("failed") /\ Elsewhere

SomebodyElse ==
  /\ operation = NoOperation
  /\ \E k \in Changes, s \in Sources : Begins(k, {s}, FALSE)
  /\ UNCHANGED <<manager, display>> /\ Elsewhere

\* The installer of a program that has given up, or has ended, comes to this
\* service when nobody waits for it any more, and no snapshot may be left.
WizardLeftBehind ==
  /\ operation = NoOperation /\ Begins("ensure", {}, FALSE) /\ unsettled' = TRUE
  /\ UNCHANGED <<service2022, manager, display, kept, shutOut>>

ScriptCut ==
  /\ operation # NoOperation /\ operation' = NoOperation
  /\ IF operation.waits THEN Hears2022("failed") ELSE UNCHANGED <<manager, display>>
  /\ Elsewhere

-----------------------------------------------------------------------------
(* Menu [1]: the set-up inside the install transaction.  The installer     *)
(* comes to this service some time after the snapshot.                     *)

\* is-active is false of a service that is still starting.
KeptNow == [taken |-> TRUE, listed |-> listed, stored |-> stored, stage |-> "held",
            service |-> IF service = "starting" THEN "stopped" ELSE service]
WritesBeside == operation.kind \in {"ensure", "purge"}
StartConstruction2022 ==
  /\ manager = AtMainMenu /\ ~kept.taken
  /\ kept' = KeptNow /\ Displays("begun") /\ unsettled' = (unsettled \/ WritesBeside)
  /\ UNCHANGED <<service2022, shutOut>>

SetsUp2022 == manager.pc = "begun" /\ Asks("ensure", {}, "construct") /\ Elsewhere

CommitConstruction2022 ==
  /\ Heard("construct", "ok") /\ kept' = NothingKept /\ Leaves2022 /\ UNCHANGED operation
  /\ unsettled' = (unsettled /\ ~(stored = StoredFiles /\ operation = NoOperation))
  /\ UNCHANGED <<service2022, shutOut>>

-----------------------------------------------------------------------------
(* The rollback of 28a: all services are stopped, the files come back, and *)
(* the services that were running are started.  It goes on by itself; the  *)
(* menus that are opened meanwhile are those of another program.           *)

\* The program's own rollback, after any stage of the installer, or that of a
\* later program.
RollBackStops2022 ==
  /\ kept.taken /\ kept.stage = "held"
  /\ \/ manager = AtMainMenu \/ manager.pc = "begun"
     \/ manager.pc = "construct" /\ manager.answer # "none"
  /\ Stops2022(IF service = "absent" THEN "absent" ELSE "stopped")
  /\ kept' = [kept EXCEPT !.stage = "stopped"] /\ manager' = AtMainMenu
  /\ UNCHANGED <<listed, stored, helpers, operation, display, told2022>>

RestoresEverything2022 == stored' = stored /\ listed' = listed
RestoresFiles2022 == stored' = kept.stored /\ listed' = kept.listed

\* Removals since the snapshot are undone as well.  start does nothing to a
\* service that a script has started meanwhile.  Where another path or service
\* fails, the transaction is left for the next attempt.
RollBackRestores2022 ==
  /\ kept.taken /\ kept.stage = "stopped"
  /\ RestoresFiles2022
  /\ operation' = IF operation.kind \in {"remove", "snapshot"} /\ operation.pc # "begin"
                  THEN [operation EXCEPT !.overtaken = TRUE] ELSE operation
  /\ IF kept.service = "active"
     THEN service' = (IF service = "active" THEN service ELSE "starting") /\ UNCHANGED chain
     ELSE Stops2022(kept.service)
  /\ kept' = NothingKept \/ RollBackEnds
  /\ shutOut' = {} /\ unsettled' = (unsettled \/ WritesBeside)
  /\ UNCHANGED <<helpers, manager, display>>

RollBackCut2022 ==
  /\ kept.taken /\ kept.stage = "stopped" /\ RollBackEnds
  /\ UNCHANGED <<service2022, operation, manager, display, told2022>>

ProgramKilled2022 ==
  /\ manager # AtMainMenu /\ manager' = AtMainMenu /\ display' = NothingShown
  /\ operation' = [operation EXCEPT !.waits = FALSE] /\ Elsewhere

-----------------------------------------------------------------------------

SsInit ==
  /\ listed = {} /\ stored = {} /\ service = "absent" /\ chain = NoChain
  /\ helpers = [w \in Workers |-> Resting] /\ operation = NoOperation
  /\ manager = AtMainMenu /\ display = NothingShown /\ kept = NothingKept
  /\ shutOut = {} /\ unsettled = FALSE

SsNext ==
  \/ \E w \in Workers : HelperSwaps(w) \/ HelperInserts(w) \/ HelperFails(w)
  \/ ServiceStarts \/ ServiceCrashes \/ NodeReboots
  \/ InstallsList \/ RefusesChange \/ StartsHelper \/ HelperDone \/ Verifies
  \/ UndoesChange \/ ChangeUndone \/ WritesHandoff \/ ReadsStatus \/ ListsSources
  \/ EnsureRefused \/ GeneratesConfig \/ WritesMetadata \/ EnablesService \/ EnsureFails
  \/ StopsService \/ RemovesFile \/ Purged
  \/ OpenEntries \/ AddEntry \/ ListForRemoval \/ ChooseRemoval
  \/ ChangeConfirmed \/ CloseEntries \/ OpenOneShot \/ AddObserved
  \/ Repair \/ Dismantle2022 \/ Resends
  \/ GivesUpWaiting \/ SomebodyElse \/ WizardLeftBehind \/ ScriptCut
  \/ StartConstruction2022 \/ SetsUp2022 \/ CommitConstruction2022
  \/ RollBackStops2022 \/ RollBackRestores2022 \/ RollBackCut2022
  \/ ProgramKilled2022

SsSpec == SsInit /\ [][SsNext]_ssVars

-----------------------------------------------------------------------------
Services2022 == {"absent", "stopped", "starting", "active"}
Operations ==
  [pc : {"none", "begin", "apply", "applying", "apply failed", "reapply", "reapplying",
         "verify", "handoff", "list", "meta", "unit", "purge"},
   kind : {"none", "allow", "remove", "status", "snapshot", "ensure", "purge"},
   source : SUBSET Sources, before : SUBSET Sources, waits : BOOLEAN, overtaken : BOOLEAN]
Managers ==
  [pc : {"menu", "view", "entries", "change", "removal", "one-shot", "observed",
         "repair", "dismantle", "begun", "construct"},
   kind : {"none", "allow", "remove", "status", "snapshot", "ensure", "purge"},
   source : SUBSET Sources, answer : {"none", "ok", "failed", "lost"}]
Snapshots2022 ==
  [taken : {TRUE}, listed : SUBSET Sources, stored : SUBSET StoredFiles,
   service : Services2022, stage : {"held", "stopped"}]

\* Type invariant of the service and its menus.
SsTypeOK ==
  /\ listed \subseteq Sources /\ shutOut \subseteq Sources
  /\ display = NothingShown \/ display \subseteq Sources
  /\ stored \subseteq StoredFiles /\ service \in Services2022
  /\ chain = NoChain \/ chain \subseteq Sources
  /\ helpers \in [Workers -> [stage : {"idle", "built", "swapped"}, read : SUBSET Sources]]
  /\ operation \in Operations /\ manager \in Managers
  /\ kept = NothingKept \/ kept \in Snapshots2022
  /\ unsettled \in BOOLEAN

\* remove_source: a source whose removal was reported is not admitted again,
\* whichever helper of the script or of systemd runs late and whatever runs
\* beside it, until somebody allows it or a rollback brings back the list of
\* its snapshot.  A removal that such a rollback overtakes, between the change
\* of the list and the report, is undone although it is then reported.
RemovedStaysOut == chain # NoChain => chain \cap shutOut = {}

\* showSS2022Allowlist (local_network.go:434): the list shown to the operator
\* is the one the packet filter enforces, whatever changes meanwhile, or the
\* filter has just been taken away with the service; except where a rollback
\* brings the files back between the check and the output.
ShownIsEnforced ==
  [][display' \notin {display, NothingShown} /\ ~operation.overtaken
       => chain \in {display', NoChain}]_ssVars

\* ensure_service refuses a configuration without metadata and the reverse:
\* wherever a script, a rollback or a program is cut, such a state is left only
\* where a rollback or the rest of a removal is still to come, or where a set-up
\* or removal ran beside the snapshot or the rollback, or for an installer left
\* behind.
PartialIsRecoverable ==
  Partial2022 /\ operation = NoOperation => kept.taken \/ unsettled
=============================================================================
