------------------------------ MODULE SshKeys ------------------------------
(***************************************************************************)
(* SSH logins of the local program for one VPS and user: temporary keys    *)
(* with their promotion and revocation, the managed key with its rotation, *)
(* unbinding, archiving and restoration, control masters, the panel tunnel *)
(* and the shutdown by a signal (remote.go, operations.go, main.go).       *)
(*                                                                         *)
(* A connection is named by its temporary key, or Managed.  Every contact  *)
(* with the VPS may fail, also after it has had its effect.  The handler   *)
(* of a signal cleans up while the action goes on, and ends the program    *)
(* after 15 seconds at the latest.                                         *)
(***************************************************************************)
EXTENDS Naturals, FiniteSets

CONSTANTS MaxKeys   \* bound on the keys ever generated

ASSUME SshKeysAssumption == MaxKeys \in Nat \ {0}

VARIABLES
  \* on the VPS and on the local disk
  authorized,         \* keys in authorized_keys
  cutShort,               \* that file was cut while a line was removed
  temps,              \* temporary directories with their private key
  priv, pub,          \* the pair in the managed directory, 0 if absent
  spare,              \* private keys there as .new and .bak files
  backups,            \* recoverable backups: pairs [priv, pub]
  \* in the program
  pc,                 \* where the main goroutine is
  failed,             \* the action returns an error
  action, active, heldPanel,   \* actionConnection, activeTemporary, heldPanelConnection
  installed, cleaned, \* flags of the TemporaryAuth of each temporary key
  masters,            \* connections with a control master
  tunnel,             \* the connection with a panel forward, None if none
  ignored,            \* runRemoteAction forgets to close the master
  purpose,                \* what the action or the menu is doing
  key, old,           \* keys that the action works on
  oldVerified,        \* rotateSSHKey: the old key still works
  cleaning,           \* cleanupTemporaryConnection, which holds a mutex
  signal,             \* where the shutdown is, "none" without one
  child,              \* ssh process that installs a key, 0 if none
  \* history
  generated,          \* number of keys generated
  confirmed,          \* keys reported as installed, without a shutdown
  bound               \* keys that have been the managed key

localDisk == <<temps, priv, pub, spare, backups>>
vps == <<authorized, cutShort>>
pointers == <<action, active, heldPanel>>
authFlags == <<installed, cleaned>>
ssh == <<masters, tunnel>>
work == <<purpose, key, old, oldVerified, ignored>>
history == <<generated, confirmed, bound>>
shutdown == <<cleaning, signal>>
keysVars == <<vps, localDisk, pc, failed, pointers, authFlags, ssh, work, shutdown,
          child, history>>

Keys == 1..MaxKeys
None == 0
Managed == MaxKeys + 1
Connections == Keys \cup {Managed}
NotCleaning == [by |-> "nobody", key |-> None, step |-> "none"]
KeyPairs == [priv : Keys \cup {None}, pub : Keys \cup {None}]

\* Private keys that are somewhere on the local disk.
ManagedSide == ({priv} \cup spare \cup {b.priv : b \in backups}) \ {None}
OnDisk == temps \cup ManagedSide

KeysInit ==
  /\ priv \in {None, 1} /\ pub = priv
  /\ authorized \in {{}, {priv} \ {None}} /\ cutShort = FALSE
  /\ temps = {} /\ spare = {} /\ backups = {}
  /\ pc = "menu" /\ failed = FALSE
  /\ action = None /\ active = None /\ heldPanel = None
  /\ installed = {} /\ cleaned = {}
  /\ masters = {} /\ tunnel = None /\ ignored = FALSE
  /\ purpose = "login" /\ key = None /\ old = None /\ oldVerified = FALSE
  /\ cleaning = NotCleaning /\ signal = "none" /\ child = None
  /\ generated = priv /\ confirmed = {} /\ bound = {priv} \ {None}

\* killTunnels: the forward is cancelled at its master.
KillTunnelsLater == UNCHANGED tunnel
KillTunnels == tunnel' = None

Moves(from, to) == pc = from /\ pc' = to
FailsFrom(from) == pc \in from /\ pc' = "ending" /\ failed' = TRUE

-----------------------------------------------------------------------------
\* getActionConnection, authenticateActionConnection

\* A new directory for a one-time key; the session replaces the one that
\* the shutdown would clean up.
NewTemporary(goal) ==
  /\ generated < MaxKeys /\ cleaning.by = "nobody"
  /\ generated' = generated + 1
  /\ key' = generated + 1 /\ temps' = temps \cup {generated + 1}
  /\ action' = generated + 1 /\ active' = generated + 1
  /\ purpose' = goal
  /\ UNCHANGED heldPanel

ChooseTemporary ==
  /\ Moves("menu", "install") /\ failed' = FALSE /\ ignored' = FALSE
  /\ NewTemporary("login")
  /\ UNCHANGED <<vps, priv, pub, spare, backups, authFlags, ssh, old, oldVerified,
                 shutdown, child, confirmed, bound>>

\* The managed pair is complete: the host key is pinned and the key is tried
\* in a login of its own, which leaves the control master.
ChooseManaged ==
  /\ Moves("menu", "work") /\ failed' = FALSE /\ ignored' = FALSE
  /\ priv # None /\ pub = priv /\ priv \in authorized
  /\ action' = Managed /\ masters' = masters \cup {Managed}
  /\ UNCHANGED <<vps, localDisk, active, heldPanel, authFlags, tunnel, purpose, key, old, oldVerified,
                 shutdown, child, history>>

\* No pair, half a pair, or one that is rejected, which the user lets the
\* program move into the backups: one password login instead.
ArchiveForgets == backups
ArchivePair == IF <<priv, pub>> = <<None, None>> THEN backups
               ELSE backups \cup {[priv |-> priv, pub |-> pub]}

ChooseManagedAgain ==
  /\ Moves("menu", "install") /\ failed' = FALSE /\ ignored' = FALSE
  /\ pub = None \/ priv \notin authorized
  /\ backups' = ArchivePair /\ priv' = None /\ pub' = None
  /\ NewTemporary("login")
  /\ UNCHANGED <<vps, spare, authFlags, ssh, old, oldVerified, shutdown, child,
                 confirmed, bound>>

\* prepareTemporaryPasswordAuth and installPublicKey: ssh asks for the
\* password and appends the line, in a process of its own.
StartInstall ==
  /\ Moves("install", "installing") /\ child = None /\ child' = key
  /\ UNCHANGED <<vps, localDisk, failed, pointers, authFlags, ssh, work, shutdown, history>>

ChildAppends ==
  /\ child # None /\ authorized' = authorized \cup {child} /\ child' = None
  /\ UNCHANGED <<cutShort, localDisk, pc, failed, pointers, authFlags, ssh, work, shutdown, history>>

ChildFails ==
  /\ child # None /\ child' = None
  /\ UNCHANGED <<vps, localDisk, pc, failed, pointers, authFlags, ssh, work, shutdown, history>>

\* ssh reports success: Installed is set, then the key is verified by a
\* login of its own.
InstallAnswered ==
  /\ Moves("installing", "verifying") /\ child = None /\ key \in authorized
  /\ installed' = installed \cup {key}
  /\ confirmed' = IF signal = "none" THEN confirmed \cup {key} ELSE confirmed
  /\ UNCHANGED <<vps, localDisk, failed, pointers, cleaned, ssh, work, shutdown, child,
                 generated, bound>>

\* It reports a failure, whether or not the line has been appended.
InstallLost ==
  /\ FailsFrom({"installing"}) /\ child = None
  /\ UNCHANGED <<vps, localDisk, pointers, authFlags, ssh, work, shutdown, child, history>>

TemporaryVerified ==
  /\ Moves("verifying", IF purpose = "login" THEN "offer" ELSE "restoreInstall")
  /\ key \in authorized /\ key \in temps
  /\ masters' = masters \cup {key}
  /\ UNCHANGED <<vps, localDisk, failed, pointers, authFlags, tunnel, work, shutdown, child,
                 history>>

StaysTemporary ==
  /\ Moves("offer", "work")
  /\ UNCHANGED <<vps, localDisk, failed, pointers, authFlags, ssh, work, shutdown, child,
                 history>>

-----------------------------------------------------------------------------
\* promoteTemporaryConnection

\* It refuses to overwrite either half of a pair.
MayPromote == priv = None /\ pub = None /\ key \in installed \cap temps

PromotePrivate ==
  /\ Moves("offer", "promotePublic") /\ MayPromote
  /\ priv' = key
  /\ UNCHANGED <<vps, temps, pub, spare, backups, failed, pointers, authFlags, ssh, work,
                 shutdown, child, history>>

\* The public half and known_hosts; the password's master is closed, so that
\* the verification is a login with the managed key.
PromotePublic ==
  /\ Moves("promotePublic", "promoteVerify") /\ key \in temps
  /\ pub' = key /\ masters' = masters \ {key}
  /\ UNCHANGED <<vps, temps, priv, spare, backups, failed, pointers, authFlags, tunnel,
                 work, shutdown, child, history>>

PromotedVerified ==
  /\ Moves("promoteVerify", "promoteDone") /\ priv \in authorized
  /\ UNCHANGED <<vps, localDisk, failed, pointers, authFlags, ssh, work, shutdown, child,
                 history>>

\* The temporary session is marked as cleaned, since its key is now the
\* managed one, and becomes the managed session.
RebindsActive ==
  /\ installed' = installed \ {key} /\ cleaned' = cleaned \cup {key}
  /\ action' = Managed /\ active' = Managed
RebindsCopy == UNCHANGED <<installed, cleaned, action, active>>
Rebinds ==
  /\ installed' = installed \ {key} /\ cleaned' = cleaned \cup {key}
  /\ action' = Managed /\ active' = None

Promoted ==
  /\ Moves("promoteDone", "work") /\ cleaning.by = "nobody"
  /\ Rebinds
  /\ temps' \in {temps, temps \ {key}}
  /\ heldPanel' = IF heldPanel = key THEN Managed ELSE heldPanel
  /\ masters' = masters \cup {Managed}
  /\ bound' = bound \cup {key}
  /\ UNCHANGED <<vps, priv, pub, spare, backups, failed, tunnel, work, shutdown,
                 child, generated, confirmed>>

\* rollback() removes what was created.
PromoteFails ==
  /\ FailsFrom({"promotePublic", "promoteVerify"})
  /\ priv' = None /\ pub' = None
  /\ UNCHANGED <<vps, temps, spare, backups, pointers, authFlags, ssh, work, shutdown,
                 child, history>>

-----------------------------------------------------------------------------
\* What an action does with its connection.

WorkDone ==
  /\ Moves("work", "ending")
  /\ UNCHANGED <<vps, localDisk, failed, pointers, authFlags, ssh, work, shutdown, child,
                 history>>

\* Any step that needs the VPS, the disk or the user ends in an error.
WorkFails ==
  /\ FailsFrom({"install", "verifying", "offer", "work", "rotate", "rotate1", "rotate2",
           "rotate3", "rotate4", "rotateVerify"})
  /\ UNCHANGED <<vps, localDisk, pointers, authFlags, ssh, work, shutdown, child, history>>

\* openPanel: the forward belongs to the control master of the action.
OpenPanel ==
  /\ Moves("work", "ending") /\ action \in masters /\ tunnel = None
  /\ tunnel' = action /\ heldPanel' = action
  /\ UNCHANGED <<vps, localDisk, failed, action, active, authFlags, masters, work, shutdown,
                 child, history>>

-----------------------------------------------------------------------------
\* rotateSSHKey, with a managed key that was not bound just now

RotateStart ==
  /\ Moves("work", "rotate") /\ action = Managed /\ purpose # "rotate"
  /\ key = None /\ generated < MaxKeys /\ priv # None
  /\ oldVerified' \in {FALSE, (priv \in authorized)}
  /\ generated' = generated + 1 /\ key' = generated + 1 /\ old' = priv
  /\ spare' = spare \cup {generated + 1} /\ purpose' = "rotate"
  /\ UNCHANGED <<vps, temps, priv, pub, backups, failed, pointers, authFlags, ssh, ignored,
                 shutdown, child, confirmed, bound>>

\* The new key is installed with the old one, or with the password.
RotateInstall ==
  /\ pc = "rotate" /\ authorized' = authorized \cup {key}
  /\ \/ pc' = "rotate1" /\ UNCHANGED failed
     \/ pc' = "ending" /\ failed' = TRUE
  /\ confirmed' = IF pc' = "rotate1" THEN confirmed \cup {key} ELSE confirmed
  /\ UNCHANGED <<cutShort, localDisk, pointers, authFlags, ssh, work, shutdown, child, generated, bound>>

\* The old pair becomes .bak and the new one takes its place: four renames.
RotatePrivateAway ==
  /\ Moves("rotate1", "rotate2")
  /\ spare' = spare \cup {priv} /\ priv' = None
  /\ UNCHANGED <<vps, temps, pub, backups, failed, pointers, authFlags, ssh, work, shutdown,
                 child, history>>

RotatePublicAway ==
  /\ Moves("rotate2", "rotate3") /\ pub' = None
  /\ UNCHANGED <<vps, temps, priv, spare, backups, failed, pointers, authFlags, ssh, work,
                 shutdown, child, history>>

RotatePrivateIn ==
  /\ Moves("rotate3", "rotate4")
  /\ priv' = key /\ spare' = spare \ {key} /\ bound' = bound \cup {key}
  /\ UNCHANGED <<vps, temps, pub, backups, failed, pointers, authFlags, ssh, work, shutdown,
                 child, generated, confirmed>>

RotatePublicIn ==
  /\ Moves("rotate4", "rotateVerify") /\ pub' = key
  /\ UNCHANGED <<vps, temps, priv, spare, backups, failed, pointers, authFlags, ssh, work,
                 shutdown, child, history>>

RotateVerified ==
  /\ Moves("rotateVerify", IF oldVerified THEN "rotateRemove" ELSE "ending")
  /\ priv \in authorized
  /\ UNCHANGED <<vps, localDisk, failed, pointers, authFlags, ssh, work, shutdown, child, history>>

\* The commands that remove a line write the file in place.
Removal(k) ==
  \/ authorized' = authorized \ {k} /\ UNCHANGED cutShort
  \/ authorized' = {} /\ cutShort' = TRUE

\* A failure to remove the old key is only a warning.
LineToRemoveNow == pub
LineToRemove == old

RotateRemove ==
  /\ Moves("rotateRemove", "ending")
  /\ (Removal(LineToRemove) \/ UNCHANGED vps)
  /\ UNCHANGED <<localDisk, failed, pointers, authFlags, ssh, work, shutdown, child, history>>

-----------------------------------------------------------------------------
\* [K]: unbindManagedKey, archiveAllManagedKeys, restoreManagedKeyBackup

UnbindStart ==
  /\ Moves("menu", "unbind") /\ failed' = FALSE /\ ignored' = FALSE
  /\ priv # None /\ pub # None /\ priv \in authorized
  /\ action' = Managed /\ masters' = masters \cup {Managed} /\ purpose' = "login"
  /\ UNCHANGED <<vps, localDisk, active, heldPanel, authFlags, tunnel, key, old, oldVerified,
                 shutdown, child, history>>

\* Only the exact marker leads on.
UnbindRevoke ==
  /\ pc = "unbind" /\ Removal(pub)
  /\ \/ pc' = "unbindMove" /\ pub \in authorized /\ UNCHANGED failed
     \/ pc' = "ending" /\ failed' = TRUE
  /\ UNCHANGED <<localDisk, pointers, authFlags, ssh, work, shutdown, child, history>>

UnbindMove ==
  /\ pc = "unbindMove" /\ pc' = "ending"
  /\ \/ backups' = ArchivePair /\ priv' = None /\ pub' = None /\ UNCHANGED failed
     \/ UNCHANGED <<backups, priv, pub>> /\ failed' = TRUE
  /\ UNCHANGED <<vps, temps, spare, pointers, authFlags, ssh, work, shutdown, child, history>>

UnbindRefused ==
  /\ FailsFrom({"unbind"})
  /\ UNCHANGED <<vps, localDisk, pointers, authFlags, ssh, work, shutdown, child, history>>

\* No login: the directory is moved, the line on the VPS stays.
ArchiveAll ==
  /\ Moves("archive", "menu")
  /\ backups' = ArchivePair /\ priv' = None /\ pub' = None /\ action' = None
  /\ purpose' = "login"
  /\ UNCHANGED <<vps, temps, spare, failed, active, heldPanel, authFlags, ssh, key, old,
                 oldVerified, ignored, shutdown, child, history>>

Restorable == {b.priv : b \in {x \in backups : x.priv = x.pub /\ x.priv # None}}

\* The key of the backup still works: no password is needed.
RestoreDirect(k) ==
  /\ Moves("menu", "restoreFiles") /\ failed' = FALSE /\ ignored' = FALSE
  /\ k \in Restorable \cap authorized /\ priv = None /\ pub = None
  /\ action' = Managed /\ masters' = masters \cup {Managed}
  /\ purpose' = "restoreDirect" /\ old' = k
  /\ UNCHANGED <<vps, localDisk, active, heldPanel, authFlags, tunnel, key, oldVerified, shutdown,
                 child, history>>

\* It is rejected, or the backup has no known_hosts: a temporary session.
RestoreByPassword(k) ==
  /\ Moves("menu", "install") /\ failed' = FALSE /\ ignored' = FALSE
  /\ k \in Restorable /\ priv = None /\ pub = None
  /\ NewTemporary("restore") /\ old' = k
  /\ UNCHANGED <<vps, priv, pub, spare, backups, authFlags, ssh, oldVerified, shutdown,
                 child, confirmed, bound>>

RestoreInstall ==
  /\ pc = "restoreInstall" /\ authorized' \in {authorized, authorized \cup {old}}
  /\ \/ pc' = "restoreFiles" /\ old \in authorized' /\ UNCHANGED failed
     \/ pc' = "ending" /\ failed' = TRUE
  /\ UNCHANGED <<cutShort, localDisk, pointers, authFlags, ssh, work, shutdown, child, history>>

\* A staged copy is renamed to the managed directory.
RestoreFiles ==
  /\ Moves("restoreFiles", "restoreVerify") /\ priv = None /\ pub = None
  /\ priv' = old /\ pub' = old /\ bound' = bound \cup {old}
  /\ UNCHANGED <<vps, temps, spare, backups, failed, pointers, authFlags, ssh, work, shutdown,
                 child, generated, confirmed>>

RestoreVerified ==
  /\ Moves("restoreVerify", "ending")
  /\ UNCHANGED <<vps, localDisk, failed, pointers, authFlags, ssh, work, shutdown, child, history>>

\* The copy is removed again and, after a password login, the line as well,
\* if that works.
RestoreUndone ==
  /\ FailsFrom({"restoreFiles", "restoreVerify"})
  /\ priv' = None /\ pub' = None
  /\ \/ purpose = "restore" /\ Removal(old)
     \/ UNCHANGED vps
  /\ UNCHANGED <<temps, spare, backups, pointers, authFlags, ssh, work, shutdown, child, history>>

-----------------------------------------------------------------------------
\* cleanupTemporaryConnection, by the action ("main") or by the shutdown
\* ("signal"): revocation first, then the local directory.

FirstStepLocal(k) == "remove"
FirstStep(k) == IF k \in installed THEN "revoke" ELSE "remove"

CleanStart(by, k) ==
  /\ cleaning.by = "nobody" /\ k \in Keys \ cleaned
  /\ k \in installed => k \in temps
  /\ cleaning' = [by |-> by, key |-> k, step |-> FirstStep(k)]

\* Nothing to do, or the private key is missing and nothing can be done.
CleanNeedless(k) == k \notin Keys \/ k \in cleaned
CleanImpossible(k) == k \in Keys \ cleaned /\ k \in installed \ temps

Revoked ==
  /\ cleaning.step = "revoke" /\ Removal(cleaning.key)
  /\ cleaning' = [cleaning EXCEPT !.step = "remove"]
  /\ UNCHANGED <<localDisk, pc, failed, pointers, authFlags, ssh, work, signal, child, history>>

\* A failure keeps what a retry needs.
DropsHandles == active' = None /\ UNCHANGED <<action, heldPanel>>
KeepsHandles == UNCHANGED pointers

CleanFails ==
  /\ \/ /\ cleaning.step = "revoke" /\ UNCHANGED temps
        /\ (Removal(cleaning.key) \/ UNCHANGED vps)
     \/ /\ cleaning.step = "remove" /\ UNCHANGED vps
        /\ temps' \in {temps, temps \ {cleaning.key}}
  /\ cleaning' = [cleaning EXCEPT !.step = "failed"]
  /\ KeepsHandles
  /\ UNCHANGED <<priv, pub, spare, backups, pc, failed, authFlags, ssh, work, signal,
                 child, history>>

Removed ==
  /\ cleaning.step = "remove"
  /\ temps' = temps \ {cleaning.key} /\ cleaned' = cleaned \cup {cleaning.key}
  /\ active' = IF active = cleaning.key THEN None ELSE active
  /\ cleaning' = [cleaning EXCEPT !.step = "done"]
  /\ UNCHANGED <<vps, priv, pub, spare, backups, pc, failed, action, heldPanel, installed, ssh,
                 work, signal, child, history>>

\* The call returns to its caller.
CleanReturns(by, k, success) ==
  \/ /\ cleaning.by = by /\ cleaning' = NotCleaning
     /\ cleaning.step = (IF success THEN "done" ELSE "failed")
  \/ /\ cleaning.by = "nobody" /\ UNCHANGED cleaning
     /\ IF success THEN CleanNeedless(k) ELSE CleanImpossible(k)

-----------------------------------------------------------------------------
\* runRemoteAction: what it defers

HoldsPanel ==
  /\ Moves("ending", "holding") /\ ~failed /\ tunnel # None /\ heldPanel # None
  /\ action' = None
  /\ UNCHANGED <<vps, localDisk, failed, active, heldPanel, authFlags, ssh, work, shutdown, child,
                 history>>

\* Tunnels are killed before anything is revoked or closed.
EndsAction ==
  /\ Moves("ending", IF heldPanel # None THEN "release" ELSE "cleanup")
  /\ (failed \/ tunnel = None \/ heldPanel = None)
  /\ KillTunnels /\ ignored' = (heldPanel # None)
  /\ UNCHANGED <<vps, localDisk, failed, pointers, authFlags, masters, purpose, key, old, oldVerified,
                 shutdown, child, history>>

\* The panel prompt is answered, [C] clears the session, or [K] archives.
ClosesPanel ==
  /\ \/ pc = "holding" /\ purpose' = "login"
     \/ pc = "menu" /\ purpose' = "clear" /\ <<heldPanel, active>> # <<None, None>>
     \/ pc = "menu" /\ purpose' = "archive" /\ <<priv, pub>> # <<None, None>>
  /\ pc' = "releaseHeld" /\ KillTunnels
  /\ UNCHANGED <<vps, localDisk, failed, pointers, authFlags, masters, key, old, oldVerified,
                 ignored, shutdown, child, history>>

CleaningPoint == pc \in {"release", "releaseHeld", "cleanup", "clear"}
CleaningTarget ==
  CASE pc = "cleanup" -> action [] pc = "clear" -> active [] OTHER -> heldPanel

StartsCleaning ==
  /\ CleaningPoint /\ CleanStart("main", CleaningTarget)
  /\ UNCHANGED <<vps, localDisk, pc, failed, pointers, authFlags, ssh, work, signal, child, history>>

\* releaseHeldPanelConnection: pointer and master go after the revocation.
Released ==
  /\ pc \in {"release", "releaseHeld"}
  /\ \/ /\ CleanReturns("main", heldPanel, TRUE)
        /\ masters' = masters \ {heldPanel} /\ heldPanel' = None
        /\ action' = IF action = heldPanel THEN None ELSE action
        /\ UNCHANGED failed
     \/ /\ CleanReturns("main", heldPanel, FALSE)
        /\ failed' = TRUE /\ UNCHANGED <<masters, heldPanel, action>>
  /\ pc' = CASE pc = "release" -> "cleanup"
            [] pc # "release" /\ purpose = "login" -> "menu"
            [] OTHER -> purpose
  /\ UNCHANGED <<vps, localDisk, active, authFlags, tunnel, work, signal, child, history>>

\* The rest of [C]: a retry of the cleanup that an earlier action left.
Cleared ==
  /\ Moves("clear", "menu")
  /\ \E success \in BOOLEAN : CleanReturns("main", active, success)
  /\ action' = None /\ purpose' = "login"
  /\ UNCHANGED <<vps, localDisk, failed, active, heldPanel, authFlags, ssh, key, old, oldVerified,
                 ignored, signal, child, history>>

\* cleanupActionTemporaryAuth gives up its pointer whatever the result; the
\* master is closed last, unless a held connection was released before.
ActionCleaned ==
  /\ pc = "cleanup" /\ pc' = "menu"
  /\ \/ CleanReturns("main", action, TRUE) /\ UNCHANGED failed
     \/ CleanReturns("main", action, FALSE) /\ failed' = TRUE
  /\ masters' = IF ignored THEN masters ELSE masters \ {action}
  /\ action' = None /\ purpose' = "login" /\ key' = None /\ old' = None
  /\ oldVerified' = FALSE /\ ignored' = FALSE
  /\ UNCHANGED <<vps, localDisk, active, heldPanel, authFlags, tunnel, signal, child, history>>

-----------------------------------------------------------------------------
\* cleanupAppResources: on a signal while the main goroutine goes on, or when
\* the program returns, from the menu

ShutdownStarts ==
  /\ signal = "none" /\ signal' = "held" /\ KillTunnels
  /\ pc' \in {pc} \cup (IF pc = "menu" THEN {"exiting"} ELSE {})
  /\ UNCHANGED <<vps, localDisk, failed, pointers, authFlags, masters, work, cleaning, child,
                 history>>

ShutdownTarget == IF signal = "held" THEN heldPanel ELSE active

ShutdownCleans ==
  /\ signal \in {"held", "active"} /\ CleanStart("signal", ShutdownTarget)
  /\ UNCHANGED <<vps, localDisk, pc, failed, pointers, authFlags, ssh, work, signal, child, history>>

ShutdownReleases ==
  /\ signal = "held" /\ signal' = "active"
  /\ \/ /\ CleanReturns("signal", heldPanel, TRUE)
        /\ masters' = masters \ {heldPanel} /\ heldPanel' = None
        /\ action' = IF action = heldPanel THEN None ELSE action
     \/ CleanReturns("signal", heldPanel, FALSE) /\ UNCHANGED <<masters, heldPanel, action>>
  /\ UNCHANGED <<vps, localDisk, pc, failed, active, authFlags, tunnel, work, child, history>>

ShutdownCleaned ==
  /\ signal = "active" /\ signal' = "close"
  /\ \E success \in BOOLEAN : CleanReturns("signal", active, success)
  /\ masters' = masters \ {heldPanel, action} /\ heldPanel' = None /\ action' = None
  /\ UNCHANGED <<vps, localDisk, pc, failed, active, authFlags, tunnel, work, child, history>>

\* The end of the program: by exit, at the deadline, or killed at any point.
\* What ssh processes were doing may still be done, or not.
ProgramEnds ==
  /\ pc' = "menu" /\ failed' = FALSE
  /\ action' = None /\ active' = None /\ heldPanel' = None
  /\ installed' = {} /\ cleaned' = {} /\ masters' = {} /\ tunnel' = None
  /\ ignored' = FALSE
  /\ purpose' = "login" /\ key' = None /\ old' = None /\ oldVerified' = FALSE
  /\ cleaning' = NotCleaning /\ signal' = "none"
  /\ child' \in {child, None}
  /\ \/ cleaning.step = "revoke" /\ Removal(cleaning.key)
     \/ UNCHANGED vps
  /\ UNCHANGED <<localDisk, history>>

KeysNext ==
  \/ ChooseTemporary \/ ChooseManaged \/ ChooseManagedAgain
  \/ StartInstall \/ ChildAppends \/ ChildFails \/ InstallAnswered \/ InstallLost
  \/ TemporaryVerified \/ StaysTemporary
  \/ PromotePrivate \/ PromotePublic \/ PromotedVerified \/ Promoted \/ PromoteFails
  \/ WorkDone \/ WorkFails \/ OpenPanel
  \/ RotateStart \/ RotateInstall \/ RotatePrivateAway \/ RotatePublicAway
  \/ RotatePrivateIn \/ RotatePublicIn \/ RotateVerified \/ RotateRemove
  \/ UnbindStart \/ UnbindRevoke \/ UnbindMove \/ UnbindRefused \/ ArchiveAll
  \/ \E k \in Keys : RestoreDirect(k) \/ RestoreByPassword(k)
  \/ RestoreInstall \/ RestoreFiles \/ RestoreVerified \/ RestoreUndone
  \/ Revoked \/ CleanFails \/ Removed
  \/ HoldsPanel \/ EndsAction \/ ClosesPanel \/ StartsCleaning \/ Released
  \/ ActionCleaned \/ Cleared
  \/ ShutdownStarts \/ ShutdownCleans \/ ShutdownReleases \/ ShutdownCleaned
  \/ ProgramEnds

KeysSpec == KeysInit /\ [][KeysNext]_keysVars

-----------------------------------------------------------------------------
Jobs == {"login", "restore", "restoreDirect", "rotate", "clear", "archive"}
Pcs == {"menu", "install", "installing", "verifying", "offer", "promotePublic",
        "promoteVerify", "promoteDone", "work", "rotate", "rotate1", "rotate2",
        "rotate3", "rotate4", "rotateVerify", "rotateRemove", "unbind", "unbindMove",
        "restoreInstall", "restoreFiles", "restoreVerify", "ending", "holding",
        "release", "releaseHeld", "cleanup", "clear", "archive", "exiting"}

\* Every pointer names a connection or nothing, every file a generated key.
KTypeOK ==
  /\ authorized \subseteq Keys /\ cutShort \in BOOLEAN /\ temps \subseteq 1..generated
  /\ priv \in Keys \cup {None} /\ pub \in Keys \cup {None}
  /\ spare \subseteq Keys /\ backups \subseteq KeyPairs
  /\ pc \in Pcs /\ failed \in BOOLEAN
  /\ {action, active, heldPanel, tunnel} \subseteq Connections \cup {None}
  /\ active # Managed
  /\ installed \subseteq Keys /\ cleaned \subseteq Keys
  /\ masters \subseteq Connections /\ ignored \in BOOLEAN /\ purpose \in Jobs
  /\ {key, old, child} \subseteq Keys \cup {None} /\ oldVerified \in BOOLEAN
  /\ cleaning \in [by : {"nobody", "main", "signal"}, key : Keys \cup {None},
                   step : {"none", "revoke", "remove", "done", "failed"}]
  /\ signal \in {"none", "held", "active", "close"}
  /\ generated \in 0..MaxKeys /\ confirmed \subseteq Keys /\ bound \subseteq Keys

\* While the VPS accepts a key that was installed, its private half is still
\* on this computer: only that half can revoke it (remote.go:1317, "Do not
\* delete the local private key until the remote authorized_keys postcondition
\* has been confirmed").
KeyKeptUntilRevoked == confirmed \cap authorized \subseteq OnDisk

\* A key that has been bound is never destroyed: rotation, unbinding,
\* archiving, restoration and its undoing leave a copy somewhere.
BoundKeysKept == bound \subseteq ManagedSide

\* Cleaning up a temporary login, at the end of the action, from the menu or
\* when the program returns, never revokes a key that was bound meanwhile.
CleanupSparesBound ==
  (signal = "none" \/ pc = "exiting") /\ cleaning.step = "revoke" =>
    cleaning.key \notin bound

\* A temporary key that was installed and is not cleaned up is still known to
\* the program, so that [C] or the end of the program can retry, until the
\* next temporary login (remote.go:1585, "lose the only retry handle entirely").
RetryHandleKept ==
  \A k \in installed \ cleaned :
    (\A other \in temps \cup cleaned \cup {active} : other <= k)
      => k \in {action, active, heldPanel}

\* An action that worked with the managed key and reports success leaves a
\* pair that logs in.
ManagedLoginWorks ==
  /\ pc \in {"ending", "holding", "release", "cleanup"} /\ ~failed
  /\ signal = "none" /\ ~cutShort
  /\ action = Managed \/ purpose \in {"restore", "restoreDirect"}
  /\ priv # None
  => priv = pub /\ priv \in authorized

\* A panel forward is open only while the master that carries it is, and
\* before the login behind it is revoked (remote.go:1576).
PanelBeforeRevocation ==
  tunnel # None /\ signal = "none" =>
    tunnel \in masters /\ tunnel = heldPanel /\ tunnel \notin cleaned
=============================================================================
