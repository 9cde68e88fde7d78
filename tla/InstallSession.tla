--------------------------- MODULE InstallSession ---------------------------
(***************************************************************************)
(* Menu [1] of the local program (operations.go, install_transaction.go)   *)
(* driving the remote helper of InstallHelper over SSH.  A session recovers *)
(* an interrupted transaction, begins its own, runs the wizard, commits,   *)
(* and rolls back on any failure in between.                               *)
(*                                                                         *)
(* A request is a process of the helper.  The client can stop waiting for  *)
(* it at any moment (30 s limit of captured SSH commands, lost connection, *)
(* killed program) while the process lives on; and after a connection      *)
(* reset it sends the same request once more (runCaptured).                *)
(***************************************************************************)
EXTENDS InstallHelper

CONSTANTS Clients,     \* local programs working on this node
          NoSlot,      \* the client waits for no process
          Lingering,   \* whether a wizard can outlive the session that started it
          MaxFaults    \* BOUND: misfortunes, see Misfortune

ASSUME NoSlotAssumption == NoSlot \notin Slots
ASSUME LingeringAssumption == Lingering \in BOOLEAN
ASSUME MaxFaultsAssumption == MaxFaults \in Nat

\* Where a session stands; "idle" is the main menu.
ClientPc == {"idle", "recStatus", "recRollback", "baseline", "begin", "wizard",
             "comStatus", "commit", "rbStatus", "rollback"}

\* The last outcome the operator was told of, and the transaction it is about.
Message == {"none", "committed", "restored", "nothingToRollBack",
            "rollbackFailed", "unsupported"}

VARIABLES cl,      \* [Clients -> session]
          told,    \* [Clients -> last message]
          wiz,     \* transactions whose wizard is running on the node
          faults,  \* misfortunes so far
         disturbed \* history: see Disturbs

local == <<cl, told, wiz, faults, disturbed>>
svars == <<hvars, local>>

Session == [pc : ClientPc, tx : 0 .. MaxTx, slot : Slots \cup {NoSlot}, retried : BOOLEAN]
AtMenu  == [pc |-> "idle", tx |-> 0, slot |-> NoSlot, retried |-> FALSE]
Silence == [msg |-> "none", tx |-> 0]

SInit ==
  /\ HInit
  /\ cl = [c \in Clients |-> AtMenu]
  /\ told = [c \in Clients |-> Silence]
  /\ wiz = {}
  /\ faults = 0
  /\ disturbed = {}

-----------------------------------------------------------------------------
(* Requests                                                                *)

Misfortune == faults < MaxFaults /\ faults' = faults + 1

In(c, pc) == cl[c].pc = pc

Move(c, pc) == cl' = [cl EXCEPT ![c].pc = pc, ![c].slot = NoSlot, ![c].retried = FALSE]

\* The session ends and forgets its transaction.
BackToMenu(c) == cl' = [cl EXCEPT ![c] = AtMenu]

Tell(c, msg) == told' = [told EXCEPT ![c] = [msg |-> msg, tx |-> cl[c].tx]]

\* The session enters pc and runs action k of the helper.
Request(c, k, pc) ==
  \E s \in Slots :
    /\ Spawn(s, k)
    /\ cl' = [cl EXCEPT ![c].pc = pc, ![c].slot = s, ![c].retried = FALSE]

\* The process the session waits for has printed out; the session reads it.
Answered(c, outs) ==
  /\ cl[c].slot \in Slots
  /\ At(cl[c].slot, "exited")
  /\ procs[cl[c].slot].out \in outs
  /\ Reap(cl[c].slot)

Refused(c, outs) == Answered(c, Outs \ outs)

\* A process nobody waits for ends unobserved.
Orphan(s) == \A c \in Clients : cl[c].slot # s
ReapOrphan(s) == Orphan(s) /\ Reap(s) /\ UNCHANGED local

\* installTransactionStatus: one read of current.env under the lock.
ReadsCurrent(c) == LockFree /\ UNCHANGED hvars

\* runCaptured: after a reset connection the same command runs once more,
\* while the process of the first attempt may still be there.
Retry(c) ==
  /\ cl[c].slot \in Slots /\ ~cl[c].retried
  /\ Misfortune
  /\ \E s \in Slots :
       /\ Spawn(s, procs[cl[c].slot].kind)
       /\ cl' = [cl EXCEPT ![c].slot = s, ![c].retried = TRUE]
  /\ UNCHANGED <<told, wiz, disturbed>>

-----------------------------------------------------------------------------
(* Recovery: recoverInterruptedInstallTransaction                          *)

\* The statuses recovery answers with a rollback.
RecoverableFresh == {"PREPARING", "ACTIVE"}
Recoverable == {"PREPARING", "ACTIVE", "ROLLING_BACK", "ROLLBACK_FAILED"}

StartMenu1(c) ==
  /\ In(c, "idle")
  /\ Move(c, "recStatus")
  /\ told' = [told EXCEPT ![c] = Silence] /\ disturbed' = disturbed \ {c}
  /\ UNCHANGED <<hvars, wiz, faults>>

RecoverNothing(c) ==
  /\ In(c, "recStatus") /\ ReadsCurrent(c)
  /\ current.status = "NONE"
  /\ Move(c, "baseline")
  /\ UNCHANGED <<told, wiz, faults, disturbed>>

\* PREPARING is cleared at once, the others after the operator's yes.
RecoverRollsBack(c) ==
  /\ In(c, "recStatus") /\ LockFree
  /\ current.status \in Recoverable
  /\ Request(c, "rollback", "recRollback")
  /\ UNCHANGED <<told, wiz, faults, disturbed>>

OperatorDeclines(c) ==
  /\ In(c, "recStatus") /\ ReadsCurrent(c)
  /\ current.status \in Recoverable \ {"PREPARING"}
  /\ Misfortune
  /\ BackToMenu(c)
  /\ UNCHANGED <<told, wiz, disturbed>>

RecoverUnsupported(c) ==
  /\ In(c, "recStatus") /\ ReadsCurrent(c)
  /\ current.status \notin Recoverable \cup {"NONE"}
  /\ Tell(c, "unsupported")
  /\ BackToMenu(c)
  /\ UNCHANGED <<wiz, faults, disturbed>>

RecoveryEnds(c) ==
  /\ In(c, "recRollback")
  /\ \/ /\ Answered(c, {"ROLLED_BACK", "PREPARE_ABORTED", "NOT_NEEDED"})
        /\ Move(c, "baseline")
     \/ /\ Refused(c, {"ROLLED_BACK", "PREPARE_ABORTED", "NOT_NEEDED"})
        /\ BackToMenu(c)
  /\ UNCHANGED <<told, wiz, faults, disturbed>>

-----------------------------------------------------------------------------
(* Construction                                                            *)

\* captureOriginalBaseline reads the node and begin follows; or the session
\* only updates the toolkit (updateToolkitOnly) and is done.
BaselineThenBegin(c) ==
  /\ In(c, "baseline")
  /\ Request(c, "begin", "begin")
  /\ UNCHANGED <<told, wiz, faults, disturbed>>

UpdateToolkitOnly(c) ==
  /\ In(c, "baseline")
  /\ BackToMenu(c)
  /\ UNCHANGED <<hvars, told, wiz, faults, disturbed>>

\* beginInstallTransaction; after a failure nothing is rolled back.
BeginAnswered(c) ==
  /\ In(c, "begin")
  /\ \/ /\ Answered(c, {"BEGAN"})
        /\ LET t == procs[cl[c].slot].tx IN
             /\ cl' = [cl EXCEPT ![c] = [AtMenu EXCEPT !.pc = "wizard", !.tx = t]]
             /\ wiz' = wiz \cup {t}
     \/ /\ Refused(c, {"BEGAN"})
        /\ BackToMenu(c)
        /\ UNCHANGED wiz
  /\ UNCHANGED <<told, faults, disturbed>>

\* 00-auto-install-or-optimize.sh, the route reconciliation and the handoff.
WizardWrites == wiz # {} /\ NodeWrite /\ UNCHANGED local

\* The construction ends; its last stage decides how the session goes on.
WizardEnds(c, next) ==
  /\ In(c, "wizard")
  /\ wiz' = wiz \ {cl[c].tx}
  /\ Move(c, next)
  /\ UNCHANGED <<hvars, told, faults, disturbed>>

\* A wizard without a session comes to its end, by SIGHUP or by itself.
WizardDies ==
  /\ \E t \in wiz :
       /\ \A c \in Clients : ~(In(c, "wizard") /\ cl[c].tx = t)
       /\ wiz' = wiz \ {t}
  /\ UNCHANGED <<hvars, cl, told, faults, disturbed>>

-----------------------------------------------------------------------------
(* Commit and the deferred rollback                                        *)

\* The answer commitInstallTransaction takes for success.
CommitEvidenceAny == {"COMMITTED", "ERROR"}
CommitEvidence == {"COMMITTED"}

\* commitInstallTransaction checks state and identity, then runs commit.
CommitRequested(c) ==
  /\ In(c, "comStatus") /\ LockFree
  /\ current = [status |-> "ACTIVE", tx |-> cl[c].tx]
  /\ Request(c, "commit", "commit")
  /\ UNCHANGED <<told, wiz, faults, disturbed>>

CommitMismatch(c) ==
  /\ In(c, "comStatus") /\ ReadsCurrent(c)
  /\ current # [status |-> "ACTIVE", tx |-> cl[c].tx]
  /\ Move(c, "rbStatus")
  /\ UNCHANGED <<told, wiz, faults, disturbed>>

CommitAnswered(c) ==
  /\ In(c, "commit")
  /\ \/ /\ Answered(c, CommitEvidence)
        /\ Tell(c, "committed")
        /\ BackToMenu(c)
     \/ /\ Refused(c, CommitEvidence)
        /\ Move(c, "rbStatus")
        /\ UNCHANGED told
  /\ UNCHANGED <<wiz, faults, disturbed>>

\* rollbackInstallTransaction: nothing there counts as rolled back ...
RollbackFindsNothing(c) ==
  /\ In(c, "rbStatus") /\ ReadsCurrent(c)
  /\ current.status = "NONE"
  /\ Tell(c, "nothingToRollBack")
  /\ BackToMenu(c)
  /\ UNCHANGED <<wiz, faults, disturbed>>

\* ... another transaction's is left alone ...
RollbackMismatch(c) ==
  /\ In(c, "rbStatus") /\ ReadsCurrent(c)
  /\ current.status # "NONE" /\ current.tx # cl[c].tx
  /\ Tell(c, "rollbackFailed")
  /\ BackToMenu(c)
  /\ UNCHANGED <<wiz, faults, disturbed>>

\* ... and its own is rolled back by a request that names no transaction.
OwnTransaction(c) == current.tx = cl[c].tx

RollbackRequested(c) ==
  /\ In(c, "rbStatus") /\ LockFree
  /\ current.status # "NONE" /\ OwnTransaction(c)
  /\ Request(c, "rollback", "rollback")
  /\ UNCHANGED <<told, wiz, faults, disturbed>>

RollbackAnswered(c) ==
  /\ In(c, "rollback")
  /\ \/ Answered(c, {"ROLLED_BACK"}) /\ Tell(c, "restored")
     \/ Refused(c, {"ROLLED_BACK"}) /\ Tell(c, "rollbackFailed")
  /\ BackToMenu(c)
  /\ UNCHANGED <<wiz, faults, disturbed>>

-----------------------------------------------------------------------------
(* Misfortunes                                                             *)

\* A session that ends while its wizard runs leaves it behind or takes it down.
LeavesWizard(c) ==
  IF In(c, "wizard")
    THEN wiz' \in {wiz \ {cl[c].tx}} \cup (IF Lingering THEN {wiz} ELSE {})
    ELSE UNCHANGED wiz

\* The request in progress times out or loses its connection.  Before the
\* transaction is known the session just ends; later it rolls back.
GivesUp(c) ==
  /\ ~In(c, "idle") /\ ~In(c, "baseline")
  /\ Misfortune
  /\ LeavesWizard(c)
  /\ CASE cl[c].pc \in {"recStatus", "recRollback", "begin"} ->
            BackToMenu(c) /\ UNCHANGED told
       [] cl[c].pc \in {"wizard", "comStatus", "commit"} ->
            Move(c, "rbStatus") /\ UNCHANGED told
       [] cl[c].pc \in {"rbStatus", "rollback"} ->
            BackToMenu(c) /\ Tell(c, "rollbackFailed")
  /\ UNCHANGED <<hvars, disturbed>>

\* The local program is killed.
Killed(c) ==
  /\ ~In(c, "idle")
  /\ Misfortune
  /\ LeavesWizard(c)
  /\ BackToMenu(c)
  /\ told' = [told EXCEPT ![c] = Silence]
  /\ UNCHANGED <<hvars, disturbed>>

-----------------------------------------------------------------------------

Recovery(c) ==
  RecoverNothing(c) \/ RecoverRollsBack(c) \/ RecoverUnsupported(c) \/ RecoveryEnds(c)

Constructing(c) ==
  \/ BaselineThenBegin(c) \/ UpdateToolkitOnly(c) \/ BeginAnswered(c)
  \/ WizardEnds(c, "comStatus") \/ WizardEnds(c, "rbStatus")

Conclusion(c) ==
  \/ CommitRequested(c) \/ CommitMismatch(c) \/ CommitAnswered(c)
  \/ RollbackFindsNothing(c) \/ RollbackMismatch(c)
  \/ RollbackRequested(c) \/ RollbackAnswered(c)

ClientStep(c) == StartMenu1(c) \/ Recovery(c) \/ Constructing(c) \/ Conclusion(c)

ClientFault(c) == OperatorDeclines(c) \/ Retry(c) \/ GivesUp(c) \/ Killed(c)

\* History: the sessions whose transaction a process that they do not wait
\* for has changed, between the check before the commit and its answer.
Disturbs(s) ==
  disturbed' = IF current' = current THEN disturbed
               ELSE disturbed \cup {c \in Clients : In(c, "commit") /\ cl[c].slot # s}

HelperStep(s) ==
  \/ ScriptStep(s) /\ Disturbs(s) /\ UNCHANGED <<cl, told, wiz, faults>>
  \/ ReapOrphan(s)

HelperFault(s) ==
  ScriptFault(s) /\ Misfortune /\ UNCHANGED <<cl, told, wiz, disturbed>>

SNext ==
  \/ \E c \in Clients : ClientStep(c) \/ ClientFault(c)
  \/ \E s \in Slots : HelperStep(s) \/ HelperFault(s)
  \/ WizardWrites \/ WizardDies

\* The operator keeps running menu [1]; sessions, processes that have or can
\* get the lock, and wizards do not stop by themselves.
SFairness ==
  /\ \A c \in Clients : WF_svars(ClientStep(c))
  /\ \A s \in Slots : WF_svars(HelperStep(s))
  /\ WF_svars(WizardDies)

SSpec == SInit /\ [][SNext]_svars
SFairSpec == SSpec /\ SFairness

-----------------------------------------------------------------------------
(* Properties                                                              *)

\* Every variable stays in its domain.
STypeOK ==
  /\ HTypeOK
  /\ cl \in [Clients -> Session]
  /\ told \in [Clients -> [msg : Message, tx : 0 .. MaxTx]]
  /\ wiz \subseteq Tx
  /\ faults \in 0 .. MaxFaults
  /\ disturbed \subseteq Clients

\* Statement of the code (install_transaction.go:168): "Every remote stage of
\* menu [1] was committed atomically" is never said of a transaction that was
\* not committed, nor of a committed one whose wizard is still at work.
CommittedMessageTrue ==
  \A c \in Clients : told[c].msg = "committed" =>
    Fate(told[c].tx) = "committed" /\ told[c].tx \notin wiz

\* That message is true unless another process changed the transaction between
\* the check of its identity and the answer to the commit, which names no
\* transaction (install_transaction.go:157-164): a process of a second program,
\* or one that a retry or an interrupted session left behind.
UndisturbedCommitTrue ==
  \A c \in Clients : told[c].msg = "committed" /\ c \notin disturbed =>
    Fate(told[c].tx) = "committed" /\ told[c].tx \notin wiz

\* An interrupted construction is not left behind: once misfortunes stop, it
\* is committed or rolled back.
Undecided == {"PREPARING"} \cup Rollbackable
TransactionDecided == current.status \in Undecided ~> current.status \notin Undecided

\* Statement of the code (install_transaction.go:105): recovery of a previous
\* run is idempotent, so no interruption leaves a state it does not support.
RecoverySupported == \A c \in Clients : told[c].msg # "unsupported"

\* Statement of the code (operations.go:320): when the session says that the
\* uncommitted construction was rolled back, it was not committed.
RolledBackMessageTrue ==
  \A c \in Clients : told[c].msg = "nothingToRollBack" =>
    Fate(told[c].tx) # "committed"
=============================================================================
