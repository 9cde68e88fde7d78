---------------------------- MODULE Credentials ----------------------------
(***************************************************************************)
(* The login credentials of a node: the VPS password and the account and   *)
(* password of the panel, what is really in force, where the node keeps    *)
(* them in plain text (the handoff of the current run, its archive, the    *)
(* protected store, the store of an older release), and the menus that     *)
(* change them: [5] and [6], the credential part of the wizard of menu     *)
(* [1], and [7], which only shows the form.                                *)
(*                                                                         *)
(* A pair is known by the number of the change that made it; the account   *)
(* of the VPS never changes and is always 0.  A placeholder counts as      *)
(* nothing.  A script is the sequence of the steps still to do, and may be *)
(* cut before any of them.                                                 *)
(***************************************************************************)
EXTENDS Naturals, Sequences

CONSTANTS
  MaxPairs,   \* bound: pairs that are generated, chosen or installed
  MaxRuns,    \* bound: handoffs in the archive
  Nothing     \* no usable value

ASSUME CredentialsAssumption ==
  MaxPairs \in Nat \ {0} /\ MaxRuns \in Nat /\ Nothing \notin Nat

VARIABLES
  inForce,    \* the pair that logs in, of each kind; Nothing without a panel
  issued,     \* the last pair made
  installer,  \* the pair in install-result.env
  handoff, archive, protected, older,  \* the files, archive oldest first
  script,     \* the steps of the running script that are still to do
  menu,       \* what the operator asked for
  saved,       \* the snapshot of the install transaction, or Nothing
  outcome,    \* how the last request ended
  form       \* the form the operator was shown last

credentialVars == <<inForce, issued, installer, handoff, archive, protected,
                    older, script, menu, saved, outcome, form>>
files == <<handoff, archive, protected>>
request == <<menu, saved, outcome, form>>

Kinds == {"vps", "panel"}
Halves == {"user", "password"}
Fields == Kinds \X Halves
PairNumbers == 0..MaxPairs
Files == [Fields -> PairNumbers \cup {Nothing}]
Blank == [f \in Fields |-> Nothing]

\* What the two fields of a pair hold.
Written(k, p, h) == IF k = "vps" /\ h = "user" THEN 0 ELSE p
WithPair(file, k, p) ==
  [f \in Fields |-> IF f[1] = k THEN Written(k, p, f[2]) ELSE file[f]]
Whole(file, k) == \A h \in Halves : file[<<k, h>>] # Nothing
LogsIn(file, k) ==
  inForce[k] # Nothing /\ \A h \in Halves : file[<<k, h>>] = Written(k, inForce[k], h)

-----------------------------------------------------------------------------
(* Reading.  The client concatenates the files, the protected store last,  *)
(* and keeps the last usable value; the node asks for the first file of    *)
(* its candidates, newest first.                                           *)

EmittedArchiveLast == <<older, handoff, protected>> \o archive
Emitted == <<older>> \o archive \o <<handoff, protected>>
LastUsable(fs, f) ==
  LET usable == {i \in 1..Len(fs) : fs[i][f] # Nothing}
  IN IF usable = {} THEN Nothing
     ELSE fs[CHOOSE i \in usable : \A j \in usable : j <= i][f]
Exported == [f \in Fields |-> LastUsable(Emitted, f)]

\* The candidates of the node, newest last, so that LastUsable reads them too.
Candidates == <<older>> \o archive \o <<handoff>>
NewestWhole(k) ==
  LET whole == {i \in 1..Len(Candidates) : Whole(Candidates[i], k)}
  IN IF whole = {} THEN Blank
     ELSE Candidates[CHOOSE i \in whole : \A j \in whole : j <= i]

Filled(file, source) ==
  [f \in Fields |-> IF file[f] # Nothing THEN file[f] ELSE source[f]]

\* credential_store_seed_pair: a whole store is left alone; a half of it is
\* kept and completed, from one whole source where there is one.
SeedPair(k) ==
  LET anchored == Filled(protected, IF Whole(older, k) THEN older ELSE Blank)
      whole == Filled(anchored, NewestWhole(k))
      pair == Filled(whole, [f \in Fields |-> LastUsable(Candidates, f)])
  IN IF Whole(pair, k) THEN pair ELSE protected
Seeded == [f \in Fields |-> SeedPair(f[1])[f]]
Restored == Filled(protected, handoff)

Retained(f) ==
  IF protected[f] # Nothing THEN protected[f] ELSE LastUsable(Candidates, f)

-----------------------------------------------------------------------------
(* The scripts.                                                            *)

Do(op) == [op |-> op, field |-> <<>>]
Sets(op, k, h) == [op |-> op, field |-> <<k, h>>]

\* handoff_begin_run; "strict" where the caller runs under set -e.
BeginRun(strict) ==
  <<Do("seed"), Do("archive"), Do("truncate"),
    Do(IF strict THEN "restore strictly" ELSE "restore")>>

\* 01a and 03c: the change itself, the handoff, then the protected store.
Recorded(k) ==
  <<Sets("handoff", k, "user"), Sets("handoff", k, "password"),
    Sets("store", k, "user"), Sets("store", k, "password")>>
RotateVPS == <<Do("change vps")>> \o Recorded("vps")
RotatePanel == <<Do("change panel")>> \o Recorded("panel") \o <<Do("check panel")>>

\* 03d, which puts the installer's pair back in front on a fresh node.
ExportPanel(fresh, strict) ==
  (IF fresh THEN <<Do("installer's handoff")>> ELSE <<>>) \o <<Do("seed")>>
  \o (IF fresh THEN <<Do("installer's store")>> ELSE <<>>)
  \o <<Do(IF strict THEN "restore strictly" ELSE "restore")>>

Wizard(plan, fresh) ==
  BeginRun(TRUE) \o <<Do("name the account")>>
  \o (IF fresh THEN <<Do("install panel")>> ELSE <<>>)
  \o (IF plan.panel = "change" THEN RotatePanel ELSE <<>>)
  \o ExportPanel(fresh, TRUE)
  \o <<Do("seed"), Do("restore strictly"), Do("validate panel")>>
  \o (IF plan.vps = "change" THEN RotateVPS ELSE <<Do("reapply")>>)
  \o <<Do("form complete"), Do("rest")>> \o ExportPanel(fresh, FALSE)

ScriptRuns == outcome = "running"
At(op) == ScriptRuns /\ script # <<>> /\ Head(script).op = op
Advances == script' = Tail(script) /\ UNCHANGED <<older, request>>

SeedStore ==
  /\ At("seed")
  /\ protected' = Seeded
  /\ Advances /\ UNCHANGED <<inForce, issued, installer, handoff, archive>>

ArchiveHandoff ==
  /\ At("archive")
  /\ archive' = IF handoff = Blank THEN archive ELSE Append(archive, handoff)
  /\ Advances /\ UNCHANGED <<inForce, issued, installer, handoff, protected>>

TruncateHandoff ==
  /\ At("truncate")
  /\ handoff' = Blank
  /\ Advances /\ UNCHANGED <<inForce, issued, installer, archive, protected>>

\* The loop over the four fields ends on the test of the last one, so the
\* status of the function says whether a panel password is stored.
RestoreStatus == protected[<<"panel", "password">>] # Nothing
RestoreHandoff ==
  /\ \/ At("restore")
     \/ At("restore strictly") /\ RestoreStatus
  /\ handoff' = Restored
  /\ Advances /\ UNCHANGED <<inForce, issued, installer, archive, protected>>

SetField ==
  /\ At("handoff") \/ At("store")
  /\ LET f == Head(script).field
         value == Written(f[1], inForce[f[1]], f[2])
     IN IF Head(script).op = "handoff"
        THEN handoff' = [handoff EXCEPT ![f] = value] /\ UNCHANGED protected
        ELSE protected' = [protected EXCEPT ![f] = value] /\ UNCHANGED handoff
  /\ Advances /\ UNCHANGED <<inForce, issued, installer, archive>>

NameAccount ==
  /\ At("name the account")
  /\ handoff' = [handoff EXCEPT ![<<"vps", "user">>] = 0]
  /\ Advances /\ UNCHANGED <<inForce, issued, installer, archive, protected>>

ChangeLogin(k) ==
  /\ At(IF k = "vps" THEN "change vps" ELSE "change panel")
  /\ issued < MaxPairs
  /\ issued' = issued + 1
  /\ inForce' = [inForce EXCEPT ![k] = issued']
  /\ Advances /\ UNCHANGED <<installer, files>>

CheckPanel ==
  /\ At("check panel")
  /\ Advances /\ UNCHANGED <<inForce, issued, installer, files>>

InstallPanel ==
  /\ At("install panel")
  /\ issued < MaxPairs
  /\ issued' = issued + 1
  /\ inForce' = [inForce EXCEPT !["panel"] = issued']
  /\ installer' = issued'
  /\ Advances /\ UNCHANGED files

InstallersHandoff ==
  /\ At("installer's handoff")
  /\ handoff' = WithPair(handoff, "panel", installer)
  /\ Advances /\ UNCHANGED <<inForce, issued, installer, archive, protected>>

InstallersStore ==
  /\ At("installer's store")
  /\ protected' = [f \in Fields |-> IF f[1] = "panel" THEN handoff[f] ELSE protected[f]]
  /\ Advances /\ UNCHANGED <<inForce, issued, installer, handoff, archive>>

\* A real login with the retained pair decides whether it is kept.
PanelProved == LogsIn([f \in Fields |-> Retained(f)], "panel")
ValidatePanel ==
  /\ At("validate panel") /\ PanelProved
  /\ protected' = [f \in Fields |-> IF f[1] = "panel" THEN Retained(f) ELSE protected[f]]
  /\ Advances /\ UNCHANGED <<inForce, issued, installer, handoff, archive>>

\* Preserving the VPS password sets it again from the store.
MayReapplyUnseen == TRUE
MayReapply ==
  protected[<<"vps", "user">>] = 0 /\ protected[<<"vps", "password">>] # Nothing
Reapplied == [inForce EXCEPT !["vps"] = protected[<<"vps", "password">>]]
Reapply ==
  /\ At("reapply") /\ MayReapply
  /\ inForce' = Reapplied
  /\ handoff' = WithPair(handoff, "vps", protected[<<"vps", "password">>])
  /\ Advances /\ UNCHANGED <<issued, installer, archive, protected>>

FormComplete(file) == \A k \in Kinds : Whole(file, k)
CheckForm ==
  /\ At("form complete")
  /\ FormComplete([f \in Fields |-> LastUsable(Candidates, f)])
  /\ Advances /\ UNCHANGED <<inForce, issued, installer, files>>

RestOfWizard ==
  /\ At("rest")
  /\ Advances /\ UNCHANGED <<inForce, issued, installer, files>>

-----------------------------------------------------------------------------
(* How a script fails by itself, and how it is cut.                        *)

Refuses ==
  \/ At("restore strictly") /\ ~RestoreStatus
  \/ At("validate panel") /\ ~PanelProved
  \/ At("reapply") /\ ~MayReapply
  \/ At("form complete") /\ ~FormComplete([f \in Fields |-> LastUsable(Candidates, f)])
ScriptRefuses ==
  /\ Refuses
  /\ outcome' = "failed"
  /\ UNCHANGED <<inForce, issued, installer, files, older, script, menu, saved, form>>

\* The check of a new panel login finds x-ui still starting, another stage of
\* the wizard fails, or the connection goes and takes the script with it.
ScriptFails ==
  /\ ScriptRuns /\ script # <<>>
  /\ outcome' = "failed"
  /\ UNCHANGED <<inForce, issued, installer, files, older, script, menu, saved, form>>

ProgramKilledHere ==
  /\ outcome \in {"running", "failed", "shown"} /\ menu # "none"
  /\ outcome' = "killed" /\ script' = <<>> /\ menu' = "none"
  /\ UNCHANGED <<inForce, issued, installer, files, older, saved, form>>

-----------------------------------------------------------------------------
(* The local menus.                                                        *)

Idle == menu = "none"
Enough == issued < MaxPairs /\ Len(archive) < MaxRuns

StartRotation(k) ==
  /\ Idle /\ Enough
  /\ inForce[k] # Nothing
  /\ menu' = k /\ outcome' = "running"
  /\ script' = BeginRun(FALSE) \o (IF k = "vps" THEN RotateVPS ELSE RotatePanel)
  /\ UNCHANGED <<inForce, issued, installer, files, older, saved, form>>

ShowHandoff ==
  /\ Idle
  /\ menu' = "show" /\ outcome' = "running" /\ script' = <<>>
  /\ UNCHANGED <<inForce, issued, installer, files, older, saved, form>>

\* A fresh node has nothing to preserve, and the plan is refused for it.
Plans(fresh) == [Kinds -> IF fresh THEN {"change"} ELSE {"change", "preserve"}]
Snapshot ==
  [inForce |-> inForce, installer |-> installer, handoff |-> handoff,
   archive |-> archive, protected |-> protected]

StartConstruction ==
  /\ Idle /\ Enough /\ saved = Nothing
  /\ saved' = Snapshot
  /\ \E plan \in Plans(inForce["panel"] = Nothing) :
       script' = Wizard(plan, inForce["panel"] = Nothing)
  /\ menu' = "construct" /\ outcome' = "running"
  /\ UNCHANGED <<inForce, issued, installer, files, older, form>>

\* The end of a script that succeeded: the form is fetched, completed, shown.
ShowForm ==
  /\ ScriptRuns /\ script = <<>>
  /\ outcome' = IF FormComplete(Exported) THEN "shown" ELSE "failed"
  /\ form' = IF FormComplete(Exported) THEN Exported ELSE form
  /\ UNCHANGED <<inForce, issued, installer, files, older, script, menu, saved>>

CommitsConstruction ==
  /\ menu = "construct" /\ outcome = "shown"
  /\ saved' = Nothing /\ menu' = "none"
  /\ UNCHANGED <<inForce, issued, installer, files, older, script, outcome, form>>

\* The transaction restores its paths: both directories of credentials and
\* the panel, but not /etc/shadow.
RolledBack == [inForce EXCEPT !["panel"] = saved.inForce["panel"]]
UndoConstruction ==
  /\ saved # Nothing
  /\ \/ menu = "construct" /\ outcome \in {"failed", "shown"}
     \/ Idle
  /\ inForce' = RolledBack
  /\ installer' = saved.installer
  /\ handoff' = saved.handoff /\ archive' = saved.archive
  /\ protected' = saved.protected
  /\ saved' = Nothing /\ menu' = "none" /\ outcome' = "rolled back" /\ script' = <<>>
  /\ UNCHANGED <<issued, older, form>>

ReturnsToMenu ==
  /\ menu \in Kinds \cup {"show"} /\ outcome \in {"shown", "failed"}
  /\ menu' = "none" /\ script' = <<>>
  /\ UNCHANGED <<inForce, issued, installer, files, older, saved, outcome, form>>

-----------------------------------------------------------------------------
\* A blank VPS, or one that an older release set up and that remembers all,
\* some or none of its credentials.
CredentialsInit ==
  /\ \E p \in {Nothing, 1}, known \in SUBSET Kinds :
       /\ inForce = [k \in Kinds |-> IF k = "vps" THEN 0 ELSE p]
       /\ older = [f \in Fields |-> IF f[1] \in known
                     THEN Written(f[1], IF f[1] = "vps" THEN 0 ELSE 1, f[2])
                     ELSE Nothing]
  /\ issued = 1 /\ installer = Nothing
  /\ handoff = Blank /\ archive = <<>> /\ protected = Blank
  /\ script = <<>> /\ menu = "none" /\ saved = Nothing
  /\ outcome = "none" /\ form = Blank

ScriptStep ==
  \/ SeedStore \/ ArchiveHandoff \/ TruncateHandoff \/ RestoreHandoff
  \/ SetField \/ NameAccount \/ ChangeLogin("vps") \/ ChangeLogin("panel")
  \/ CheckPanel \/ InstallPanel \/ InstallersHandoff \/ InstallersStore
  \/ ValidatePanel \/ Reapply \/ CheckForm \/ RestOfWizard

CredentialsNext ==
  \/ ScriptStep \/ ScriptRefuses \/ ScriptFails \/ ProgramKilledHere
  \/ StartRotation("vps") \/ StartRotation("panel") \/ ShowHandoff
  \/ StartConstruction \/ ShowForm \/ CommitsConstruction
  \/ UndoConstruction \/ ReturnsToMenu

CredentialsSpec == CredentialsInit /\ [][CredentialsNext]_credentialVars

-----------------------------------------------------------------------------
\* Type invariant.
NTypeOK ==
  /\ inForce["vps"] \in PairNumbers /\ inForce["panel"] \in PairNumbers \cup {Nothing}
  /\ issued \in PairNumbers
  /\ installer \in PairNumbers \cup {Nothing}
  /\ {handoff, protected, older, form} \subseteq Files
  /\ archive \in Seq(Files) /\ Len(archive) <= MaxRuns
  /\ outcome \in {"none", "running", "failed", "killed", "shown", "rolled back"}

\* The kinds whose login the menu has just set or proved.
Established ==
  IF menu = "construct" THEN Kinds ELSE IF menu \in Kinds THEN {menu} ELSE {}

\* What the operator is told to save really logs in: after a rotation, the
\* pair of the form for the rotated login is the one in force, and after menu
\* [1] both pairs are, whatever runs were cut, failed or rolled back before.
FormLogsIn ==
  outcome = "shown" => \A k \in Established : LogsIn(form, k)

\* 00-auto-install-or-optimize.sh:324: a new run gets a new truth handoff.
\* Opening it is no reason to stop the run.
OpeningNeverStops ==
  ~(At("restore strictly") /\ ~RestoreStatus)
=============================================================================
