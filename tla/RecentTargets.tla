--------------------------- MODULE RecentTargets ---------------------------
(***************************************************************************)
(* The login history (recent_targets.go): a file of host, user, port and   *)
(* time of last use, its older copy under the name TextNodeAssistant, and  *)
(* programs that read both, show the merged list, and rewrite the file.    *)
(* A file is a function from targets to the time of last use, 0 when the   *)
(* target is not in it, so an absent and an empty file are the same.       *)
(***************************************************************************)
EXTENDS Naturals, FiniteSets

CONSTANTS
  Programs,        \* running copies of the program
  Targets,         \* user@host:port
  MaxRecent,       \* maxRecentTargets
  MaxUses,         \* bound on the logins of a run
  LegacyRemovable  \* whether os.Remove of the old file works

ASSUME RecentTargetsAssumption ==
  /\ MaxRecent \in Nat \ {0} /\ MaxUses \in Nat
  /\ LegacyRemovable \in BOOLEAN
  /\ IsFiniteSet(Targets) /\ IsFiniteSet(Programs)

VARIABLES
  current, legacy,  \* the two files
  clock,            \* time of the last use recorded
  place,               \* where each program is
  readFile,             \* the current file as the program read it
  shown,            \* the list the user chooses from
  chosen,           \* what the user chose: an entry to delete, or a login
  toWrite,            \* the content the program is about to write
  gone              \* history: time of last use of reportedly deleted entries

recentVars == <<current, legacy, clock, place, readFile, shown, chosen, toWrite, gone>>
historyFiles == <<current, legacy>>

NoTargets == [t \in Targets |-> 0]
Entries(f) == {t \in Targets : f[t] > 0}
RecentChoices == [op : {"none"}] \cup [op : {"remember"}, target : Targets]
           \cup [op : {"delete"}, target : Targets, index : 1..MaxRecent]
NoChoice == [op |-> "none"]

\* Position in the list, which is sorted by time of last use, latest first.
Position(f, t) == Cardinality({u \in Entries(f) : f[u] >= f[t]})

NormalizeUncapped(f) == [t \in Targets |-> f[t]]

\* normalizeRecentTargets: the latest entry of each target, at most MaxRecent.
Normalize(f) ==
  [t \in Targets |-> IF f[t] > 0 /\ Position(f, t) <= MaxRecent THEN f[t] ELSE 0]

\* loadRecentTargets merges the two files.
Merge(f, g) ==
  Normalize([t \in Targets |->
               LET F == Normalize(f)  G == Normalize(g)
               IN IF F[t] >= G[t] THEN F[t] ELSE G[t]])

RecentInit ==
  /\ current = NoTargets
  /\ \E olds \in SUBSET Targets : \E order \in [Targets -> 0..Cardinality(Targets)] :
       /\ \A t \in Targets : order[t] > 0 <=> t \in olds
       /\ \A t, u \in olds : t # u => order[t] # order[u]
       /\ legacy = order
  /\ clock = Cardinality(Targets)
  /\ place = [p \in Programs |-> "idle"]
  /\ readFile = [p \in Programs |-> NoTargets]
  /\ shown = [p \in Programs |-> NoTargets]
  /\ chosen = [p \in Programs |-> NoChoice]
  /\ toWrite = [p \in Programs |-> NoTargets]
  /\ gone = NoTargets

\* The old file is removed after the new one has been written.
LegacyKept == legacy
LegacyDropped == IF LegacyRemovable THEN NoTargets ELSE legacy

Goes(p, from, to) == place[p] = from /\ place' = [place EXCEPT ![p] = to]

\* The handler returns: its local variables are gone.
RecentReturns(p, from) ==
  /\ Goes(p, from, "idle")
  /\ readFile' = [readFile EXCEPT ![p] = NoTargets]
  /\ shown' = [shown EXCEPT ![p] = NoTargets]
  /\ chosen' = [chosen EXCEPT ![p] = NoChoice]
  /\ toWrite' = [toWrite EXCEPT ![p] = NoTargets]

-----------------------------------------------------------------------------
\* manageRecentTargets and chooseConnectionDetails show the merged list.

ReadForMenu(p) ==
  /\ Goes(p, "idle", "reading")
  /\ readFile' = [readFile EXCEPT ![p] = current]
  /\ UNCHANGED <<historyFiles, clock, shown, chosen, toWrite, gone>>

ShowMenu(p) ==
  /\ Goes(p, "reading", "menu")
  /\ shown' = [shown EXCEPT ![p] = Merge(readFile[p], legacy)]
  /\ UNCHANGED <<historyFiles, clock, readFile, chosen, toWrite, gone>>

LeaveMenu(p) ==
  /\ RecentReturns(p, "menu")
  /\ UNCHANGED <<historyFiles, clock, gone>>

\* deleteRecentTarget is given the number of the entry and reads both files
\* again.
ChooseDelete(p, t) ==
  /\ Goes(p, "menu", "loading") /\ t \in Entries(shown[p])
  /\ chosen' = [chosen EXCEPT ![p] =
       [op |-> "delete", target |-> t, index |-> Position(shown[p], t)]]
  /\ readFile' = [readFile EXCEPT ![p] = current]
  /\ UNCHANGED <<historyFiles, clock, shown, toWrite, gone>>

\* rememberRecentTarget, after a connection that worked.
ChooseRemember(p, t) ==
  /\ Goes(p, "idle", "loading")
  /\ clock + Cardinality({q \in Programs : chosen[q].op = "remember"})
       < Cardinality(Targets) + MaxUses
  /\ chosen' = [chosen EXCEPT ![p] = [op |-> "remember", target |-> t]]
  /\ readFile' = [readFile EXCEPT ![p] = current]
  /\ UNCHANGED <<historyFiles, clock, shown, toWrite, gone>>

\* clearRecentTargets removes the two files one after the other.
ClearCurrent(p) ==
  /\ Goes(p, "menu", "clearing") /\ current' = NoTargets
  /\ UNCHANGED <<legacy, clock, readFile, shown, chosen, toWrite, gone>>

ClearLegacy(p) ==
  /\ RecentReturns(p, "clearing")
  /\ legacy' = LegacyDropped
  /\ UNCHANGED <<current, clock, gone>>

-----------------------------------------------------------------------------
\* The second read and saveRecentTargets

LoadToRemember(p) ==
  /\ chosen[p].op = "remember" /\ Goes(p, "loading", "write")
  /\ clock' = clock + 1
  /\ toWrite' = [toWrite EXCEPT ![p] =
       Normalize([Merge(readFile[p], legacy) EXCEPT ![chosen[p].target] = clock + 1])]
  /\ UNCHANGED <<historyFiles, readFile, shown, chosen, gone>>

\* The entry with the chosen number in the list as it is now.
Numbered(p) ==
  {t \in Entries(Merge(readFile[p], legacy)) :
     Position(Merge(readFile[p], legacy), t) = chosen[p].index}

LoadToDelete(p) ==
  /\ chosen[p].op = "delete"
  /\ \/ /\ Numbered(p) # {} /\ Goes(p, "loading", "write")
        /\ toWrite' = [toWrite EXCEPT ![p] =
             [t \in Targets |-> IF t \in Numbered(p) THEN 0
                                ELSE Merge(readFile[p], legacy)[t]]]
        /\ UNCHANGED <<readFile, shown, chosen>>
     \/ Numbered(p) = {} /\ RecentReturns(p, "loading")
  /\ UNCHANGED <<historyFiles, clock, gone>>

\* The temporary file is written before the old one is removed.
RemoveOld(p) ==
  /\ Goes(p, "write", "removed") /\ current' = NoTargets
  /\ UNCHANGED <<legacy, clock, readFile, shown, chosen, toWrite, gone>>

RenameNew(p) ==
  /\ Goes(p, "removed", "renamed") /\ current' = toWrite[p]
  /\ UNCHANGED <<legacy, clock, readFile, shown, chosen, toWrite, gone>>

\* The old history is removed, and any error of that ignored; then the
\* program reports the entry as deleted.
DropLegacy(p) ==
  /\ RecentReturns(p, "renamed")
  /\ legacy' = LegacyDropped
  /\ gone' = IF chosen[p].op = "delete"
             THEN [gone EXCEPT ![chosen[p].target] = clock] ELSE gone
  /\ UNCHANGED <<current, clock>>

\* The file cannot be written, removed or renamed, or the program is killed.
RecentFails(p) ==
  /\ \E from \in {"reading", "loading", "write", "removed", "renamed",
                  "clearing"} : RecentReturns(p, from)
  /\ UNCHANGED <<historyFiles, clock, gone>>

RecentNext ==
  \E p \in Programs :
    \/ ReadForMenu(p) \/ ShowMenu(p) \/ LeaveMenu(p)
    \/ ClearCurrent(p) \/ ClearLegacy(p)
    \/ \E t \in Targets : ChooseDelete(p, t) \/ ChooseRemember(p, t)
    \/ LoadToRemember(p) \/ LoadToDelete(p)
    \/ RemoveOld(p) \/ RenameNew(p) \/ DropLegacy(p) \/ RecentFails(p)

RecentSpec == RecentInit /\ [][RecentNext]_recentVars
-----------------------------------------------------------------------------
HistoryFiles == [Targets -> 0..(Cardinality(Targets) + MaxUses)]

RTypeOK ==
  /\ current \in HistoryFiles /\ legacy \in HistoryFiles /\ gone \in HistoryFiles
  /\ clock \in 0..(Cardinality(Targets) + MaxUses)
  /\ place \in [Programs -> {"idle", "reading", "menu", "loading", "write",
                          "removed", "renamed", "clearing"}]
  /\ readFile \in [Programs -> HistoryFiles] /\ shown \in [Programs -> HistoryFiles]
  /\ chosen \in [Programs -> RecentChoices]
  /\ toWrite \in [Programs -> HistoryFiles]

\* An entry that was reported as deleted does not come back from either file
\* (recent_targets.go:159) unless it is used again.
DeletedStaysAway ==
  \A t \in Targets :
    Merge(current, legacy)[t] = 0 \/ Merge(current, legacy)[t] > gone[t]
=============================================================================
