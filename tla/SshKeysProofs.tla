--------------------------- MODULE SshKeysProofs ---------------------------
(***************************************************************************)
(* Proofs about SshKeys, for any number of keys: an installed key can be   *)
(* revoked as long as the VPS accepts it, a key that has been bound is     *)
(* never lost, and the cleanup of a temporary login never revokes it,      *)
(* whatever an earlier program, a shutdown or a lost answer has done; the  *)
(* handle of a login that was not cleaned up is not dropped, a managed     *)
(* login that worked still works, and the panel closes before its login.   *)
(***************************************************************************)
EXTENDS SshKeys, TLAPS

-----------------------------------------------------------------------------
(* The inductive invariant.                                                *)

BackupKeys == {b.priv : b \in backups}

\* The one-time keys that the program may still clean up.
Handles == {action, active, heldPanel, cleaning.key} \cap Keys

SigningIn == {"install", "installing", "verifying", "offer"}
Promoting == {"promotePublic", "promoteVerify", "promoteDone"}
Restoring == {"restoreInstall", "restoreFiles"}

\* Keys are numbered as they are generated.
KeysNumbered ==
  /\ bound \cup confirmed \cup ManagedSide \subseteq 1..generated
  /\ Handles \subseteq 1..generated
  /\ {child, key} \subseteq 0..generated

\* A key that may be cleaned up has not been bound, and is in the managed
\* directory only while it is promoted; a line of it is known to be there.
HandleIsTemporary(k) ==
  /\ k \notin bound \cup spare \cup BackupKeys
  /\ priv = k => pc \in Promoting /\ key = k
  /\ k \in confirmed => k \in installed
HandlesAreTemporary == \A k \in Handles \ cleaned : HandleIsTemporary(k)

\* What is removed from the disk is not accepted by the VPS.
RemovedIsRevoked ==
  cleaning.step = "remove" => cleaning.key \notin confirmed \cap authorized

\* One cleanup at a time, of a key that is not cleaned up yet: by the action at
\* one of its cleaning points, or by the shutdown.
CleaningOnce ==
  /\ cleaning.by = "nobody" => cleaning = NotCleaning
  /\ cleaning.by # "nobody" => cleaning.key \in Keys
  /\ cleaning.step \in {"revoke", "remove"} => cleaning.key \notin cleaned
  /\ cleaning.by = "main" => CleaningPoint
  /\ cleaning.by = "signal" => signal \in {"held", "active"}

\* The ssh process that installs a key, perhaps of an earlier program, works for
\* a key whose installation nobody has reported.
ChildIsNew ==
  child # None => child \notin confirmed /\ (purpose = "rotate" => child # key)

\* Until the promotion ends the key of the login is nowhere but in its temporary
\* directory and, from PromotePrivate on, in the managed one; only a shutdown may
\* take the former away, after the revocation.
NewKey ==
  /\ pc \in SigningIn \cup Promoting =>
       /\ key \in Keys \ (bound \cup spare \cup BackupKeys)
       /\ signal = "none" => key \in temps
       /\ purpose \in {"login", "restore"}
  /\ pc \in {"install", "installing"} => key \notin confirmed
  /\ pc \in Promoting =>
       priv = key /\ (key \in confirmed \cap authorized => key \in temps)

\* A restoration works with the managed place empty, and keeps the backup.
RestoredKey ==
  /\ pc \in Restoring \/ (purpose = "restore" /\ pc \in SigningIn) =>
       priv = None /\ old \in BackupKeys \ {None}
  /\ pc = "restoreVerify" => priv = old /\ old \in BackupKeys

\* A rotation keeps the new key aside until it replaces the old one.
RotatedKey ==
  /\ pc \in {"rotate", "rotate1", "rotate2", "rotate3"} =>
       key \in spare /\ purpose = "rotate"
  /\ pc \in {"rotate", "rotate1"} => priv # None
  /\ pc \in {"rotate2", "rotate3"} => priv = None

\* Why the held panel is released.
ReleasedFor == pc = "releaseHeld" => purpose \in {"login", "clear", "archive"}

KeysInv ==
  /\ KTypeOK /\ KeysNumbered /\ HandlesAreTemporary /\ RemovedIsRevoked /\ CleaningOnce
  /\ ChildIsNew /\ NewKey /\ RestoredKey /\ RotatedKey /\ ReleasedFor
  /\ KeyKeptUntilRevoked /\ BoundKeysKept

-----------------------------------------------------------------------------
(* Types, part by part, and what is on the disk.                           *)

TypedVps == authorized \subseteq Keys /\ cutShort \in BOOLEAN
TypedDisk ==
  /\ temps \subseteq 1..generated
  /\ priv \in Keys \cup {None} /\ pub \in Keys \cup {None}
  /\ spare \subseteq Keys /\ backups \subseteq KeyPairs
TypedPointers ==
  /\ {action, active, heldPanel} \subseteq Connections \cup {None} /\ active # Managed
  /\ installed \subseteq Keys /\ cleaned \subseteq Keys
TypedSsh == tunnel \in Connections \cup {None} /\ masters \subseteq Connections
TypedWork ==
  /\ pc \in Pcs /\ failed \in BOOLEAN /\ ignored \in BOOLEAN /\ purpose \in Jobs
  /\ oldVerified \in BOOLEAN
TypedKeys == {key, old, child} \subseteq Keys \cup {None}
TypedShutdown ==
  /\ cleaning \in [by : {"nobody", "main", "signal"}, key : Keys \cup {None},
                   step : {"none", "revoke", "remove", "done", "failed"}]
  /\ signal \in {"none", "held", "active", "close"}
TypedKeyHistory ==
  generated \in 0..MaxKeys /\ confirmed \subseteq Keys /\ bound \subseteq Keys

LEMMA TypedIsTypeOK ==
  /\ TypedVps' /\ TypedDisk' /\ TypedPointers' /\ TypedSsh'
  /\ TypedWork' /\ TypedKeys' /\ TypedShutdown' /\ TypedKeyHistory'
  => KTypeOK'
  BY DEF TypedVps, TypedDisk, TypedPointers, TypedSsh, TypedWork, TypedKeys,
     TypedShutdown, TypedKeyHistory, KTypeOK

LEMMA ManagedSideIs ==
  /\ ManagedSide = ({priv} \cup spare \cup BackupKeys) \ {None}
  /\ ManagedSide' = ({priv'} \cup spare' \cup BackupKeys') \ {None}
  BY DEF ManagedSide, BackupKeys, None

LEMMA ArchiveKeeps == ASSUME backups' = ArchivePair
                      PROVE  BackupKeys' \ {None} = (BackupKeys \cup {priv}) \ {None}
<1>1. CASE <<priv, pub>> = <<None, None>>
  BY <1>1 DEF ArchivePair, BackupKeys
<1>2. CASE <<priv, pub>> # <<None, None>>
  <2>1. backups' = backups \cup {[priv |-> priv, pub |-> pub]}
    BY <1>2 DEF ArchivePair
  <2>2. BackupKeys' = BackupKeys \cup {[priv |-> priv, pub |-> pub].priv}
    BY <2>1 DEF BackupKeys
  <2> QED
    BY <2>2
<1> QED
  BY <1>1, <1>2

LEMMA ArchivedTyped == ASSUME KTypeOK PROVE ArchivePair \subseteq KeyPairs
  BY DEF ArchivePair, KTypeOK, KeyPairs, None

LEMMA RestorableIs == /\ Restorable \subseteq BackupKeys \ {None}
                      /\ KTypeOK => Restorable \subseteq Keys
  BY DEF Restorable, BackupKeys, KTypeOK, KeyPairs

\* Logging in with a temporary or the managed key.
LEMMA SignInStep ==
  ASSUME KeysInv,
         ChooseTemporary \/ ChooseManaged \/ ChooseManagedAgain \/
         StartInstall \/ ChildAppends \/ ChildFails \/ InstallAnswered
         \/ InstallLost \/ TemporaryVerified \/ StaysTemporary
  PROVE  KeysInv'
<1> USE SshKeysAssumption DEF KeysInv, Keys, None, Managed, NotCleaning,
       vps, localDisk, pointers, authFlags, ssh, work, shutdown, history
<1>1. ASSUME ChooseTemporary PROVE KeysInv'
  <2>a. BackupKeys' = BackupKeys
    BY <1>1 DEF ChooseTemporary, BackupKeys
  <2>1. KTypeOK'
    <3>1. TypedVps'
      BY <1>1 DEF ChooseTemporary, TypedVps, KTypeOK
    <3>2. TypedDisk'
      BY <1>1 DEF ChooseTemporary, NewTemporary, TypedDisk, KTypeOK
    <3>3. TypedPointers'
      BY <1>1 DEF ChooseTemporary, NewTemporary, TypedPointers, KTypeOK, Connections
    <3>4. TypedSsh'
      BY <1>1 DEF ChooseTemporary, TypedSsh, KTypeOK
    <3>5. TypedWork'
      BY <1>1 DEF ChooseTemporary, Moves, NewTemporary, TypedWork, KTypeOK, Pcs,
         Jobs
    <3>6. TypedKeys'
      BY <1>1 DEF ChooseTemporary, NewTemporary, TypedKeys, KTypeOK
    <3>7. TypedShutdown'
      BY <1>1 DEF ChooseTemporary, TypedShutdown, KTypeOK
    <3>8. TypedKeyHistory'
      BY <1>1 DEF ChooseTemporary, NewTemporary, TypedKeyHistory, KTypeOK
    <3> QED
      BY <3>1, <3>2, <3>3, <3>4, <3>5, <3>6, <3>7, <3>8, TypedIsTypeOK
  <2>2. KeysNumbered'
    BY <1>1, <2>a, ManagedSideIs DEF ChooseTemporary, NewTemporary, KeysNumbered,
       Handles, KTypeOK
  <2>3. HandlesAreTemporary'
    BY <1>1, <2>a, ManagedSideIs DEF ChooseTemporary, Moves, NewTemporary,
       HandlesAreTemporary, HandleIsTemporary, Handles, Promoting, KeysNumbered, KTypeOK
  <2>4. RemovedIsRevoked' /\ CleaningOnce' /\ ChildIsNew'
    BY <1>1 DEF ChooseTemporary, NewTemporary, RemovedIsRevoked, CleaningOnce,
       ChildIsNew
  <2>5. NewKey' /\ RestoredKey' /\ RotatedKey' /\ ReleasedFor'
    BY <1>1, <2>a, ManagedSideIs DEF ChooseTemporary, Moves, NewTemporary, NewKey,
       Promoting, RestoredKey, Restoring, RotatedKey, ReleasedFor, KeysNumbered, KTypeOK
  <2>6. KeyKeptUntilRevoked' /\ BoundKeysKept'
    BY <1>1, <2>a, ManagedSideIs DEF ChooseTemporary, NewTemporary,
       KeyKeptUntilRevoked, OnDisk, BoundKeysKept
  <2> QED
    BY <2>1, <2>2, <2>3, <2>4, <2>5, <2>6
<1>2. ASSUME ChooseManaged PROVE KeysInv'
  <2>a. BackupKeys' = BackupKeys
    BY <1>2 DEF ChooseManaged, BackupKeys
  <2>1. KTypeOK'
    <3>1. TypedVps'
      BY <1>2 DEF ChooseManaged, TypedVps, KTypeOK
    <3>2. TypedDisk'
      BY <1>2 DEF ChooseManaged, TypedDisk, KTypeOK
    <3>3. TypedPointers'
      BY <1>2 DEF ChooseManaged, TypedPointers, KTypeOK, Connections
    <3>4. TypedSsh'
      BY <1>2 DEF ChooseManaged, TypedSsh, KTypeOK, Connections
    <3>5. TypedWork'
      BY <1>2 DEF ChooseManaged, Moves, TypedWork, KTypeOK, Pcs
    <3>6. TypedKeys'
      BY <1>2 DEF ChooseManaged, TypedKeys, KTypeOK
    <3>7. TypedShutdown'
      BY <1>2 DEF ChooseManaged, TypedShutdown, KTypeOK
    <3>8. TypedKeyHistory'
      BY <1>2 DEF ChooseManaged, TypedKeyHistory, KTypeOK
    <3> QED
      BY <3>1, <3>2, <3>3, <3>4, <3>5, <3>6, <3>7, <3>8, TypedIsTypeOK
  <2>2. KeysNumbered'
    BY <1>2, <2>a, ManagedSideIs DEF ChooseManaged, KeysNumbered, Handles
  <2>3. HandlesAreTemporary'
    BY <1>2, <2>a DEF ChooseManaged, Moves, HandlesAreTemporary, HandleIsTemporary,
       Handles, Promoting
  <2>4. RemovedIsRevoked' /\ CleaningOnce' /\ ChildIsNew'
    BY <1>2 DEF ChooseManaged, Moves, RemovedIsRevoked, CleaningOnce, CleaningPoint,
       ChildIsNew
  <2>5. NewKey' /\ RestoredKey' /\ RotatedKey' /\ ReleasedFor'
    BY <1>2 DEF ChooseManaged, Moves, NewKey, SigningIn, Promoting, RestoredKey,
       Restoring, RotatedKey, ReleasedFor
  <2>6. KeyKeptUntilRevoked' /\ BoundKeysKept'
    BY <1>2, <2>a, ManagedSideIs DEF ChooseManaged, KeyKeptUntilRevoked, OnDisk,
       BoundKeysKept
  <2> QED
    BY <2>1, <2>2, <2>3, <2>4, <2>5, <2>6
<1>3. ASSUME ChooseManagedAgain PROVE KeysInv'
  <2>a. BackupKeys' \ {None} = (BackupKeys \cup {priv}) \ {None}
    BY <1>3, ArchiveKeeps DEF ChooseManagedAgain
  <2>1. KTypeOK'
    <3>1. TypedVps'
      BY <1>3 DEF ChooseManagedAgain, TypedVps, KTypeOK
    <3>2. TypedDisk'
      BY <1>3, ArchivedTyped DEF ChooseManagedAgain, NewTemporary, TypedDisk,
         KTypeOK
    <3>3. TypedPointers'
      BY <1>3 DEF ChooseManagedAgain, NewTemporary, TypedPointers, KTypeOK,
         Connections
    <3>4. TypedSsh'
      BY <1>3 DEF ChooseManagedAgain, TypedSsh, KTypeOK
    <3>5. TypedWork'
      BY <1>3 DEF ChooseManagedAgain, Moves, NewTemporary, TypedWork, KTypeOK, Pcs,
         Jobs
    <3>6. TypedKeys'
      BY <1>3 DEF ChooseManagedAgain, NewTemporary, TypedKeys, KTypeOK
    <3>7. TypedShutdown'
      BY <1>3 DEF ChooseManagedAgain, TypedShutdown, KTypeOK
    <3>8. TypedKeyHistory'
      BY <1>3 DEF ChooseManagedAgain, NewTemporary, TypedKeyHistory, KTypeOK
    <3> QED
      BY <3>1, <3>2, <3>3, <3>4, <3>5, <3>6, <3>7, <3>8, TypedIsTypeOK
  <2>2. KeysNumbered'
    BY <1>3, <2>a, ManagedSideIs DEF ChooseManagedAgain, NewTemporary, KeysNumbered,
       Handles, KTypeOK
  <2>3. HandlesAreTemporary'
    BY <1>3, <2>a, ManagedSideIs DEF ChooseManagedAgain, Moves, NewTemporary,
       HandlesAreTemporary, HandleIsTemporary, Handles, Promoting, KeysNumbered, KTypeOK
  <2>4. RemovedIsRevoked' /\ CleaningOnce' /\ ChildIsNew'
    BY <1>3 DEF ChooseManagedAgain, NewTemporary, RemovedIsRevoked, CleaningOnce,
       ChildIsNew
  <2>5. NewKey' /\ RestoredKey' /\ RotatedKey' /\ ReleasedFor'
    BY <1>3, <2>a, ManagedSideIs DEF ChooseManagedAgain, Moves, NewTemporary,
       NewKey, Promoting, RestoredKey, Restoring, RotatedKey, ReleasedFor, KeysNumbered,
       KTypeOK
  <2>6. KeyKeptUntilRevoked' /\ BoundKeysKept'
    BY <1>3, <2>a, ManagedSideIs DEF ChooseManagedAgain, NewTemporary,
       KeyKeptUntilRevoked, OnDisk, BoundKeysKept
  <2> QED
    BY <2>1, <2>2, <2>3, <2>4, <2>5, <2>6
<1>4. ASSUME StartInstall PROVE KeysInv'
  <2>a. BackupKeys' = BackupKeys
    BY <1>4 DEF StartInstall, BackupKeys
  <2>1. KTypeOK'
    BY <1>4 DEF StartInstall, Moves, KTypeOK, Pcs
  <2>2. KeysNumbered'
    BY <1>4, <2>a, ManagedSideIs DEF StartInstall, KeysNumbered, Handles
  <2>3. HandlesAreTemporary'
    BY <1>4, <2>a DEF StartInstall, Moves, HandlesAreTemporary, HandleIsTemporary,
       Handles, Promoting
  <2>4. RemovedIsRevoked' /\ CleaningOnce' /\ ChildIsNew'
    BY <1>4 DEF StartInstall, Moves, RemovedIsRevoked, CleaningOnce, CleaningPoint,
       ChildIsNew, NewKey, SigningIn
  <2>5. NewKey' /\ RestoredKey' /\ RotatedKey' /\ ReleasedFor'
    BY <1>4, <2>a DEF StartInstall, Moves, NewKey, SigningIn, Promoting,
       RestoredKey, Restoring, RotatedKey, ReleasedFor
  <2>6. KeyKeptUntilRevoked' /\ BoundKeysKept'
    BY <1>4, <2>a, ManagedSideIs DEF StartInstall, KeyKeptUntilRevoked, OnDisk,
       BoundKeysKept
  <2> QED
    BY <2>1, <2>2, <2>3, <2>4, <2>5, <2>6
<1>5. ASSUME ChildAppends PROVE KeysInv'
  <2>a. BackupKeys' = BackupKeys
    BY <1>5 DEF ChildAppends, BackupKeys
  <2>1. KTypeOK'
    <3>1. TypedVps'
      BY <1>5 DEF ChildAppends, TypedVps, KTypeOK
    <3>2. TypedDisk'
      BY <1>5 DEF ChildAppends, TypedDisk, KTypeOK
    <3>3. TypedPointers'
      BY <1>5 DEF ChildAppends, TypedPointers, KTypeOK
    <3>4. TypedSsh'
      BY <1>5 DEF ChildAppends, TypedSsh, KTypeOK
    <3>5. TypedWork'
      BY <1>5 DEF ChildAppends, TypedWork, KTypeOK
    <3>6. TypedKeys'
      BY <1>5 DEF ChildAppends, TypedKeys, KTypeOK
    <3>7. TypedShutdown'
      BY <1>5 DEF ChildAppends, TypedShutdown, KTypeOK
    <3>8. TypedKeyHistory'
      BY <1>5 DEF ChildAppends, TypedKeyHistory, KTypeOK
    <3> QED
      BY <3>1, <3>2, <3>3, <3>4, <3>5, <3>6, <3>7, <3>8, TypedIsTypeOK
  <2>2. KeysNumbered'
    BY <1>5, <2>a, ManagedSideIs DEF ChildAppends, KeysNumbered, Handles, KTypeOK
  <2>3. HandlesAreTemporary'
    BY <1>5, <2>a DEF ChildAppends, HandlesAreTemporary, HandleIsTemporary, Handles
  <2>4. RemovedIsRevoked' /\ CleaningOnce' /\ ChildIsNew'
    BY <1>5 DEF ChildAppends, RemovedIsRevoked, CleaningOnce, CleaningPoint,
       ChildIsNew
  <2>5. NewKey' /\ RestoredKey' /\ RotatedKey' /\ ReleasedFor'
    BY <1>5, <2>a DEF ChildAppends, NewKey, RestoredKey, RotatedKey, ReleasedFor,
       ChildIsNew
  <2>6. KeyKeptUntilRevoked' /\ BoundKeysKept'
    BY <1>5, <2>a, ManagedSideIs DEF ChildAppends, KeyKeptUntilRevoked, OnDisk,
       BoundKeysKept, ChildIsNew
  <2> QED
    BY <2>1, <2>2, <2>3, <2>4, <2>5, <2>6
<1>6. ASSUME ChildFails PROVE KeysInv'
  <2>a. BackupKeys' = BackupKeys
    BY <1>6 DEF ChildFails, BackupKeys
  <2>1. KTypeOK'
    BY <1>6 DEF ChildFails, KTypeOK
  <2>2. KeysNumbered'
    BY <1>6, <2>a, ManagedSideIs DEF ChildFails, KeysNumbered, Handles, KTypeOK
  <2>3. HandlesAreTemporary'
    BY <1>6, <2>a DEF ChildFails, HandlesAreTemporary, HandleIsTemporary, Handles
  <2>4. RemovedIsRevoked' /\ CleaningOnce' /\ ChildIsNew'
    BY <1>6 DEF ChildFails, RemovedIsRevoked, CleaningOnce, CleaningPoint,
       ChildIsNew
  <2>5. NewKey' /\ RestoredKey' /\ RotatedKey' /\ ReleasedFor'
    BY <1>6, <2>a DEF ChildFails, NewKey, RestoredKey, RotatedKey, ReleasedFor
  <2>6. KeyKeptUntilRevoked' /\ BoundKeysKept'
    BY <1>6, <2>a, ManagedSideIs DEF ChildFails, KeyKeptUntilRevoked, OnDisk,
       BoundKeysKept
  <2> QED
    BY <2>1, <2>2, <2>3, <2>4, <2>5, <2>6
<1>7. ASSUME InstallAnswered PROVE KeysInv'
  <2>a. BackupKeys' = BackupKeys
    BY <1>7 DEF InstallAnswered, BackupKeys
  <2>1. KTypeOK'
    BY <1>7 DEF InstallAnswered, Moves, KTypeOK, Pcs
  <2>2. KeysNumbered'
    BY <1>7, <2>a, ManagedSideIs DEF InstallAnswered, KeysNumbered, Handles, KTypeOK
  <2>3. HandlesAreTemporary'
    BY <1>7, <2>a DEF InstallAnswered, Moves, HandlesAreTemporary,
       HandleIsTemporary, Handles, Promoting
  <2>4. RemovedIsRevoked' /\ CleaningOnce' /\ ChildIsNew'
    BY <1>7 DEF InstallAnswered, Moves, RemovedIsRevoked, CleaningOnce,
       CleaningPoint, ChildIsNew, KTypeOK
  <2>5. NewKey' /\ RestoredKey' /\ RotatedKey' /\ ReleasedFor'
    BY <1>7, <2>a DEF InstallAnswered, Moves, NewKey, SigningIn, Promoting,
       RestoredKey, Restoring, RotatedKey, ReleasedFor
  <2>6. KeyKeptUntilRevoked' /\ BoundKeysKept'
    BY <1>7, <2>a, ManagedSideIs DEF InstallAnswered, Moves, KeyKeptUntilRevoked,
       OnDisk, BoundKeysKept, NewKey, SigningIn
  <2> QED
    BY <2>1, <2>2, <2>3, <2>4, <2>5, <2>6
<1>8. ASSUME InstallLost PROVE KeysInv'
  <2>a. BackupKeys' = BackupKeys
    BY <1>8 DEF InstallLost, BackupKeys
  <2>1. KTypeOK'
    BY <1>8 DEF InstallLost, FailsFrom, KTypeOK, Pcs
  <2>2. KeysNumbered'
    BY <1>8, <2>a, ManagedSideIs DEF InstallLost, KeysNumbered, Handles
  <2>3. HandlesAreTemporary'
    BY <1>8, <2>a DEF InstallLost, FailsFrom, HandlesAreTemporary,
       HandleIsTemporary, Handles, Promoting
  <2>4. RemovedIsRevoked' /\ CleaningOnce' /\ ChildIsNew'
    BY <1>8 DEF InstallLost, FailsFrom, RemovedIsRevoked, CleaningOnce,
       CleaningPoint, ChildIsNew
  <2>5. NewKey' /\ RestoredKey' /\ RotatedKey' /\ ReleasedFor'
    BY <1>8 DEF InstallLost, FailsFrom, NewKey, SigningIn, Promoting, RestoredKey,
       Restoring, RotatedKey, ReleasedFor
  <2>6. KeyKeptUntilRevoked' /\ BoundKeysKept'
    BY <1>8, <2>a, ManagedSideIs DEF InstallLost, KeyKeptUntilRevoked, OnDisk,
       BoundKeysKept
  <2> QED
    BY <2>1, <2>2, <2>3, <2>4, <2>5, <2>6
<1>9. ASSUME TemporaryVerified PROVE KeysInv'
  <2>a. BackupKeys' = BackupKeys
    BY <1>9 DEF TemporaryVerified, BackupKeys
  <2>1. KTypeOK'
    BY <1>9 DEF TemporaryVerified, Moves, KTypeOK, Connections, Pcs
  <2>2. KeysNumbered'
    BY <1>9, <2>a, ManagedSideIs DEF TemporaryVerified, KeysNumbered, Handles
  <2>3. HandlesAreTemporary'
    BY <1>9, <2>a DEF TemporaryVerified, Moves, HandlesAreTemporary,
       HandleIsTemporary, Handles, Promoting
  <2>4. RemovedIsRevoked' /\ CleaningOnce' /\ ChildIsNew'
    BY <1>9 DEF TemporaryVerified, Moves, RemovedIsRevoked, CleaningOnce,
       CleaningPoint, ChildIsNew
  <2>5. NewKey' /\ RestoredKey' /\ RotatedKey' /\ ReleasedFor'
    BY <1>9, <2>a DEF TemporaryVerified, Moves, NewKey, SigningIn, Promoting,
       RestoredKey, Restoring, RotatedKey, ReleasedFor
  <2>6. KeyKeptUntilRevoked' /\ BoundKeysKept'
    BY <1>9, <2>a, ManagedSideIs DEF TemporaryVerified, KeyKeptUntilRevoked, OnDisk,
       BoundKeysKept
  <2> QED
    BY <2>1, <2>2, <2>3, <2>4, <2>5, <2>6
<1>10. ASSUME StaysTemporary PROVE KeysInv'
  <2>a. BackupKeys' = BackupKeys
    BY <1>10 DEF StaysTemporary, BackupKeys
  <2>1. KTypeOK'
    BY <1>10 DEF StaysTemporary, Moves, KTypeOK, Pcs
  <2>2. KeysNumbered'
    BY <1>10, <2>a, ManagedSideIs DEF StaysTemporary, KeysNumbered, Handles
  <2>3. HandlesAreTemporary'
    BY <1>10, <2>a DEF StaysTemporary, Moves, HandlesAreTemporary,
       HandleIsTemporary, Handles, Promoting
  <2>4. RemovedIsRevoked' /\ CleaningOnce' /\ ChildIsNew'
    BY <1>10 DEF StaysTemporary, Moves, RemovedIsRevoked, CleaningOnce,
       CleaningPoint, ChildIsNew
  <2>5. NewKey' /\ RestoredKey' /\ RotatedKey' /\ ReleasedFor'
    BY <1>10 DEF StaysTemporary, Moves, NewKey, SigningIn, Promoting, RestoredKey,
       Restoring, RotatedKey, ReleasedFor
  <2>6. KeyKeptUntilRevoked' /\ BoundKeysKept'
    BY <1>10, <2>a, ManagedSideIs DEF StaysTemporary, KeyKeptUntilRevoked, OnDisk,
       BoundKeysKept
  <2> QED
    BY <2>1, <2>2, <2>3, <2>4, <2>5, <2>6
<1> QED
  BY <1>1, <1>2, <1>3, <1>4, <1>5, <1>6, <1>7, <1>8, <1>9, <1>10

\* Promotion, and what an action does with its connection.
LEMMA PromoteStep ==
  ASSUME KeysInv,
         PromotePrivate \/ PromotePublic \/ PromotedVerified \/
         Promoted \/ PromoteFails \/ WorkDone \/ WorkFails \/
         OpenPanel
  PROVE  KeysInv'
<1> USE SshKeysAssumption DEF KeysInv, Keys, None, Managed, NotCleaning,
       vps, localDisk, pointers, authFlags, ssh, work, shutdown, history
<1>1. ASSUME PromotePrivate PROVE KeysInv'
  <2>a. BackupKeys' = BackupKeys
    BY <1>1 DEF PromotePrivate, BackupKeys
  <2>1. KTypeOK'
    BY <1>1 DEF PromotePrivate, Moves, KTypeOK, Pcs
  <2>2. KeysNumbered'
    BY <1>1, <2>a, ManagedSideIs DEF PromotePrivate, KeysNumbered, Handles
  <2>3. HandlesAreTemporary'
    BY <1>1, <2>a DEF PromotePrivate, Moves, HandlesAreTemporary, HandleIsTemporary,
       Handles, Promoting
  <2>4. RemovedIsRevoked' /\ CleaningOnce' /\ ChildIsNew'
    BY <1>1 DEF PromotePrivate, Moves, RemovedIsRevoked, CleaningOnce,
       CleaningPoint, ChildIsNew
  <2>5. NewKey' /\ RestoredKey' /\ RotatedKey' /\ ReleasedFor'
    BY <1>1, <2>a DEF PromotePrivate, Moves, MayPromote, NewKey, SigningIn,
       RestoredKey, Restoring, RotatedKey, ReleasedFor
  <2>6. KeyKeptUntilRevoked' /\ BoundKeysKept'
    BY <1>1, <2>a, ManagedSideIs DEF PromotePrivate, MayPromote,
       KeyKeptUntilRevoked, OnDisk, BoundKeysKept
  <2> QED
    BY <2>1, <2>2, <2>3, <2>4, <2>5, <2>6
<1>2. ASSUME PromotePublic PROVE KeysInv'
  <2>a. BackupKeys' = BackupKeys
    BY <1>2 DEF PromotePublic, BackupKeys
  <2>1. KTypeOK'
    BY <1>2 DEF PromotePublic, Moves, KTypeOK, Pcs
  <2>2. KeysNumbered'
    BY <1>2, <2>a, ManagedSideIs DEF PromotePublic, KeysNumbered, Handles
  <2>3. HandlesAreTemporary'
    BY <1>2, <2>a DEF PromotePublic, Moves, HandlesAreTemporary, HandleIsTemporary,
       Handles, Promoting
  <2>4. RemovedIsRevoked' /\ CleaningOnce' /\ ChildIsNew'
    BY <1>2 DEF PromotePublic, Moves, RemovedIsRevoked, CleaningOnce, CleaningPoint,
       ChildIsNew
  <2>5. NewKey' /\ RestoredKey' /\ RotatedKey' /\ ReleasedFor'
    BY <1>2, <2>a DEF PromotePublic, Moves, NewKey, SigningIn, Promoting,
       RestoredKey, Restoring, RotatedKey, ReleasedFor
  <2>6. KeyKeptUntilRevoked' /\ BoundKeysKept'
    BY <1>2, <2>a, ManagedSideIs DEF PromotePublic, KeyKeptUntilRevoked, OnDisk,
       BoundKeysKept
  <2> QED
    BY <2>1, <2>2, <2>3, <2>4, <2>5, <2>6
<1>3. ASSUME PromotedVerified PROVE KeysInv'
  <2>a. BackupKeys' = BackupKeys
    BY <1>3 DEF PromotedVerified, BackupKeys
  <2>1. KTypeOK'
    BY <1>3 DEF PromotedVerified, Moves, KTypeOK, Pcs
  <2>2. KeysNumbered'
    BY <1>3, <2>a, ManagedSideIs DEF PromotedVerified, KeysNumbered, Handles
  <2>3. HandlesAreTemporary'
    BY <1>3, <2>a DEF PromotedVerified, Moves, HandlesAreTemporary,
       HandleIsTemporary, Handles, Promoting
  <2>4. RemovedIsRevoked' /\ CleaningOnce' /\ ChildIsNew'
    BY <1>3 DEF PromotedVerified, Moves, RemovedIsRevoked, CleaningOnce,
       CleaningPoint, ChildIsNew
  <2>5. NewKey' /\ RestoredKey' /\ RotatedKey' /\ ReleasedFor'
    BY <1>3, <2>a DEF PromotedVerified, Moves, NewKey, SigningIn, Promoting,
       RestoredKey, Restoring, RotatedKey, ReleasedFor
  <2>6. KeyKeptUntilRevoked' /\ BoundKeysKept'
    BY <1>3, <2>a, ManagedSideIs DEF PromotedVerified, KeyKeptUntilRevoked, OnDisk,
       BoundKeysKept
  <2> QED
    BY <2>1, <2>2, <2>3, <2>4, <2>5, <2>6
<1>4. ASSUME Promoted PROVE KeysInv'
  <2>a. BackupKeys' = BackupKeys
    BY <1>4 DEF Promoted, BackupKeys
  <2>1. KTypeOK'
    <3>1. TypedVps'
      BY <1>4 DEF Promoted, TypedVps, KTypeOK
    <3>2. TypedDisk'
      BY <1>4 DEF Promoted, TypedDisk, KTypeOK
    <3>3. TypedPointers'
      <4>1. key \in Keys
        BY <1>4 DEF Promoted, Moves, NewKey, Promoting
      <4>2. /\ heldPanel \in Connections \cup {None}
            /\ installed \subseteq Keys /\ cleaned \subseteq Keys
        BY DEF KTypeOK
      <4>3. Managed \in Connections /\ Managed # None
        BY DEF Connections
      <4> QED
        BY <1>4, <4>1, <4>2, <4>3 DEF Promoted, Rebinds, TypedPointers
    <3>4. TypedSsh'
      BY <1>4 DEF Promoted, TypedSsh, KTypeOK, Connections
    <3>5. TypedWork'
      BY <1>4 DEF Promoted, Moves, TypedWork, KTypeOK, Pcs
    <3>6. TypedKeys'
      BY <1>4 DEF Promoted, TypedKeys, KTypeOK
    <3>7. TypedShutdown'
      BY <1>4 DEF Promoted, TypedShutdown, KTypeOK
    <3>8. TypedKeyHistory'
      BY <1>4 DEF Promoted, Moves, TypedKeyHistory, KTypeOK, NewKey, Promoting
    <3> QED
      BY <3>1, <3>2, <3>3, <3>4, <3>5, <3>6, <3>7, <3>8, TypedIsTypeOK
  <2>2. KeysNumbered'
    BY <1>4, <2>a, ManagedSideIs DEF Promoted, Moves, Rebinds, KeysNumbered, Handles,
       NewKey, Promoting
  <2>3. HandlesAreTemporary'
    BY <1>4, <2>a DEF Promoted, Rebinds, HandlesAreTemporary, HandleIsTemporary,
       Handles
  <2>4. RemovedIsRevoked' /\ CleaningOnce' /\ ChildIsNew'
    BY <1>4 DEF Promoted, RemovedIsRevoked, CleaningOnce, ChildIsNew
  <2>5. NewKey' /\ RestoredKey' /\ RotatedKey' /\ ReleasedFor'
    BY <1>4 DEF Promoted, Moves, NewKey, SigningIn, Promoting, RestoredKey,
       Restoring, RotatedKey, ReleasedFor
  <2>6. KeyKeptUntilRevoked' /\ BoundKeysKept'
    BY <1>4, <2>a, ManagedSideIs DEF Promoted, Moves, KeyKeptUntilRevoked, OnDisk,
       BoundKeysKept, NewKey, Promoting
  <2> QED
    BY <2>1, <2>2, <2>3, <2>4, <2>5, <2>6
<1>5. ASSUME PromoteFails PROVE KeysInv'
  <2>a. BackupKeys' = BackupKeys
    BY <1>5 DEF PromoteFails, BackupKeys
  <2>1. KTypeOK'
    BY <1>5 DEF PromoteFails, FailsFrom, KTypeOK, Pcs
  <2>2. KeysNumbered'
    BY <1>5, <2>a, ManagedSideIs DEF PromoteFails, KeysNumbered, Handles
  <2>3. HandlesAreTemporary'
    BY <1>5, <2>a DEF PromoteFails, HandlesAreTemporary, HandleIsTemporary, Handles
  <2>4. RemovedIsRevoked' /\ CleaningOnce' /\ ChildIsNew'
    BY <1>5 DEF PromoteFails, FailsFrom, RemovedIsRevoked, CleaningOnce,
       CleaningPoint, ChildIsNew
  <2>5. NewKey' /\ RestoredKey' /\ RotatedKey' /\ ReleasedFor'
    BY <1>5 DEF PromoteFails, FailsFrom, NewKey, SigningIn, Promoting, RestoredKey,
       Restoring, RotatedKey, ReleasedFor
  <2>6. KeyKeptUntilRevoked' /\ BoundKeysKept'
    BY <1>5, <2>a, ManagedSideIs DEF PromoteFails, FailsFrom, KeyKeptUntilRevoked,
       OnDisk, BoundKeysKept, NewKey, Promoting
  <2> QED
    BY <2>1, <2>2, <2>3, <2>4, <2>5, <2>6
<1>6. ASSUME WorkDone PROVE KeysInv'
  <2>a. BackupKeys' = BackupKeys
    BY <1>6 DEF WorkDone, BackupKeys
  <2>1. KTypeOK'
    BY <1>6 DEF WorkDone, Moves, KTypeOK, Pcs
  <2>2. KeysNumbered'
    BY <1>6, <2>a, ManagedSideIs DEF WorkDone, KeysNumbered, Handles
  <2>3. HandlesAreTemporary'
    BY <1>6, <2>a DEF WorkDone, Moves, HandlesAreTemporary, HandleIsTemporary,
       Handles, Promoting
  <2>4. RemovedIsRevoked' /\ CleaningOnce' /\ ChildIsNew'
    BY <1>6 DEF WorkDone, Moves, RemovedIsRevoked, CleaningOnce, CleaningPoint,
       ChildIsNew
  <2>5. NewKey' /\ RestoredKey' /\ RotatedKey' /\ ReleasedFor'
    BY <1>6 DEF WorkDone, Moves, NewKey, SigningIn, Promoting, RestoredKey,
       Restoring, RotatedKey, ReleasedFor
  <2>6. KeyKeptUntilRevoked' /\ BoundKeysKept'
    BY <1>6, <2>a, ManagedSideIs DEF WorkDone, KeyKeptUntilRevoked, OnDisk,
       BoundKeysKept
  <2> QED
    BY <2>1, <2>2, <2>3, <2>4, <2>5, <2>6
<1>7. ASSUME WorkFails PROVE KeysInv'
  <2>a. BackupKeys' = BackupKeys
    BY <1>7 DEF WorkFails, BackupKeys
  <2>1. KTypeOK'
    BY <1>7 DEF WorkFails, FailsFrom, KTypeOK, Pcs
  <2>2. KeysNumbered'
    BY <1>7, <2>a, ManagedSideIs DEF WorkFails, KeysNumbered, Handles
  <2>3. HandlesAreTemporary'
    BY <1>7, <2>a DEF WorkFails, FailsFrom, HandlesAreTemporary, HandleIsTemporary,
       Handles, Promoting
  <2>4. RemovedIsRevoked' /\ CleaningOnce' /\ ChildIsNew'
    BY <1>7 DEF WorkFails, FailsFrom, RemovedIsRevoked, CleaningOnce, CleaningPoint,
       ChildIsNew
  <2>5. NewKey' /\ RestoredKey' /\ RotatedKey' /\ ReleasedFor'
    BY <1>7 DEF WorkFails, FailsFrom, NewKey, SigningIn, Promoting, RestoredKey,
       Restoring, RotatedKey, ReleasedFor
  <2>6. KeyKeptUntilRevoked' /\ BoundKeysKept'
    BY <1>7, <2>a, ManagedSideIs DEF WorkFails, KeyKeptUntilRevoked, OnDisk,
       BoundKeysKept
  <2> QED
    BY <2>1, <2>2, <2>3, <2>4, <2>5, <2>6
<1>8. ASSUME OpenPanel PROVE KeysInv'
  <2>a. BackupKeys' = BackupKeys
    BY <1>8 DEF OpenPanel, BackupKeys
  <2>1. KTypeOK'
    BY <1>8 DEF OpenPanel, Moves, KTypeOK, Pcs
  <2>2. KeysNumbered'
    BY <1>8, <2>a, ManagedSideIs DEF OpenPanel, KeysNumbered, Handles
  <2>3. HandlesAreTemporary'
    BY <1>8, <2>a DEF OpenPanel, Moves, HandlesAreTemporary, HandleIsTemporary,
       Handles, Promoting
  <2>4. RemovedIsRevoked' /\ CleaningOnce' /\ ChildIsNew'
    BY <1>8 DEF OpenPanel, Moves, RemovedIsRevoked, CleaningOnce, CleaningPoint,
       ChildIsNew
  <2>5. NewKey' /\ RestoredKey' /\ RotatedKey' /\ ReleasedFor'
    BY <1>8 DEF OpenPanel, Moves, NewKey, SigningIn, Promoting, RestoredKey,
       Restoring, RotatedKey, ReleasedFor
  <2>6. KeyKeptUntilRevoked' /\ BoundKeysKept'
    BY <1>8, <2>a, ManagedSideIs DEF OpenPanel, KeyKeptUntilRevoked, OnDisk,
       BoundKeysKept
  <2> QED
    BY <2>1, <2>2, <2>3, <2>4, <2>5, <2>6
<1> QED
  BY <1>1, <1>2, <1>3, <1>4, <1>5, <1>6, <1>7, <1>8

\* Rotation.
LEMMA RotateStep ==
  ASSUME KeysInv,
         RotateStart \/ RotateInstall \/ RotatePrivateAway \/
         RotatePublicAway \/ RotatePrivateIn \/ RotatePublicIn \/
         RotateVerified \/ RotateRemove
  PROVE  KeysInv'
<1> USE SshKeysAssumption DEF KeysInv, Keys, None, Managed, NotCleaning,
       vps, localDisk, pointers, authFlags, ssh, work, shutdown, history
<1>1. ASSUME RotateStart PROVE KeysInv'
  <2>a. BackupKeys' = BackupKeys
    BY <1>1 DEF RotateStart, BackupKeys
  <2>1. KTypeOK'
    <3>1. TypedVps'
      BY <1>1 DEF RotateStart, TypedVps, KTypeOK
    <3>2. TypedDisk'
      BY <1>1 DEF RotateStart, TypedDisk, KTypeOK
    <3>3. TypedPointers'
      BY <1>1 DEF RotateStart, TypedPointers, KTypeOK
    <3>4. TypedSsh'
      BY <1>1 DEF RotateStart, TypedSsh, KTypeOK
    <3>5. TypedWork'
      <4>1. oldVerified' \in BOOLEAN
        <5>1. oldVerified' = FALSE \/ oldVerified' = (priv \in authorized)
          BY <1>1 DEF RotateStart
        <5>2. (priv \in authorized) \in BOOLEAN
          OBVIOUS
        <5> QED
          BY <5>1, <5>2
      <4>2. pc' \in Pcs /\ failed' \in BOOLEAN /\ ignored' \in BOOLEAN /\ purpose' \in Jobs
        BY <1>1 DEF RotateStart, Moves, KTypeOK, Pcs, Jobs
      <4> QED
        BY <4>1, <4>2 DEF TypedWork
    <3>6. TypedKeys'
      BY <1>1 DEF RotateStart, TypedKeys, KTypeOK
    <3>7. TypedShutdown'
      BY <1>1 DEF RotateStart, TypedShutdown, KTypeOK
    <3>8. TypedKeyHistory'
      BY <1>1 DEF RotateStart, TypedKeyHistory, KTypeOK
    <3> QED
      BY <3>1, <3>2, <3>3, <3>4, <3>5, <3>6, <3>7, <3>8, TypedIsTypeOK
  <2>2. KeysNumbered'
    BY <1>1, <2>a, ManagedSideIs DEF RotateStart, KeysNumbered, Handles, KTypeOK
  <2>3. HandlesAreTemporary'
    BY <1>1, <2>a DEF RotateStart, HandlesAreTemporary, HandleIsTemporary, Handles,
       Promoting, KeysNumbered, RestoredKey, KTypeOK
  <2>4. RemovedIsRevoked' /\ CleaningOnce' /\ ChildIsNew'
    BY <1>1 DEF RotateStart, Moves, RemovedIsRevoked, CleaningOnce, CleaningPoint,
       ChildIsNew, KeysNumbered, KTypeOK
  <2>5. NewKey' /\ RestoredKey' /\ RotatedKey' /\ ReleasedFor'
    BY <1>1 DEF RotateStart, Moves, NewKey, SigningIn, Promoting, RestoredKey,
       Restoring, RotatedKey, ReleasedFor
  <2>6. KeyKeptUntilRevoked' /\ BoundKeysKept'
    BY <1>1, <2>a, ManagedSideIs DEF RotateStart, KeyKeptUntilRevoked, OnDisk,
       BoundKeysKept
  <2> QED
    BY <2>1, <2>2, <2>3, <2>4, <2>5, <2>6
<1>2. ASSUME RotateInstall PROVE KeysInv'
  <2>a. BackupKeys' = BackupKeys
    BY <1>2 DEF RotateInstall, BackupKeys
  <2>1. KTypeOK'
    <3>1. TypedVps'
      BY <1>2 DEF RotateInstall, TypedVps, KTypeOK, RotatedKey
    <3>2. TypedDisk'
      BY <1>2 DEF RotateInstall, TypedDisk, KTypeOK
    <3>3. TypedPointers'
      BY <1>2 DEF RotateInstall, TypedPointers, KTypeOK
    <3>4. TypedSsh'
      BY <1>2 DEF RotateInstall, TypedSsh, KTypeOK
    <3>5. TypedWork'
      BY <1>2 DEF RotateInstall, TypedWork, KTypeOK, Pcs
    <3>6. TypedKeys'
      BY <1>2 DEF RotateInstall, TypedKeys, KTypeOK
    <3>7. TypedShutdown'
      BY <1>2 DEF RotateInstall, TypedShutdown, KTypeOK
    <3>8. TypedKeyHistory'
      BY <1>2 DEF RotateInstall, TypedKeyHistory, KTypeOK, RotatedKey
    <3> QED
      BY <3>1, <3>2, <3>3, <3>4, <3>5, <3>6, <3>7, <3>8, TypedIsTypeOK
  <2>2. KeysNumbered'
    BY <1>2, <2>a, ManagedSideIs DEF RotateInstall, KeysNumbered, Handles, RotatedKey,
       KTypeOK
  <2>3. HandlesAreTemporary'
    BY <1>2, <2>a DEF RotateInstall, HandlesAreTemporary, HandleIsTemporary,
       Handles, RotatedKey
  <2>4. RemovedIsRevoked' /\ CleaningOnce' /\ ChildIsNew'
    BY <1>2 DEF RotateInstall, RemovedIsRevoked, CleaningOnce, CleaningPoint,
       ChildIsNew, HandlesAreTemporary, RotatedKey, HandleIsTemporary, Handles
  <2>5. NewKey' /\ RestoredKey' /\ RotatedKey' /\ ReleasedFor'
    BY <1>2 DEF RotateInstall, NewKey, SigningIn, Promoting, RestoredKey, Restoring,
       RotatedKey, ReleasedFor
  <2>6. KeyKeptUntilRevoked' /\ BoundKeysKept'
    BY <1>2, <2>a, ManagedSideIs DEF RotateInstall, KeyKeptUntilRevoked, OnDisk,
       BoundKeysKept, RotatedKey, KeysNumbered, KTypeOK
  <2> QED
    BY <2>1, <2>2, <2>3, <2>4, <2>5, <2>6
<1>3. ASSUME RotatePrivateAway PROVE KeysInv'
  <2>a. BackupKeys' = BackupKeys
    BY <1>3 DEF RotatePrivateAway, BackupKeys
  <2>1. KTypeOK'
    <3>1. TypedVps'
      BY <1>3 DEF RotatePrivateAway, TypedVps, KTypeOK
    <3>2. TypedDisk'
      BY <1>3 DEF RotatePrivateAway, Moves, TypedDisk, KTypeOK, RotatedKey
    <3>3. TypedPointers'
      BY <1>3 DEF RotatePrivateAway, TypedPointers, KTypeOK
    <3>4. TypedSsh'
      BY <1>3 DEF RotatePrivateAway, TypedSsh, KTypeOK
    <3>5. TypedWork'
      BY <1>3 DEF RotatePrivateAway, Moves, TypedWork, KTypeOK, Pcs
    <3>6. TypedKeys'
      BY <1>3 DEF RotatePrivateAway, TypedKeys, KTypeOK
    <3>7. TypedShutdown'
      BY <1>3 DEF RotatePrivateAway, TypedShutdown, KTypeOK
    <3>8. TypedKeyHistory'
      BY <1>3 DEF RotatePrivateAway, TypedKeyHistory, KTypeOK
    <3> QED
      BY <3>1, <3>2, <3>3, <3>4, <3>5, <3>6, <3>7, <3>8, TypedIsTypeOK
  <2>2. KeysNumbered'
    BY <1>3, <2>a, ManagedSideIs DEF RotatePrivateAway, KeysNumbered, Handles
  <2>3. HandlesAreTemporary'
    BY <1>3, <2>a DEF RotatePrivateAway, Moves, HandlesAreTemporary,
       HandleIsTemporary, Handles, Promoting
  <2>4. RemovedIsRevoked' /\ CleaningOnce' /\ ChildIsNew'
    BY <1>3 DEF RotatePrivateAway, Moves, RemovedIsRevoked, CleaningOnce,
       CleaningPoint, ChildIsNew
  <2>5. NewKey' /\ RestoredKey' /\ RotatedKey' /\ ReleasedFor'
    BY <1>3 DEF RotatePrivateAway, Moves, NewKey, SigningIn, Promoting, RestoredKey,
       Restoring, RotatedKey, ReleasedFor
  <2>6. KeyKeptUntilRevoked' /\ BoundKeysKept'
    BY <1>3, <2>a, ManagedSideIs DEF RotatePrivateAway, KeyKeptUntilRevoked, OnDisk,
       BoundKeysKept
  <2> QED
    BY <2>1, <2>2, <2>3, <2>4, <2>5, <2>6
<1>4. ASSUME RotatePublicAway PROVE KeysInv'
  <2>a. BackupKeys' = BackupKeys
    BY <1>4 DEF RotatePublicAway, BackupKeys
  <2>1. KTypeOK'
    BY <1>4 DEF RotatePublicAway, Moves, KTypeOK, Pcs
  <2>2. KeysNumbered'
    BY <1>4, <2>a, ManagedSideIs DEF RotatePublicAway, KeysNumbered, Handles
  <2>3. HandlesAreTemporary'
    BY <1>4, <2>a DEF RotatePublicAway, Moves, HandlesAreTemporary,
       HandleIsTemporary, Handles, Promoting
  <2>4. RemovedIsRevoked' /\ CleaningOnce' /\ ChildIsNew'
    BY <1>4 DEF RotatePublicAway, Moves, RemovedIsRevoked, CleaningOnce,
       CleaningPoint, ChildIsNew
  <2>5. NewKey' /\ RestoredKey' /\ RotatedKey' /\ ReleasedFor'
    BY <1>4 DEF RotatePublicAway, Moves, NewKey, SigningIn, Promoting, RestoredKey,
       Restoring, RotatedKey, ReleasedFor
  <2>6. KeyKeptUntilRevoked' /\ BoundKeysKept'
    BY <1>4, <2>a, ManagedSideIs DEF RotatePublicAway, KeyKeptUntilRevoked, OnDisk,
       BoundKeysKept
  <2> QED
    BY <2>1, <2>2, <2>3, <2>4, <2>5, <2>6
<1>5. ASSUME RotatePrivateIn PROVE KeysInv'
  <2>a. BackupKeys' = BackupKeys
    BY <1>5 DEF RotatePrivateIn, BackupKeys
  <2>1. KTypeOK'
    <3>1. TypedVps'
      BY <1>5 DEF RotatePrivateIn, TypedVps, KTypeOK
    <3>2. TypedDisk'
      BY <1>5 DEF RotatePrivateIn, TypedDisk, KTypeOK
    <3>3. TypedPointers'
      BY <1>5 DEF RotatePrivateIn, TypedPointers, KTypeOK
    <3>4. TypedSsh'
      BY <1>5 DEF RotatePrivateIn, TypedSsh, KTypeOK
    <3>5. TypedWork'
      BY <1>5 DEF RotatePrivateIn, Moves, TypedWork, KTypeOK, Pcs
    <3>6. TypedKeys'
      BY <1>5 DEF RotatePrivateIn, TypedKeys, KTypeOK
    <3>7. TypedShutdown'
      BY <1>5 DEF RotatePrivateIn, TypedShutdown, KTypeOK
    <3>8. TypedKeyHistory'
      BY <1>5 DEF RotatePrivateIn, Moves, TypedKeyHistory, KTypeOK, RotatedKey
    <3> QED
      BY <3>1, <3>2, <3>3, <3>4, <3>5, <3>6, <3>7, <3>8, TypedIsTypeOK
  <2>2. KeysNumbered'
    BY <1>5, <2>a, ManagedSideIs DEF RotatePrivateIn, Moves, KeysNumbered, Handles,
       RotatedKey, KTypeOK
  <2>3. HandlesAreTemporary'
    BY <1>5, <2>a DEF RotatePrivateIn, Moves, HandlesAreTemporary,
       HandleIsTemporary, Handles, RotatedKey
  <2>4. RemovedIsRevoked' /\ CleaningOnce' /\ ChildIsNew'
    BY <1>5 DEF RotatePrivateIn, Moves, RemovedIsRevoked, CleaningOnce,
       CleaningPoint, ChildIsNew
  <2>5. NewKey' /\ RestoredKey' /\ RotatedKey' /\ ReleasedFor'
    BY <1>5 DEF RotatePrivateIn, Moves, NewKey, SigningIn, Promoting, RestoredKey,
       Restoring, RotatedKey, ReleasedFor
  <2>6. KeyKeptUntilRevoked' /\ BoundKeysKept'
    BY <1>5, <2>a, ManagedSideIs DEF RotatePrivateIn, Moves, KeyKeptUntilRevoked,
       OnDisk, BoundKeysKept, RotatedKey, KeysNumbered, KTypeOK
  <2> QED
    BY <2>1, <2>2, <2>3, <2>4, <2>5, <2>6
<1>6. ASSUME RotatePublicIn PROVE KeysInv'
  <2>a. BackupKeys' = BackupKeys
    BY <1>6 DEF RotatePublicIn, BackupKeys
  <2>1. KTypeOK'
    BY <1>6 DEF RotatePublicIn, Moves, KTypeOK, Pcs
  <2>2. KeysNumbered'
    BY <1>6, <2>a, ManagedSideIs DEF RotatePublicIn, KeysNumbered, Handles
  <2>3. HandlesAreTemporary'
    BY <1>6, <2>a DEF RotatePublicIn, Moves, HandlesAreTemporary, HandleIsTemporary,
       Handles, Promoting
  <2>4. RemovedIsRevoked' /\ CleaningOnce' /\ ChildIsNew'
    BY <1>6 DEF RotatePublicIn, Moves, RemovedIsRevoked, CleaningOnce,
       CleaningPoint, ChildIsNew
  <2>5. NewKey' /\ RestoredKey' /\ RotatedKey' /\ ReleasedFor'
    BY <1>6 DEF RotatePublicIn, Moves, NewKey, SigningIn, Promoting, RestoredKey,
       Restoring, RotatedKey, ReleasedFor
  <2>6. KeyKeptUntilRevoked' /\ BoundKeysKept'
    BY <1>6, <2>a, ManagedSideIs DEF RotatePublicIn, KeyKeptUntilRevoked, OnDisk,
       BoundKeysKept
  <2> QED
    BY <2>1, <2>2, <2>3, <2>4, <2>5, <2>6
<1>7. ASSUME RotateVerified PROVE KeysInv'
  <2>a. BackupKeys' = BackupKeys
    BY <1>7 DEF RotateVerified, BackupKeys
  <2>1. KTypeOK'
    BY <1>7 DEF RotateVerified, Moves, KTypeOK, Pcs
  <2>2. KeysNumbered'
    BY <1>7, <2>a, ManagedSideIs DEF RotateVerified, KeysNumbered, Handles
  <2>3. HandlesAreTemporary'
    BY <1>7, <2>a DEF RotateVerified, Moves, HandlesAreTemporary, HandleIsTemporary,
       Handles, Promoting
  <2>4. RemovedIsRevoked' /\ CleaningOnce' /\ ChildIsNew'
    BY <1>7 DEF RotateVerified, Moves, RemovedIsRevoked, CleaningOnce,
       CleaningPoint, ChildIsNew
  <2>5. NewKey' /\ RestoredKey' /\ RotatedKey' /\ ReleasedFor'
    BY <1>7 DEF RotateVerified, Moves, NewKey, SigningIn, Promoting, RestoredKey,
       Restoring, RotatedKey, ReleasedFor
  <2>6. KeyKeptUntilRevoked' /\ BoundKeysKept'
    BY <1>7, <2>a, ManagedSideIs DEF RotateVerified, KeyKeptUntilRevoked, OnDisk,
       BoundKeysKept
  <2> QED
    BY <2>1, <2>2, <2>3, <2>4, <2>5, <2>6
<1>8. ASSUME RotateRemove PROVE KeysInv'
  <2>a. BackupKeys' = BackupKeys
    BY <1>8 DEF RotateRemove, BackupKeys
  <2>1. KTypeOK'
    <3>1. TypedVps'
      BY <1>8 DEF RotateRemove, Removal, TypedVps, KTypeOK
    <3>2. TypedDisk'
      BY <1>8 DEF RotateRemove, TypedDisk, KTypeOK
    <3>3. TypedPointers'
      BY <1>8 DEF RotateRemove, TypedPointers, KTypeOK
    <3>4. TypedSsh'
      BY <1>8 DEF RotateRemove, TypedSsh, KTypeOK
    <3>5. TypedWork'
      BY <1>8 DEF RotateRemove, Moves, TypedWork, KTypeOK, Pcs
    <3>6. TypedKeys'
      BY <1>8 DEF RotateRemove, TypedKeys, KTypeOK
    <3>7. TypedShutdown'
      BY <1>8 DEF RotateRemove, TypedShutdown, KTypeOK
    <3>8. TypedKeyHistory'
      BY <1>8 DEF RotateRemove, TypedKeyHistory, KTypeOK
    <3> QED
      BY <3>1, <3>2, <3>3, <3>4, <3>5, <3>6, <3>7, <3>8, TypedIsTypeOK
  <2>2. KeysNumbered'
    BY <1>8, <2>a, ManagedSideIs DEF RotateRemove, KeysNumbered, Handles
  <2>3. HandlesAreTemporary'
    BY <1>8, <2>a DEF RotateRemove, Moves, HandlesAreTemporary, HandleIsTemporary,
       Handles, Promoting
  <2>4. RemovedIsRevoked' /\ CleaningOnce' /\ ChildIsNew'
    BY <1>8 DEF RotateRemove, Moves, Removal, RemovedIsRevoked, CleaningOnce,
       CleaningPoint, ChildIsNew
  <2>5. NewKey' /\ RestoredKey' /\ RotatedKey' /\ ReleasedFor'
    BY <1>8 DEF RotateRemove, Moves, NewKey, SigningIn, Promoting, RestoredKey,
       Restoring, RotatedKey, ReleasedFor
  <2>6. KeyKeptUntilRevoked' /\ BoundKeysKept'
    BY <1>8, <2>a, ManagedSideIs DEF RotateRemove, Removal, KeyKeptUntilRevoked,
       OnDisk, BoundKeysKept
  <2> QED
    BY <2>1, <2>2, <2>3, <2>4, <2>5, <2>6
<1> QED
  BY <1>1, <1>2, <1>3, <1>4, <1>5, <1>6, <1>7, <1>8

\* Unbinding, archiving and restoration.
LEMMA BackupStep ==
  ASSUME KeysInv, NEW k \in Keys,
         UnbindStart \/ UnbindRevoke \/ UnbindMove \/ UnbindRefused \/
         ArchiveAll \/ RestoreDirect(k) \/ RestoreByPassword(k) \/
         RestoreInstall \/ RestoreFiles \/ RestoreVerified \/
         RestoreUndone
  PROVE  KeysInv'
<1> USE SshKeysAssumption DEF KeysInv, Keys, None, Managed, NotCleaning,
       vps, localDisk, pointers, authFlags, ssh, work, shutdown, history
<1>1. ASSUME UnbindStart PROVE KeysInv'
  <2>a. BackupKeys' = BackupKeys
    BY <1>1 DEF UnbindStart, BackupKeys
  <2>1. KTypeOK'
    <3>1. TypedVps'
      BY <1>1 DEF UnbindStart, TypedVps, KTypeOK
    <3>2. TypedDisk'
      BY <1>1 DEF UnbindStart, TypedDisk, KTypeOK
    <3>3. TypedPointers'
      BY <1>1 DEF UnbindStart, Connections, TypedPointers, KTypeOK
    <3>4. TypedSsh'
      BY <1>1 DEF UnbindStart, Connections, TypedSsh, KTypeOK
    <3>5. TypedWork'
      BY <1>1 DEF UnbindStart, Moves, Pcs, Jobs, TypedWork, KTypeOK
    <3>6. TypedKeys'
      BY <1>1 DEF UnbindStart, TypedKeys, KTypeOK
    <3>7. TypedShutdown'
      BY <1>1 DEF UnbindStart, TypedShutdown, KTypeOK
    <3>8. TypedKeyHistory'
      BY <1>1 DEF UnbindStart, TypedKeyHistory, KTypeOK
    <3> QED
      BY <3>1, <3>2, <3>3, <3>4, <3>5, <3>6, <3>7, <3>8, TypedIsTypeOK
  <2>2. KeysNumbered'
    BY <1>1, <2>a, ManagedSideIs DEF UnbindStart, KeysNumbered, Handles
  <2>3. HandlesAreTemporary'
    BY <1>1, <2>a DEF UnbindStart, Moves, HandlesAreTemporary, HandleIsTemporary,
       Handles, Promoting
  <2>4. RemovedIsRevoked' /\ CleaningOnce' /\ ChildIsNew'
    BY <1>1 DEF UnbindStart, Moves, RemovedIsRevoked, CleaningOnce, CleaningPoint,
       ChildIsNew
  <2>5. NewKey' /\ RestoredKey' /\ RotatedKey' /\ ReleasedFor'
    BY <1>1 DEF UnbindStart, Moves, NewKey, SigningIn, Promoting, RestoredKey,
       Restoring, RotatedKey, ReleasedFor
  <2>6. KeyKeptUntilRevoked' /\ BoundKeysKept'
    BY <1>1, <2>a, ManagedSideIs DEF UnbindStart, KeyKeptUntilRevoked, OnDisk,
       BoundKeysKept
  <2> QED
    BY <2>1, <2>2, <2>3, <2>4, <2>5, <2>6
<1>2. ASSUME UnbindRevoke PROVE KeysInv'
  <2>a. BackupKeys' = BackupKeys
    BY <1>2 DEF UnbindRevoke, BackupKeys
  <2>1. KTypeOK'
    <3>1. TypedVps'
      BY <1>2 DEF UnbindRevoke, Removal, TypedVps, KTypeOK
    <3>2. TypedDisk'
      BY <1>2 DEF UnbindRevoke, TypedDisk, KTypeOK
    <3>3. TypedPointers'
      BY <1>2 DEF UnbindRevoke, TypedPointers, KTypeOK
    <3>4. TypedSsh'
      BY <1>2 DEF UnbindRevoke, TypedSsh, KTypeOK
    <3>5. TypedWork'
      BY <1>2 DEF UnbindRevoke, TypedWork, KTypeOK, Pcs
    <3>6. TypedKeys'
      BY <1>2 DEF UnbindRevoke, TypedKeys, KTypeOK
    <3>7. TypedShutdown'
      BY <1>2 DEF UnbindRevoke, TypedShutdown, KTypeOK
    <3>8. TypedKeyHistory'
      BY <1>2 DEF UnbindRevoke, TypedKeyHistory, KTypeOK
    <3> QED
      BY <3>1, <3>2, <3>3, <3>4, <3>5, <3>6, <3>7, <3>8, TypedIsTypeOK
  <2>2. KeysNumbered'
    BY <1>2, <2>a, ManagedSideIs DEF UnbindRevoke, KeysNumbered, Handles
  <2>3. HandlesAreTemporary'
    BY <1>2, <2>a DEF UnbindRevoke, HandlesAreTemporary, HandleIsTemporary, Handles,
       Promoting
  <2>4. RemovedIsRevoked' /\ CleaningOnce' /\ ChildIsNew'
    BY <1>2 DEF UnbindRevoke, Removal, RemovedIsRevoked, CleaningOnce,
       CleaningPoint, ChildIsNew
  <2>5. NewKey' /\ RestoredKey' /\ RotatedKey' /\ ReleasedFor'
    BY <1>2 DEF UnbindRevoke, NewKey, SigningIn, Promoting, RestoredKey, Restoring,
       RotatedKey, ReleasedFor
  <2>6. KeyKeptUntilRevoked' /\ BoundKeysKept'
    BY <1>2, <2>a, ManagedSideIs DEF UnbindRevoke, Removal, KeyKeptUntilRevoked,
       OnDisk, BoundKeysKept
  <2> QED
    BY <2>1, <2>2, <2>3, <2>4, <2>5, <2>6
<1>3. ASSUME UnbindMove PROVE KeysInv'
  <2>a. \/ /\ BackupKeys' \ {None} = (BackupKeys \cup {priv}) \ {None}
           /\ priv' = None
        \/ UNCHANGED <<BackupKeys, priv>>
    <3>1. CASE backups' = ArchivePair /\ priv' = None
      BY <3>1, ArchiveKeeps
    <3>2. CASE UNCHANGED <<backups, priv, pub>>
      BY <3>2 DEF BackupKeys
    <3> QED
      BY <1>3, <3>1, <3>2 DEF UnbindMove
  <2>1. KTypeOK'
    <3>1. TypedVps'
      BY <1>3 DEF UnbindMove, TypedVps, KTypeOK
    <3>2. TypedDisk'
      BY <1>3, ArchivedTyped DEF UnbindMove, TypedDisk, KTypeOK
    <3>3. TypedPointers'
      BY <1>3 DEF UnbindMove, TypedPointers, KTypeOK
    <3>4. TypedSsh'
      BY <1>3 DEF UnbindMove, TypedSsh, KTypeOK
    <3>5. TypedWork'
      BY <1>3 DEF UnbindMove, TypedWork, KTypeOK, Pcs
    <3>6. TypedKeys'
      BY <1>3 DEF UnbindMove, TypedKeys, KTypeOK
    <3>7. TypedShutdown'
      BY <1>3 DEF UnbindMove, TypedShutdown, KTypeOK
    <3>8. TypedKeyHistory'
      BY <1>3 DEF UnbindMove, TypedKeyHistory, KTypeOK
    <3> QED
      BY <3>1, <3>2, <3>3, <3>4, <3>5, <3>6, <3>7, <3>8, TypedIsTypeOK
  <2>2. KeysNumbered'
    BY <1>3, <2>a, ManagedSideIs DEF UnbindMove, KeysNumbered, Handles
  <2>3. HandlesAreTemporary'
    BY <1>3, <2>a DEF UnbindMove, HandlesAreTemporary, HandleIsTemporary, Handles,
       Promoting
  <2>4. RemovedIsRevoked' /\ CleaningOnce' /\ ChildIsNew'
    BY <1>3 DEF UnbindMove, RemovedIsRevoked, CleaningOnce, CleaningPoint,
       ChildIsNew
  <2>5. NewKey' /\ RestoredKey' /\ RotatedKey' /\ ReleasedFor'
    BY <1>3 DEF UnbindMove, NewKey, SigningIn, Promoting, RestoredKey, Restoring,
       RotatedKey, ReleasedFor
  <2>6. KeyKeptUntilRevoked' /\ BoundKeysKept'
    BY <1>3, <2>a, ManagedSideIs DEF UnbindMove, KeyKeptUntilRevoked, OnDisk,
       BoundKeysKept
  <2> QED
    BY <2>1, <2>2, <2>3, <2>4, <2>5, <2>6
<1>4. ASSUME UnbindRefused PROVE KeysInv'
  <2>a. BackupKeys' = BackupKeys
    BY <1>4 DEF UnbindRefused, BackupKeys
  <2>1. KTypeOK'
    BY <1>4 DEF UnbindRefused, FailsFrom, KTypeOK, Pcs
  <2>2. KeysNumbered'
    BY <1>4, <2>a, ManagedSideIs DEF UnbindRefused, KeysNumbered, Handles
  <2>3. HandlesAreTemporary'
    BY <1>4, <2>a DEF UnbindRefused, FailsFrom, HandlesAreTemporary,
       HandleIsTemporary, Handles, Promoting
  <2>4. RemovedIsRevoked' /\ CleaningOnce' /\ ChildIsNew'
    BY <1>4 DEF UnbindRefused, FailsFrom, RemovedIsRevoked, CleaningOnce,
       CleaningPoint, ChildIsNew
  <2>5. NewKey' /\ RestoredKey' /\ RotatedKey' /\ ReleasedFor'
    BY <1>4 DEF UnbindRefused, FailsFrom, NewKey, SigningIn, Promoting, RestoredKey,
       Restoring, RotatedKey, ReleasedFor
  <2>6. KeyKeptUntilRevoked' /\ BoundKeysKept'
    BY <1>4, <2>a, ManagedSideIs DEF UnbindRefused, KeyKeptUntilRevoked, OnDisk,
       BoundKeysKept
  <2> QED
    BY <2>1, <2>2, <2>3, <2>4, <2>5, <2>6
<1>5. ASSUME ArchiveAll PROVE KeysInv'
  <2>a. BackupKeys' \ {None} = (BackupKeys \cup {priv}) \ {None}
    BY <1>5, ArchiveKeeps DEF ArchiveAll
  <2>1. KTypeOK'
    <3>1. TypedVps'
      BY <1>5 DEF ArchiveAll, TypedVps, KTypeOK
    <3>2. TypedDisk'
      BY <1>5, ArchivedTyped DEF ArchiveAll, TypedDisk, KTypeOK
    <3>3. TypedPointers'
      BY <1>5 DEF ArchiveAll, TypedPointers, KTypeOK
    <3>4. TypedSsh'
      BY <1>5 DEF ArchiveAll, TypedSsh, KTypeOK
    <3>5. TypedWork'
      BY <1>5 DEF ArchiveAll, Moves, TypedWork, KTypeOK, Pcs, Jobs
    <3>6. TypedKeys'
      BY <1>5 DEF ArchiveAll, TypedKeys, KTypeOK
    <3>7. TypedShutdown'
      BY <1>5 DEF ArchiveAll, TypedShutdown, KTypeOK
    <3>8. TypedKeyHistory'
      BY <1>5 DEF ArchiveAll, TypedKeyHistory, KTypeOK
    <3> QED
      BY <3>1, <3>2, <3>3, <3>4, <3>5, <3>6, <3>7, <3>8, TypedIsTypeOK
  <2>2. KeysNumbered'
    BY <1>5, <2>a, ManagedSideIs DEF ArchiveAll, KeysNumbered, Handles
  <2>3. HandlesAreTemporary'
    BY <1>5, <2>a DEF ArchiveAll, Moves, HandlesAreTemporary, HandleIsTemporary,
       Handles, Promoting
  <2>4. RemovedIsRevoked' /\ CleaningOnce' /\ ChildIsNew'
    BY <1>5 DEF ArchiveAll, Moves, RemovedIsRevoked, CleaningOnce, CleaningPoint,
       ChildIsNew
  <2>5. NewKey' /\ RestoredKey' /\ RotatedKey' /\ ReleasedFor'
    BY <1>5 DEF ArchiveAll, Moves, NewKey, SigningIn, Promoting, RestoredKey,
       Restoring, RotatedKey, ReleasedFor
  <2>6. KeyKeptUntilRevoked' /\ BoundKeysKept'
    BY <1>5, <2>a, ManagedSideIs DEF ArchiveAll, KeyKeptUntilRevoked, OnDisk,
       BoundKeysKept
  <2> QED
    BY <2>1, <2>2, <2>3, <2>4, <2>5, <2>6
<1>6. ASSUME RestoreDirect(k) PROVE KeysInv'
  <2>a. BackupKeys' = BackupKeys
    BY <1>6 DEF RestoreDirect, BackupKeys
  <2>1. KTypeOK'
    <3>1. TypedVps'
      BY <1>6 DEF RestoreDirect, TypedVps, KTypeOK
    <3>2. TypedDisk'
      BY <1>6 DEF RestoreDirect, TypedDisk, KTypeOK
    <3>3. TypedPointers'
      BY <1>6 DEF RestoreDirect, Connections, TypedPointers, KTypeOK
    <3>4. TypedSsh'
      BY <1>6 DEF RestoreDirect, Connections, TypedSsh, KTypeOK
    <3>5. TypedWork'
      BY <1>6 DEF RestoreDirect, Moves, Pcs, Jobs, TypedWork, KTypeOK
    <3>6. TypedKeys'
      BY <1>6, RestorableIs DEF RestoreDirect, TypedKeys, KTypeOK
    <3>7. TypedShutdown'
      BY <1>6 DEF RestoreDirect, TypedShutdown, KTypeOK
    <3>8. TypedKeyHistory'
      BY <1>6 DEF RestoreDirect, TypedKeyHistory, KTypeOK
    <3> QED
      BY <3>1, <3>2, <3>3, <3>4, <3>5, <3>6, <3>7, <3>8, TypedIsTypeOK
  <2>2. KeysNumbered'
    BY <1>6, <2>a, ManagedSideIs DEF RestoreDirect, KeysNumbered, Handles
  <2>3. HandlesAreTemporary'
    BY <1>6, <2>a DEF RestoreDirect, HandlesAreTemporary, HandleIsTemporary, Handles
  <2>4. RemovedIsRevoked' /\ CleaningOnce' /\ ChildIsNew'
    BY <1>6 DEF RestoreDirect, Moves, RemovedIsRevoked, CleaningOnce, CleaningPoint,
       ChildIsNew
  <2>5. NewKey' /\ RestoredKey' /\ RotatedKey' /\ ReleasedFor'
    BY <1>6, <2>a, RestorableIs DEF RestoreDirect, Moves, NewKey, SigningIn,
       Promoting, RestoredKey, RotatedKey, ReleasedFor
  <2>6. KeyKeptUntilRevoked' /\ BoundKeysKept'
    BY <1>6, <2>a, ManagedSideIs DEF RestoreDirect, KeyKeptUntilRevoked, OnDisk,
       BoundKeysKept
  <2> QED
    BY <2>1, <2>2, <2>3, <2>4, <2>5, <2>6
<1>7. ASSUME RestoreByPassword(k) PROVE KeysInv'
  <2>a. BackupKeys' = BackupKeys
    BY <1>7 DEF RestoreByPassword, BackupKeys
  <2>1. KTypeOK'
    <3>1. TypedVps'
      BY <1>7 DEF RestoreByPassword, TypedVps, KTypeOK
    <3>2. TypedDisk'
      BY <1>7 DEF RestoreByPassword, NewTemporary, TypedDisk, KTypeOK
    <3>3. TypedPointers'
      BY <1>7 DEF RestoreByPassword, NewTemporary, TypedPointers, KTypeOK,
         Connections
    <3>4. TypedSsh'
      BY <1>7 DEF RestoreByPassword, TypedSsh, KTypeOK
    <3>5. TypedWork'
      BY <1>7 DEF RestoreByPassword, Moves, NewTemporary, TypedWork, KTypeOK, Pcs,
         Jobs
    <3>6. TypedKeys'
      BY <1>7 DEF RestoreByPassword, NewTemporary, TypedKeys, KTypeOK
    <3>7. TypedShutdown'
      BY <1>7 DEF RestoreByPassword, TypedShutdown, KTypeOK
    <3>8. TypedKeyHistory'
      BY <1>7 DEF RestoreByPassword, NewTemporary, TypedKeyHistory, KTypeOK
    <3> QED
      BY <3>1, <3>2, <3>3, <3>4, <3>5, <3>6, <3>7, <3>8, TypedIsTypeOK
  <2>2. KeysNumbered'
    BY <1>7, <2>a, ManagedSideIs DEF RestoreByPassword, NewTemporary, KeysNumbered,
       Handles, KTypeOK
  <2>3. HandlesAreTemporary'
    BY <1>7, <2>a, ManagedSideIs DEF RestoreByPassword, NewTemporary,
       HandlesAreTemporary, HandleIsTemporary, Handles, KeysNumbered, KTypeOK
  <2>4. RemovedIsRevoked' /\ CleaningOnce' /\ ChildIsNew'
    BY <1>7 DEF RestoreByPassword, NewTemporary, RemovedIsRevoked, CleaningOnce,
       ChildIsNew
  <2>5. NewKey' /\ RestoredKey' /\ RotatedKey' /\ ReleasedFor'
    BY <1>7, <2>a, ManagedSideIs, RestorableIs DEF RestoreByPassword, Moves,
       NewTemporary, NewKey, Promoting, RestoredKey, RotatedKey, ReleasedFor,
       KeysNumbered, KTypeOK
  <2>6. KeyKeptUntilRevoked' /\ BoundKeysKept'
    BY <1>7, <2>a, ManagedSideIs DEF RestoreByPassword, NewTemporary,
       KeyKeptUntilRevoked, OnDisk, BoundKeysKept
  <2> QED
    BY <2>1, <2>2, <2>3, <2>4, <2>5, <2>6
<1>8. ASSUME RestoreInstall PROVE KeysInv'
  <2>a. BackupKeys' = BackupKeys
    BY <1>8 DEF RestoreInstall, BackupKeys
  <2>1. KTypeOK'
    <3>1. TypedVps'
      BY <1>8 DEF RestoreInstall, TypedVps, KTypeOK, RestoredKey, Restoring
    <3>2. TypedDisk'
      BY <1>8 DEF RestoreInstall, TypedDisk, KTypeOK
    <3>3. TypedPointers'
      BY <1>8 DEF RestoreInstall, TypedPointers, KTypeOK
    <3>4. TypedSsh'
      BY <1>8 DEF RestoreInstall, TypedSsh, KTypeOK
    <3>5. TypedWork'
      BY <1>8 DEF RestoreInstall, TypedWork, KTypeOK, Pcs
    <3>6. TypedKeys'
      BY <1>8 DEF RestoreInstall, TypedKeys, KTypeOK
    <3>7. TypedShutdown'
      BY <1>8 DEF RestoreInstall, TypedShutdown, KTypeOK
    <3>8. TypedKeyHistory'
      BY <1>8 DEF RestoreInstall, TypedKeyHistory, KTypeOK
    <3> QED
      BY <3>1, <3>2, <3>3, <3>4, <3>5, <3>6, <3>7, <3>8, TypedIsTypeOK
  <2>2. KeysNumbered'
    BY <1>8, <2>a, ManagedSideIs DEF RestoreInstall, KeysNumbered, Handles
  <2>3. HandlesAreTemporary'
    BY <1>8, <2>a DEF RestoreInstall, HandlesAreTemporary, HandleIsTemporary,
       Handles, Promoting
  <2>4. RemovedIsRevoked' /\ CleaningOnce' /\ ChildIsNew'
    BY <1>8 DEF RestoreInstall, RemovedIsRevoked, CleaningOnce, CleaningPoint,
       ChildIsNew, HandlesAreTemporary, RestoredKey, HandleIsTemporary, Handles,
       Restoring
  <2>5. NewKey' /\ RestoredKey' /\ RotatedKey' /\ ReleasedFor'
    BY <1>8, <2>a DEF RestoreInstall, NewKey, SigningIn, Promoting, RestoredKey,
       Restoring, RotatedKey, ReleasedFor
  <2>6. KeyKeptUntilRevoked' /\ BoundKeysKept'
    BY <1>8, <2>a, ManagedSideIs DEF RestoreInstall, KeyKeptUntilRevoked, OnDisk,
       BoundKeysKept, RestoredKey, Restoring
  <2> QED
    BY <2>1, <2>2, <2>3, <2>4, <2>5, <2>6
<1>9. ASSUME RestoreFiles PROVE KeysInv'
  <2>a. BackupKeys' = BackupKeys
    BY <1>9 DEF RestoreFiles, BackupKeys
  <2>1. KTypeOK'
    <3>1. TypedVps'
      BY <1>9 DEF RestoreFiles, TypedVps, KTypeOK
    <3>2. TypedDisk'
      BY <1>9 DEF RestoreFiles, TypedDisk, KTypeOK
    <3>3. TypedPointers'
      BY <1>9 DEF RestoreFiles, TypedPointers, KTypeOK
    <3>4. TypedSsh'
      BY <1>9 DEF RestoreFiles, TypedSsh, KTypeOK
    <3>5. TypedWork'
      BY <1>9 DEF RestoreFiles, Moves, TypedWork, KTypeOK, Pcs
    <3>6. TypedKeys'
      BY <1>9 DEF RestoreFiles, TypedKeys, KTypeOK
    <3>7. TypedShutdown'
      BY <1>9 DEF RestoreFiles, TypedShutdown, KTypeOK
    <3>8. TypedKeyHistory'
      BY <1>9 DEF RestoreFiles, Moves, TypedKeyHistory, KTypeOK, RestoredKey, Restoring
    <3> QED
      BY <3>1, <3>2, <3>3, <3>4, <3>5, <3>6, <3>7, <3>8, TypedIsTypeOK
  <2>2. KeysNumbered'
    BY <1>9, <2>a, ManagedSideIs DEF RestoreFiles, Moves, KeysNumbered, Handles,
       RestoredKey, Restoring
  <2>3. HandlesAreTemporary'
    BY <1>9, <2>a DEF RestoreFiles, Moves, HandlesAreTemporary, HandleIsTemporary,
       Handles, RestoredKey, Restoring
  <2>4. RemovedIsRevoked' /\ CleaningOnce' /\ ChildIsNew'
    BY <1>9 DEF RestoreFiles, Moves, RemovedIsRevoked, CleaningOnce, CleaningPoint,
       ChildIsNew
  <2>5. NewKey' /\ RestoredKey' /\ RotatedKey' /\ ReleasedFor'
    BY <1>9, <2>a DEF RestoreFiles, Moves, NewKey, SigningIn, Promoting,
       RestoredKey, Restoring, RotatedKey, ReleasedFor
  <2>6. KeyKeptUntilRevoked' /\ BoundKeysKept'
    BY <1>9, <2>a, ManagedSideIs DEF RestoreFiles, Moves, KeyKeptUntilRevoked,
       OnDisk, BoundKeysKept, RestoredKey, Restoring
  <2> QED
    BY <2>1, <2>2, <2>3, <2>4, <2>5, <2>6
<1>10. ASSUME RestoreVerified PROVE KeysInv'
  <2>a. BackupKeys' = BackupKeys
    BY <1>10 DEF RestoreVerified, BackupKeys
  <2>1. KTypeOK'
    BY <1>10 DEF RestoreVerified, Moves, KTypeOK, Pcs
  <2>2. KeysNumbered'
    BY <1>10, <2>a, ManagedSideIs DEF RestoreVerified, KeysNumbered, Handles
  <2>3. HandlesAreTemporary'
    BY <1>10, <2>a DEF RestoreVerified, Moves, HandlesAreTemporary,
       HandleIsTemporary, Handles, Promoting
  <2>4. RemovedIsRevoked' /\ CleaningOnce' /\ ChildIsNew'
    BY <1>10 DEF RestoreVerified, Moves, RemovedIsRevoked, CleaningOnce,
       CleaningPoint, ChildIsNew
  <2>5. NewKey' /\ RestoredKey' /\ RotatedKey' /\ ReleasedFor'
    BY <1>10 DEF RestoreVerified, Moves, NewKey, SigningIn, Promoting, RestoredKey,
       Restoring, RotatedKey, ReleasedFor
  <2>6. KeyKeptUntilRevoked' /\ BoundKeysKept'
    BY <1>10, <2>a, ManagedSideIs DEF RestoreVerified, KeyKeptUntilRevoked, OnDisk,
       BoundKeysKept
  <2> QED
    BY <2>1, <2>2, <2>3, <2>4, <2>5, <2>6
<1>11. ASSUME RestoreUndone PROVE KeysInv'
  <2>a. BackupKeys' = BackupKeys
    BY <1>11 DEF RestoreUndone, BackupKeys
  <2>1. KTypeOK'
    <3>1. TypedVps'
      BY <1>11 DEF RestoreUndone, Removal, TypedVps, KTypeOK
    <3>2. TypedDisk'
      BY <1>11 DEF RestoreUndone, TypedDisk, KTypeOK
    <3>3. TypedPointers'
      BY <1>11 DEF RestoreUndone, TypedPointers, KTypeOK
    <3>4. TypedSsh'
      BY <1>11 DEF RestoreUndone, TypedSsh, KTypeOK
    <3>5. TypedWork'
      BY <1>11 DEF RestoreUndone, FailsFrom, TypedWork, KTypeOK, Pcs
    <3>6. TypedKeys'
      BY <1>11 DEF RestoreUndone, TypedKeys, KTypeOK
    <3>7. TypedShutdown'
      BY <1>11 DEF RestoreUndone, TypedShutdown, KTypeOK
    <3>8. TypedKeyHistory'
      BY <1>11 DEF RestoreUndone, TypedKeyHistory, KTypeOK
    <3> QED
      BY <3>1, <3>2, <3>3, <3>4, <3>5, <3>6, <3>7, <3>8, TypedIsTypeOK
  <2>2. KeysNumbered'
    BY <1>11, <2>a, ManagedSideIs DEF RestoreUndone, KeysNumbered, Handles
  <2>3. HandlesAreTemporary'
    BY <1>11, <2>a DEF RestoreUndone, HandlesAreTemporary, HandleIsTemporary,
       Handles
  <2>4. RemovedIsRevoked' /\ CleaningOnce' /\ ChildIsNew'
    BY <1>11 DEF RestoreUndone, FailsFrom, Removal, RemovedIsRevoked, CleaningOnce,
       CleaningPoint, ChildIsNew
  <2>5. NewKey' /\ RestoredKey' /\ RotatedKey' /\ ReleasedFor'
    BY <1>11 DEF RestoreUndone, FailsFrom, NewKey, SigningIn, Promoting,
       RestoredKey, Restoring, RotatedKey, ReleasedFor
  <2>6. KeyKeptUntilRevoked' /\ BoundKeysKept'
    BY <1>11, <2>a, ManagedSideIs DEF RestoreUndone, FailsFrom, Removal,
       KeyKeptUntilRevoked, OnDisk, BoundKeysKept, RestoredKey, Restoring
  <2> QED
    BY <2>1, <2>2, <2>3, <2>4, <2>5, <2>6
<1> QED
  BY <1>1, <1>2, <1>3, <1>4, <1>5, <1>6, <1>7, <1>8, <1>9, <1>10, <1>11

\* Cleaning up at the end of an action.
LEMMA CleanupStep ==
  ASSUME KeysInv,
         Revoked \/ CleanFails \/ Removed \/ HoldsPanel \/ EndsAction
         \/ ClosesPanel \/ StartsCleaning \/ Released \/ ActionCleaned
         \/ Cleared
  PROVE  KeysInv'
<1> USE SshKeysAssumption DEF KeysInv, Keys, None, Managed, NotCleaning,
       vps, localDisk, pointers, authFlags, ssh, work, shutdown, history
<1>1. ASSUME Revoked PROVE KeysInv'
  <2>a. BackupKeys' = BackupKeys
    BY <1>1 DEF Revoked, BackupKeys
  <2>1. KTypeOK'
    <3>1. TypedVps'
      BY <1>1 DEF Revoked, Removal, TypedVps, KTypeOK
    <3>2. TypedDisk'
      BY <1>1 DEF Revoked, TypedDisk, KTypeOK
    <3>3. TypedPointers'
      BY <1>1 DEF Revoked, TypedPointers, KTypeOK
    <3>4. TypedSsh'
      BY <1>1 DEF Revoked, TypedSsh, KTypeOK
    <3>5. TypedWork'
      BY <1>1 DEF Revoked, TypedWork, KTypeOK
    <3>6. TypedKeys'
      BY <1>1 DEF Revoked, TypedKeys, KTypeOK
    <3>7. TypedShutdown'
      BY <1>1 DEF Revoked, TypedShutdown, KTypeOK
    <3>8. TypedKeyHistory'
      BY <1>1 DEF Revoked, TypedKeyHistory, KTypeOK
    <3> QED
      BY <3>1, <3>2, <3>3, <3>4, <3>5, <3>6, <3>7, <3>8, TypedIsTypeOK
  <2>2. KeysNumbered'
    BY <1>1, <2>a, ManagedSideIs DEF Revoked, KeysNumbered, Handles
  <2>3. HandlesAreTemporary'
    BY <1>1, <2>a DEF Revoked, HandlesAreTemporary, HandleIsTemporary, Handles
  <2>4. RemovedIsRevoked' /\ CleaningOnce' /\ ChildIsNew'
    BY <1>1 DEF Revoked, Removal, RemovedIsRevoked, CleaningOnce, CleaningPoint,
       ChildIsNew
  <2>5. NewKey' /\ RestoredKey' /\ RotatedKey' /\ ReleasedFor'
    BY <1>1, <2>a DEF Revoked, Removal, NewKey, RestoredKey, RotatedKey, ReleasedFor
  <2>6. KeyKeptUntilRevoked' /\ BoundKeysKept'
    BY <1>1, <2>a, ManagedSideIs DEF Revoked, Removal, KeyKeptUntilRevoked, OnDisk,
       BoundKeysKept
  <2> QED
    BY <2>1, <2>2, <2>3, <2>4, <2>5, <2>6
<1>2. ASSUME CleanFails PROVE KeysInv'
  <2>a. BackupKeys' = BackupKeys
    BY <1>2 DEF CleanFails, BackupKeys
  <2>1. KTypeOK'
    <3>1. TypedVps'
      BY <1>2 DEF CleanFails, Removal, TypedVps, KTypeOK
    <3>2. TypedDisk'
      BY <1>2 DEF CleanFails, TypedDisk, KTypeOK
    <3>3. TypedPointers'
      BY <1>2 DEF CleanFails, KeepsHandles, TypedPointers, KTypeOK
    <3>4. TypedSsh'
      BY <1>2 DEF CleanFails, TypedSsh, KTypeOK
    <3>5. TypedWork'
      BY <1>2 DEF CleanFails, TypedWork, KTypeOK
    <3>6. TypedKeys'
      BY <1>2 DEF CleanFails, TypedKeys, KTypeOK
    <3>7. TypedShutdown'
      BY <1>2 DEF CleanFails, TypedShutdown, KTypeOK
    <3>8. TypedKeyHistory'
      BY <1>2 DEF CleanFails, TypedKeyHistory, KTypeOK
    <3> QED
      BY <3>1, <3>2, <3>3, <3>4, <3>5, <3>6, <3>7, <3>8, TypedIsTypeOK
  <2>2. KeysNumbered'
    BY <1>2, <2>a, ManagedSideIs DEF CleanFails, KeepsHandles, KeysNumbered, Handles
  <2>3. HandlesAreTemporary'
    BY <1>2, <2>a DEF CleanFails, KeepsHandles, HandlesAreTemporary,
       HandleIsTemporary, Handles
  <2>4. RemovedIsRevoked' /\ CleaningOnce' /\ ChildIsNew'
    BY <1>2 DEF CleanFails, RemovedIsRevoked, CleaningOnce, CleaningPoint,
       ChildIsNew
  <2>5. NewKey' /\ RestoredKey' /\ RotatedKey' /\ ReleasedFor'
    BY <1>2, <2>a DEF CleanFails, Removal, NewKey, SigningIn, Promoting,
       RestoredKey, RotatedKey, ReleasedFor, CleaningOnce, RemovedIsRevoked,
       KTypeOK, CleaningPoint
  <2>6. KeyKeptUntilRevoked' /\ BoundKeysKept'
    BY <1>2, <2>a, ManagedSideIs DEF CleanFails, Removal, KeyKeptUntilRevoked,
       OnDisk, BoundKeysKept, RemovedIsRevoked
  <2> QED
    BY <2>1, <2>2, <2>3, <2>4, <2>5, <2>6
<1>3. ASSUME Removed PROVE KeysInv'
  <2>a. BackupKeys' = BackupKeys
    BY <1>3 DEF Removed, BackupKeys
  <2>1. KTypeOK'
    <3>1. TypedVps'
      BY <1>3 DEF Removed, TypedVps, KTypeOK
    <3>2. TypedDisk'
      BY <1>3 DEF Removed, TypedDisk, KTypeOK
    <3>3. TypedPointers'
      BY <1>3 DEF Removed, TypedPointers, KTypeOK, CleaningOnce
    <3>4. TypedSsh'
      BY <1>3 DEF Removed, TypedSsh, KTypeOK
    <3>5. TypedWork'
      BY <1>3 DEF Removed, TypedWork, KTypeOK
    <3>6. TypedKeys'
      BY <1>3 DEF Removed, TypedKeys, KTypeOK
    <3>7. TypedShutdown'
      BY <1>3 DEF Removed, TypedShutdown, KTypeOK
    <3>8. TypedKeyHistory'
      BY <1>3 DEF Removed, TypedKeyHistory, KTypeOK
    <3> QED
      BY <3>1, <3>2, <3>3, <3>4, <3>5, <3>6, <3>7, <3>8, TypedIsTypeOK
  <2>2. KeysNumbered'
    BY <1>3, <2>a, ManagedSideIs DEF Removed, KeysNumbered, Handles
  <2>3. HandlesAreTemporary'
    BY <1>3, <2>a DEF Removed, HandlesAreTemporary, HandleIsTemporary, Handles
  <2>4. RemovedIsRevoked' /\ CleaningOnce' /\ ChildIsNew'
    BY <1>3 DEF Removed, RemovedIsRevoked, CleaningOnce, CleaningPoint, ChildIsNew
  <2>5. NewKey' /\ RestoredKey' /\ RotatedKey' /\ ReleasedFor'
    BY <1>3, <2>a DEF Removed, NewKey, SigningIn, Promoting, RestoredKey,
       RotatedKey, ReleasedFor, CleaningOnce, RemovedIsRevoked, KTypeOK,
       CleaningPoint
  <2>6. KeyKeptUntilRevoked' /\ BoundKeysKept'
    BY <1>3, <2>a, ManagedSideIs DEF Removed, KeyKeptUntilRevoked, OnDisk,
       BoundKeysKept, RemovedIsRevoked
  <2> QED
    BY <2>1, <2>2, <2>3, <2>4, <2>5, <2>6
<1>4. ASSUME HoldsPanel PROVE KeysInv'
  <2>a. BackupKeys' = BackupKeys
    BY <1>4 DEF HoldsPanel, BackupKeys
  <2>1. KTypeOK'
    BY <1>4 DEF HoldsPanel, Moves, KTypeOK, Pcs
  <2>2. KeysNumbered'
    BY <1>4, <2>a, ManagedSideIs DEF HoldsPanel, KeysNumbered, Handles
  <2>3. HandlesAreTemporary'
    BY <1>4, <2>a DEF HoldsPanel, Moves, HandlesAreTemporary, HandleIsTemporary,
       Handles, Promoting
  <2>4. RemovedIsRevoked' /\ CleaningOnce' /\ ChildIsNew'
    BY <1>4 DEF HoldsPanel, Moves, RemovedIsRevoked, CleaningOnce, CleaningPoint,
       ChildIsNew
  <2>5. NewKey' /\ RestoredKey' /\ RotatedKey' /\ ReleasedFor'
    BY <1>4 DEF HoldsPanel, Moves, NewKey, SigningIn, Promoting, RestoredKey,
       Restoring, RotatedKey, ReleasedFor
  <2>6. KeyKeptUntilRevoked' /\ BoundKeysKept'
    BY <1>4, <2>a, ManagedSideIs DEF HoldsPanel, KeyKeptUntilRevoked, OnDisk,
       BoundKeysKept
  <2> QED
    BY <2>1, <2>2, <2>3, <2>4, <2>5, <2>6
<1>5. ASSUME EndsAction PROVE KeysInv'
  <2>a. BackupKeys' = BackupKeys
    BY <1>5 DEF EndsAction, BackupKeys
  <2>1. KTypeOK'
    BY <1>5 DEF EndsAction, Moves, KillTunnels, KTypeOK, Pcs
  <2>2. KeysNumbered'
    BY <1>5, <2>a, ManagedSideIs DEF EndsAction, KeysNumbered, Handles
  <2>3. HandlesAreTemporary'
    BY <1>5, <2>a DEF EndsAction, Moves, HandlesAreTemporary, HandleIsTemporary,
       Handles, Promoting
  <2>4. RemovedIsRevoked' /\ CleaningOnce' /\ ChildIsNew'
    BY <1>5 DEF EndsAction, Moves, RemovedIsRevoked, CleaningOnce, CleaningPoint,
       ChildIsNew
  <2>5. NewKey' /\ RestoredKey' /\ RotatedKey' /\ ReleasedFor'
    BY <1>5 DEF EndsAction, Moves, NewKey, SigningIn, Promoting, RestoredKey,
       Restoring, RotatedKey, ReleasedFor
  <2>6. KeyKeptUntilRevoked' /\ BoundKeysKept'
    BY <1>5, <2>a, ManagedSideIs DEF EndsAction, KeyKeptUntilRevoked, OnDisk,
       BoundKeysKept
  <2> QED
    BY <2>1, <2>2, <2>3, <2>4, <2>5, <2>6
<1>6. ASSUME ClosesPanel PROVE KeysInv'
  <2>a. BackupKeys' = BackupKeys
    BY <1>6 DEF ClosesPanel, BackupKeys
  <2>1. KTypeOK'
    BY <1>6 DEF ClosesPanel, KillTunnels, KTypeOK, Pcs, Jobs
  <2>2. KeysNumbered'
    BY <1>6, <2>a, ManagedSideIs DEF ClosesPanel, KeysNumbered, Handles
  <2>3. HandlesAreTemporary'
    BY <1>6, <2>a DEF ClosesPanel, HandlesAreTemporary, HandleIsTemporary, Handles,
       Promoting
  <2>4. RemovedIsRevoked' /\ CleaningOnce' /\ ChildIsNew'
    BY <1>6 DEF ClosesPanel, RemovedIsRevoked, CleaningOnce, CleaningPoint,
       ChildIsNew
  <2>5. NewKey' /\ RestoredKey' /\ RotatedKey' /\ ReleasedFor'
    BY <1>6 DEF ClosesPanel, NewKey, SigningIn, Promoting, RestoredKey, Restoring,
       RotatedKey, ReleasedFor
  <2>6. KeyKeptUntilRevoked' /\ BoundKeysKept'
    BY <1>6, <2>a, ManagedSideIs DEF ClosesPanel, KeyKeptUntilRevoked, OnDisk,
       BoundKeysKept
  <2> QED
    BY <2>1, <2>2, <2>3, <2>4, <2>5, <2>6
<1>7. ASSUME StartsCleaning PROVE KeysInv'
  <2>a. BackupKeys' = BackupKeys
    BY <1>7 DEF StartsCleaning, BackupKeys
  <2>1. KTypeOK'
    BY <1>7 DEF StartsCleaning, CleanStart, FirstStep, KTypeOK
  <2>2. KeysNumbered'
    BY <1>7, <2>a, ManagedSideIs DEF StartsCleaning, CleanStart, CleaningTarget,
       KeysNumbered, Handles
  <2>3. HandlesAreTemporary'
    BY <1>7, <2>a DEF StartsCleaning, CleanStart, CleaningTarget,
       HandlesAreTemporary, HandleIsTemporary, Handles
  <2>4. RemovedIsRevoked' /\ CleaningOnce' /\ ChildIsNew'
    BY <1>7 DEF StartsCleaning, CleanStart, CleaningPoint, CleaningTarget,
       FirstStep, RemovedIsRevoked, CleaningOnce, ChildIsNew, HandlesAreTemporary,
       HandleIsTemporary, Handles
  <2>5. NewKey' /\ RestoredKey' /\ RotatedKey' /\ ReleasedFor'
    BY <1>7, <2>a DEF StartsCleaning, NewKey, RestoredKey, RotatedKey, ReleasedFor
  <2>6. KeyKeptUntilRevoked' /\ BoundKeysKept'
    BY <1>7, <2>a, ManagedSideIs DEF StartsCleaning, KeyKeptUntilRevoked, OnDisk,
       BoundKeysKept
  <2> QED
    BY <2>1, <2>2, <2>3, <2>4, <2>5, <2>6
<1>8. ASSUME Released PROVE KeysInv'
  <2>a. BackupKeys' = BackupKeys
    BY <1>8 DEF Released, BackupKeys
  <2>c. Handles' \subseteq Handles
    BY <1>8 DEF Handles
  <2>1. KTypeOK'
    <3>1. TypedVps'
      BY <1>8 DEF Released, TypedVps, KTypeOK
    <3>2. TypedDisk'
      BY <1>8 DEF Released, TypedDisk, KTypeOK
    <3>3. TypedPointers'
      BY <1>8 DEF Released, TypedPointers, KTypeOK
    <3>4. TypedSsh'
      BY <1>8 DEF Released, TypedSsh, KTypeOK
    <3>5. TypedWork'
      BY <1>8 DEF Released, TypedWork, KTypeOK, Pcs, ReleasedFor
    <3>6. TypedKeys'
      BY <1>8 DEF Released, TypedKeys, KTypeOK
    <3>7. TypedShutdown'
      BY <1>8 DEF Released, CleanReturns, TypedShutdown, KTypeOK
    <3>8. TypedKeyHistory'
      BY <1>8 DEF Released, TypedKeyHistory, KTypeOK
    <3> QED
      BY <3>1, <3>2, <3>3, <3>4, <3>5, <3>6, <3>7, <3>8, TypedIsTypeOK
  <2>2. KeysNumbered'
    BY <1>8, <2>a, ManagedSideIs, <2>c DEF Released, KeysNumbered
  <2>3. HandlesAreTemporary'
    BY <1>8, <2>a, <2>c DEF Released, HandlesAreTemporary, HandleIsTemporary,
       Promoting
  <2>4. RemovedIsRevoked' /\ CleaningOnce' /\ ChildIsNew'
    BY <1>8 DEF Released, CleanReturns, RemovedIsRevoked, CleaningOnce, ChildIsNew
  <2>5. NewKey' /\ RestoredKey' /\ RotatedKey' /\ ReleasedFor'
    BY <1>8 DEF Released, NewKey, SigningIn, Promoting, RestoredKey, Restoring,
       RotatedKey, ReleasedFor
  <2>6. KeyKeptUntilRevoked' /\ BoundKeysKept'
    BY <1>8, <2>a, ManagedSideIs DEF Released, KeyKeptUntilRevoked, OnDisk,
       BoundKeysKept
  <2> QED
    BY <2>1, <2>2, <2>3, <2>4, <2>5, <2>6
<1>9. ASSUME ActionCleaned PROVE KeysInv'
  <2>a. BackupKeys' = BackupKeys
    BY <1>9 DEF ActionCleaned, BackupKeys
  <2>c. Handles' \subseteq Handles
    BY <1>9 DEF Handles
  <2>1. KTypeOK'
    <3>1. TypedVps'
      BY <1>9 DEF ActionCleaned, TypedVps, KTypeOK
    <3>2. TypedDisk'
      BY <1>9 DEF ActionCleaned, TypedDisk, KTypeOK
    <3>3. TypedPointers'
      BY <1>9 DEF ActionCleaned, TypedPointers, KTypeOK
    <3>4. TypedSsh'
      BY <1>9 DEF ActionCleaned, TypedSsh, KTypeOK
    <3>5. TypedWork'
      BY <1>9 DEF ActionCleaned, TypedWork, KTypeOK, Pcs, Jobs
    <3>6. TypedKeys'
      BY <1>9 DEF ActionCleaned, TypedKeys, KTypeOK
    <3>7. TypedShutdown'
      BY <1>9 DEF ActionCleaned, CleanReturns, TypedShutdown, KTypeOK
    <3>8. TypedKeyHistory'
      BY <1>9 DEF ActionCleaned, TypedKeyHistory, KTypeOK
    <3> QED
      BY <3>1, <3>2, <3>3, <3>4, <3>5, <3>6, <3>7, <3>8, TypedIsTypeOK
  <2>2. KeysNumbered'
    BY <1>9, <2>a, ManagedSideIs, <2>c DEF ActionCleaned, KeysNumbered, KTypeOK
  <2>3. HandlesAreTemporary'
    BY <1>9, <2>a, <2>c DEF ActionCleaned, HandlesAreTemporary, HandleIsTemporary,
       Promoting
  <2>4. RemovedIsRevoked' /\ CleaningOnce' /\ ChildIsNew'
    BY <1>9 DEF ActionCleaned, CleanReturns, RemovedIsRevoked, CleaningOnce,
       ChildIsNew
  <2>5. NewKey' /\ RestoredKey' /\ RotatedKey' /\ ReleasedFor'
    BY <1>9 DEF ActionCleaned, NewKey, SigningIn, Promoting, RestoredKey, Restoring,
       RotatedKey, ReleasedFor
  <2>6. KeyKeptUntilRevoked' /\ BoundKeysKept'
    BY <1>9, <2>a, ManagedSideIs DEF ActionCleaned, KeyKeptUntilRevoked, OnDisk,
       BoundKeysKept
  <2> QED
    BY <2>1, <2>2, <2>3, <2>4, <2>5, <2>6
<1>10. ASSUME Cleared PROVE KeysInv'
  <2>a. BackupKeys' = BackupKeys
    BY <1>10 DEF Cleared, BackupKeys
  <2>c. Handles' \subseteq Handles
    BY <1>10 DEF Handles
  <2>1. KTypeOK'
    BY <1>10 DEF Cleared, Moves, CleanReturns, KTypeOK, Pcs, Jobs
  <2>2. KeysNumbered'
    BY <1>10, <2>a, ManagedSideIs, <2>c DEF Cleared, KeysNumbered
  <2>3. HandlesAreTemporary'
    BY <1>10, <2>a, <2>c DEF Cleared, Moves, HandlesAreTemporary, HandleIsTemporary,
       Promoting
  <2>4. RemovedIsRevoked' /\ CleaningOnce' /\ ChildIsNew'
    BY <1>10 DEF Cleared, CleanReturns, RemovedIsRevoked, CleaningOnce, ChildIsNew
  <2>5. NewKey' /\ RestoredKey' /\ RotatedKey' /\ ReleasedFor'
    BY <1>10 DEF Cleared, Moves, NewKey, SigningIn, Promoting, RestoredKey,
       Restoring, RotatedKey, ReleasedFor
  <2>6. KeyKeptUntilRevoked' /\ BoundKeysKept'
    BY <1>10, <2>a, ManagedSideIs DEF Cleared, KeyKeptUntilRevoked, OnDisk,
       BoundKeysKept
  <2> QED
    BY <2>1, <2>2, <2>3, <2>4, <2>5, <2>6
<1> QED
  BY <1>1, <1>2, <1>3, <1>4, <1>5, <1>6, <1>7, <1>8, <1>9, <1>10

\* The shutdown.
LEMMA ShutdownStep ==
  ASSUME KeysInv,
         ShutdownStarts \/ ShutdownCleans \/ ShutdownReleases \/
         ShutdownCleaned \/ ProgramEnds
  PROVE  KeysInv'
<1> USE SshKeysAssumption DEF KeysInv, Keys, None, Managed, NotCleaning,
       vps, localDisk, pointers, authFlags, ssh, work, shutdown, history
<1>1. ASSUME ShutdownStarts PROVE KeysInv'
  <2>a. BackupKeys' = BackupKeys
    BY <1>1 DEF ShutdownStarts, BackupKeys
  <2>1. KTypeOK'
    BY <1>1 DEF ShutdownStarts, KillTunnels, KTypeOK, Pcs
  <2>2. KeysNumbered'
    BY <1>1, <2>a, ManagedSideIs DEF ShutdownStarts, KeysNumbered, Handles
  <2>3. HandlesAreTemporary'
    BY <1>1, <2>a DEF ShutdownStarts, HandlesAreTemporary, HandleIsTemporary,
       Handles, Promoting
  <2>4. RemovedIsRevoked' /\ CleaningOnce' /\ ChildIsNew'
    BY <1>1 DEF ShutdownStarts, RemovedIsRevoked, CleaningOnce, CleaningPoint,
       ChildIsNew
  <2>5. NewKey' /\ RestoredKey' /\ RotatedKey' /\ ReleasedFor'
    BY <1>1, <2>a DEF ShutdownStarts, NewKey, SigningIn, Promoting, RestoredKey,
       Restoring, RotatedKey, ReleasedFor
  <2>6. KeyKeptUntilRevoked' /\ BoundKeysKept'
    BY <1>1, <2>a, ManagedSideIs DEF ShutdownStarts, KeyKeptUntilRevoked, OnDisk,
       BoundKeysKept
  <2> QED
    BY <2>1, <2>2, <2>3, <2>4, <2>5, <2>6
<1>2. ASSUME ShutdownCleans PROVE KeysInv'
  <2>a. BackupKeys' = BackupKeys
    BY <1>2 DEF ShutdownCleans, BackupKeys
  <2>1. KTypeOK'
    BY <1>2 DEF ShutdownCleans, CleanStart, FirstStep, KTypeOK
  <2>2. KeysNumbered'
    BY <1>2, <2>a, ManagedSideIs DEF ShutdownCleans, CleanStart, ShutdownTarget,
       KeysNumbered, Handles
  <2>3. HandlesAreTemporary'
    BY <1>2, <2>a DEF ShutdownCleans, CleanStart, ShutdownTarget,
       HandlesAreTemporary, HandleIsTemporary, Handles
  <2>4. RemovedIsRevoked' /\ CleaningOnce' /\ ChildIsNew'
    BY <1>2 DEF ShutdownCleans, CleanStart, ShutdownTarget, FirstStep,
       RemovedIsRevoked, CleaningOnce, ChildIsNew, HandlesAreTemporary,
       HandleIsTemporary, Handles
  <2>5. NewKey' /\ RestoredKey' /\ RotatedKey' /\ ReleasedFor'
    BY <1>2, <2>a DEF ShutdownCleans, NewKey, RestoredKey, RotatedKey, ReleasedFor
  <2>6. KeyKeptUntilRevoked' /\ BoundKeysKept'
    BY <1>2, <2>a, ManagedSideIs DEF ShutdownCleans, KeyKeptUntilRevoked, OnDisk,
       BoundKeysKept
  <2> QED
    BY <2>1, <2>2, <2>3, <2>4, <2>5, <2>6
<1>3. ASSUME ShutdownReleases PROVE KeysInv'
  <2>a. BackupKeys' = BackupKeys
    BY <1>3 DEF ShutdownReleases, BackupKeys
  <2>c. Handles' \subseteq Handles
    BY <1>3 DEF Handles
  <2>1. KTypeOK'
    <3>1. TypedVps'
      BY <1>3 DEF ShutdownReleases, TypedVps, KTypeOK
    <3>2. TypedDisk'
      BY <1>3 DEF ShutdownReleases, TypedDisk, KTypeOK
    <3>3. TypedPointers'
      BY <1>3 DEF ShutdownReleases, TypedPointers, KTypeOK
    <3>4. TypedSsh'
      BY <1>3 DEF ShutdownReleases, TypedSsh, KTypeOK
    <3>5. TypedWork'
      BY <1>3 DEF ShutdownReleases, TypedWork, KTypeOK
    <3>6. TypedKeys'
      BY <1>3 DEF ShutdownReleases, TypedKeys, KTypeOK
    <3>7. TypedShutdown'
      BY <1>3 DEF ShutdownReleases, CleanReturns, TypedShutdown, KTypeOK
    <3>8. TypedKeyHistory'
      BY <1>3 DEF ShutdownReleases, TypedKeyHistory, KTypeOK
    <3> QED
      BY <3>1, <3>2, <3>3, <3>4, <3>5, <3>6, <3>7, <3>8, TypedIsTypeOK
  <2>2. KeysNumbered'
    BY <1>3, <2>a, ManagedSideIs, <2>c DEF ShutdownReleases, KeysNumbered
  <2>3. HandlesAreTemporary'
    BY <1>3, <2>a, <2>c DEF ShutdownReleases, HandlesAreTemporary, HandleIsTemporary
  <2>4. RemovedIsRevoked' /\ CleaningOnce' /\ ChildIsNew'
    BY <1>3 DEF ShutdownReleases, CleanReturns, RemovedIsRevoked, CleaningOnce,
       ChildIsNew
  <2>5. NewKey' /\ RestoredKey' /\ RotatedKey' /\ ReleasedFor'
    BY <1>3, <2>a DEF ShutdownReleases, NewKey, RestoredKey, RotatedKey, ReleasedFor
  <2>6. KeyKeptUntilRevoked' /\ BoundKeysKept'
    BY <1>3, <2>a, ManagedSideIs DEF ShutdownReleases, KeyKeptUntilRevoked, OnDisk,
       BoundKeysKept
  <2> QED
    BY <2>1, <2>2, <2>3, <2>4, <2>5, <2>6
<1>4. ASSUME ShutdownCleaned PROVE KeysInv'
  <2>a. BackupKeys' = BackupKeys
    BY <1>4 DEF ShutdownCleaned, BackupKeys
  <2>c. Handles' \subseteq Handles
    BY <1>4 DEF Handles
  <2>1. KTypeOK'
    <3>1. TypedVps'
      BY <1>4 DEF ShutdownCleaned, TypedVps, KTypeOK
    <3>2. TypedDisk'
      BY <1>4 DEF ShutdownCleaned, TypedDisk, KTypeOK
    <3>3. TypedPointers'
      BY <1>4 DEF ShutdownCleaned, TypedPointers, KTypeOK
    <3>4. TypedSsh'
      BY <1>4 DEF ShutdownCleaned, TypedSsh, KTypeOK
    <3>5. TypedWork'
      BY <1>4 DEF ShutdownCleaned, TypedWork, KTypeOK
    <3>6. TypedKeys'
      BY <1>4 DEF ShutdownCleaned, TypedKeys, KTypeOK
    <3>7. TypedShutdown'
      BY <1>4 DEF ShutdownCleaned, CleanReturns, TypedShutdown, KTypeOK
    <3>8. TypedKeyHistory'
      BY <1>4 DEF ShutdownCleaned, TypedKeyHistory, KTypeOK
    <3> QED
      BY <3>1, <3>2, <3>3, <3>4, <3>5, <3>6, <3>7, <3>8, TypedIsTypeOK
  <2>2. KeysNumbered'
    BY <1>4, <2>a, ManagedSideIs, <2>c DEF ShutdownCleaned, KeysNumbered
  <2>3. HandlesAreTemporary'
    BY <1>4, <2>a, <2>c DEF ShutdownCleaned, HandlesAreTemporary, HandleIsTemporary
  <2>4. RemovedIsRevoked' /\ CleaningOnce' /\ ChildIsNew'
    BY <1>4 DEF ShutdownCleaned, CleanReturns, RemovedIsRevoked, CleaningOnce,
       ChildIsNew
  <2>5. NewKey' /\ RestoredKey' /\ RotatedKey' /\ ReleasedFor'
    BY <1>4, <2>a DEF ShutdownCleaned, NewKey, RestoredKey, RotatedKey, ReleasedFor
  <2>6. KeyKeptUntilRevoked' /\ BoundKeysKept'
    BY <1>4, <2>a, ManagedSideIs DEF ShutdownCleaned, KeyKeptUntilRevoked, OnDisk,
       BoundKeysKept
  <2> QED
    BY <2>1, <2>2, <2>3, <2>4, <2>5, <2>6
<1>5. ASSUME ProgramEnds PROVE KeysInv'
  <2>a. BackupKeys' = BackupKeys
    BY <1>5 DEF ProgramEnds, BackupKeys
  <2>1. KTypeOK'
    <3>1. TypedVps'
      BY <1>5 DEF ProgramEnds, Removal, TypedVps, KTypeOK
    <3>2. TypedDisk'
      BY <1>5 DEF ProgramEnds, TypedDisk, KTypeOK
    <3>3. TypedPointers'
      BY <1>5 DEF ProgramEnds, TypedPointers
    <3>4. TypedSsh'
      BY <1>5 DEF ProgramEnds, TypedSsh
    <3>5. TypedWork'
      BY <1>5 DEF ProgramEnds, TypedWork, Pcs, Jobs
    <3>6. TypedKeys'
      BY <1>5 DEF ProgramEnds, TypedKeys, KTypeOK
    <3>7. TypedShutdown'
      BY <1>5 DEF ProgramEnds, TypedShutdown
    <3>8. TypedKeyHistory'
      BY <1>5 DEF ProgramEnds, TypedKeyHistory, KTypeOK
    <3> QED
      BY <3>1, <3>2, <3>3, <3>4, <3>5, <3>6, <3>7, <3>8, TypedIsTypeOK
  <2>2. KeysNumbered'
    BY <1>5, <2>a, ManagedSideIs DEF ProgramEnds, KeysNumbered, Handles, KTypeOK
  <2>3. HandlesAreTemporary'
    BY <1>5 DEF ProgramEnds, HandlesAreTemporary, Handles
  <2>4. RemovedIsRevoked' /\ CleaningOnce' /\ ChildIsNew'
    BY <1>5 DEF ProgramEnds, RemovedIsRevoked, CleaningOnce, ChildIsNew
  <2>5. NewKey' /\ RestoredKey' /\ RotatedKey' /\ ReleasedFor'
    BY <1>5 DEF ProgramEnds, NewKey, SigningIn, Promoting, RestoredKey, Restoring,
       RotatedKey, ReleasedFor
  <2>6. KeyKeptUntilRevoked' /\ BoundKeysKept'
    BY <1>5, <2>a, ManagedSideIs DEF ProgramEnds, Removal, KeyKeptUntilRevoked,
       OnDisk, BoundKeysKept
  <2> QED
    BY <2>1, <2>2, <2>3, <2>4, <2>5, <2>6
<1> QED
  BY <1>1, <1>2, <1>3, <1>4, <1>5

-----------------------------------------------------------------------------
LEMMA KeysInitially == KeysInit => KeysInv
<1> SUFFICES ASSUME KeysInit PROVE KeysInv
  OBVIOUS
<1> USE SshKeysAssumption DEF Keys, None, Managed, NotCleaning
<1>1. KTypeOK
  <2>1. authorized \subseteq Keys /\ temps \subseteq 1..generated /\ priv \in Keys \cup {None}
    BY DEF KeysInit
  <2>2. /\ cutShort \in BOOLEAN /\ pub \in Keys \cup {None} /\ spare \subseteq Keys
        /\ backups \subseteq KeyPairs
    BY <2>1 DEF KeysInit
  <2>3. /\ pc \in Pcs /\ failed \in BOOLEAN /\ ignored \in BOOLEAN /\ purpose \in Jobs
        /\ oldVerified \in BOOLEAN /\ {key, old, child} \subseteq Keys \cup {None}
    BY DEF KeysInit, Pcs, Jobs
  <2>4. /\ {action, active, heldPanel, tunnel} \subseteq Connections \cup {None}
        /\ active # Managed /\ installed \subseteq Keys /\ cleaned \subseteq Keys
        /\ masters \subseteq Connections
    BY DEF KeysInit, Connections
  <2>5. /\ cleaning \in [by : {"nobody", "main", "signal"}, key : Keys \cup {None},
                         step : {"none", "revoke", "remove", "done", "failed"}]
        /\ signal \in {"none", "held", "active", "close"}
        /\ generated \in 0..MaxKeys /\ confirmed \subseteq Keys /\ bound \subseteq Keys
    BY <2>1 DEF KeysInit
  <2> QED
    BY <2>1, <2>2, <2>3, <2>4, <2>5 DEF KTypeOK
<1>2. BackupKeys = {} /\ Handles = {} /\ ManagedSide = {priv} \ {None}
  BY DEF KeysInit, BackupKeys, Handles, ManagedSide
<1>3. KeysNumbered /\ HandlesAreTemporary /\ RemovedIsRevoked /\ CleaningOnce
  BY <1>2 DEF KeysInit, KeysNumbered, HandlesAreTemporary, RemovedIsRevoked,
     CleaningOnce
<1>4. ChildIsNew /\ NewKey /\ RestoredKey /\ RotatedKey /\ ReleasedFor
  BY <1>1 DEF KeysInit, KTypeOK, ChildIsNew, NewKey, RestoredKey, RotatedKey,
     ReleasedFor, SigningIn, Promoting, Restoring
<1>5. KeyKeptUntilRevoked /\ BoundKeysKept
  BY <1>2 DEF KeysInit, KeyKeptUntilRevoked, BoundKeysKept
<1> QED
  BY <1>1, <1>3, <1>4, <1>5 DEF KeysInv

LEMMA KeysStep == KeysInv /\ [KeysNext]_keysVars => KeysInv'
<1> SUFFICES ASSUME KeysInv, [KeysNext]_keysVars PROVE KeysInv'
  OBVIOUS
<1>1. CASE UNCHANGED keysVars
  BY <1>1 DEF keysVars, vps, localDisk, pointers, authFlags, ssh, work, shutdown,
     history, KeysInv, KTypeOK, KeysNumbered, HandlesAreTemporary, HandleIsTemporary,
     RemovedIsRevoked, CleaningOnce, ChildIsNew, NewKey, RestoredKey, RotatedKey,
     ReleasedFor, KeyKeptUntilRevoked, BoundKeysKept, Handles, ManagedSide, OnDisk,
     BackupKeys, CleaningPoint
<1>2. CASE \E k \in Keys : RestoreDirect(k) \/ RestoreByPassword(k)
  BY <1>2, BackupStep
<1>3. CASE KeysNext /\ ~\E k \in Keys : RestoreDirect(k) \/ RestoreByPassword(k)
  <2>1. 1 \in Keys
    BY SshKeysAssumption DEF Keys
  <2> QED
    BY <1>3, <2>1, SignInStep, PromoteStep, RotateStep, BackupStep, CleanupStep,
       ShutdownStep DEF KeysNext
<1> QED
  BY <1>1, <1>2, <1>3

\* The invariant holds in every reachable state.
THEOREM KeysAlways == KeysSpec => []KeysInv
  BY KeysInitially, KeysStep, PTL DEF KeysSpec

-----------------------------------------------------------------------------
\* Every pointer of the program names a connection or nothing, and every file
\* a key that was generated.
THEOREM KeysTypeCorrect == KeysSpec => []KTypeOK
<1>1. KeysInv => KTypeOK
  BY DEF KeysInv
<1> QED
  BY <1>1, KeysAlways, PTL

\* As long as the VPS accepts a key whose installation was reported, its private
\* half is on this computer, so that the program or the user can revoke it: the
\* program deletes it only after the revocation (cleanupTemporaryConnection).
THEOREM InstalledKeyKept == KeysSpec => []KeyKeptUntilRevoked
<1>1. KeysInv => KeyKeptUntilRevoked
  BY DEF KeysInv
<1> QED
  BY <1>1, KeysAlways, PTL

\* No key that was once the managed key is lost: promotion, rotation, unbinding,
\* archiving, restoration, their undoing and a crash leave a copy somewhere.
THEOREM BoundKeyNeverLost == KeysSpec => []BoundKeysKept
<1>1. KeysInv => BoundKeysKept
  BY DEF KeysInv
<1> QED
  BY <1>1, KeysAlways, PTL

\* The cleanup of a temporary login, at the end of an action, from the menu or when
\* the program returns, revokes no key that has been bound: Promoted takes the
\* login off the list before it makes the key the managed one.
THEOREM BoundKeySpared == KeysSpec => []CleanupSparesBound
<1>1. KeysInv => CleanupSparesBound
  <2> SUFFICES ASSUME KeysInv, cleaning.step = "revoke"
               PROVE  cleaning.key \notin bound
    BY DEF CleanupSparesBound
  <2>1. cleaning.key \in Handles \ cleaned
    BY DEF KeysInv, CleaningOnce, Handles, NotCleaning
  <2> QED
    BY <2>1 DEF KeysInv, HandlesAreTemporary, HandleIsTemporary
<1> QED
  BY <1>1, KeysAlways, PTL

-----------------------------------------------------------------------------
(* The handles, the panel and the managed login: three invariants beside   *)
(* KeysInv.                                                                *)

\* A login that is under way is the session that the shutdown would clean up,
\* unless a shutdown has done so.
ActiveIsNew ==
  pc \in SigningIn \cup Promoting =>
    active = key \/ (active = None /\ key \in cleaned)

\* The session for the shutdown gives way only to a later login or when it has
\* been cleaned up.
HandleNotDropped ==
  \A k \in installed \ cleaned :
    k = active \/ \E other \in cleaned \cup {active} : other > k

HandleInv ==
  installed \cup cleaned \subseteq 1..generated /\ ActiveIsNew /\ HandleNotDropped

\* A panel is open only at the end of the action that opened it and while it is held.
PanelHeld == tunnel # None /\ signal = "none" => pc \in {"ending", "holding"}

\* The connection of an action that is at work has not been cleaned up.
ActionAlive ==
  signal = "none" /\ pc \in SigningIn \cup Promoting \cup {"work"} =>
    /\ action \notin cleaned
    /\ pc # "work" => action = key

PanelInv ==
  PanelHeld /\ ActionAlive /\ PanelBeforeRevocation

\* What an action is about, where that does not depend on the menu.
LoginPurpose ==
  pc \in Promoting \cup {"menu", "exiting", "offer", "work", "unbind", "unbindMove"} =>
    purpose = "login"

\* A key that replaces another one is authorized, and is not the old one.
NewLogin ==
  /\ pc \in {"rotate", "rotate1", "rotate2", "rotate3", "rotate4", "rotateVerify",
             "rotateRemove"} => old # key
  /\ pc \in {"rotate1", "rotate2", "rotate3", "rotate4", "rotateVerify",
             "rotateRemove", "promoteDone"} => key \in authorized
  /\ pc \in {"rotate4", "rotateVerify", "rotateRemove"} => priv = key
  /\ pc \in {"rotateVerify", "rotateRemove", "promoteVerify", "promoteDone"} => pub = key

\* So is the key of a backup that is restored.
RestoredLogin ==
  /\ pc \in {"restoreFiles", "restoreVerify"} => old \in authorized
  /\ pc = "restoreVerify" => pub = old

\* The pair that an action started with, or has made, logs in.
PairLogsIn ==
  pc = "work" /\ action = Managed /\ priv # None => priv = pub /\ priv \in authorized

LoginInv ==
  /\ LoginPurpose /\ ManagedLoginWorks
  /\ signal = "none" /\ ~cutShort => NewLogin /\ RestoredLogin /\ PairLogsIn

-----------------------------------------------------------------------------
LEMMA HandleStep == KeysInv /\ HandleInv /\ [KeysNext]_keysVars => HandleInv'
<1> SUFFICES ASSUME KeysInv, HandleInv, [KeysNext]_keysVars PROVE HandleInv'
  OBVIOUS
<1> USE SshKeysAssumption DEF Keys, None, Managed, NotCleaning,
       vps, localDisk, pointers, authFlags, ssh, work, shutdown, history
\* What concerns no handle.
<1> DEFINE Same == UNCHANGED <<installed, cleaned, active, key, generated>>
<1>1. ASSUME Same, pc' \in SigningIn \cup Promoting => pc \in SigningIn \cup Promoting
      PROVE  HandleInv'
  BY <1>1 DEF HandleInv, ActiveIsNew, HandleNotDropped
\* A new login.
<1>2. ASSUME NEW goal \in Jobs, NewTemporary(goal), UNCHANGED <<installed, cleaned>>
      PROVE  HandleInv'
  BY <1>2 DEF NewTemporary, HandleInv, ActiveIsNew, HandleNotDropped, KeysInv, KTypeOK
<1>3. CASE ChooseTemporary \/ ChooseManagedAgain \/ \E k \in Keys : RestoreByPassword(k)
  BY <1>2, <1>3 DEF ChooseTemporary, ChooseManagedAgain, RestoreByPassword, Jobs
<1>4. CASE InstallAnswered
  BY <1>4 DEF InstallAnswered, Moves, HandleInv, ActiveIsNew, HandleNotDropped, KeysInv,
     KeysNumbered, KTypeOK, SigningIn, Promoting
<1>5. CASE Promoted
  <2>1. /\ pc = "promoteDone" /\ pc' = "work" /\ installed' = installed \ {key}
        /\ cleaned' = cleaned \cup {key} /\ active' = None /\ generated' = generated
    BY <1>5 DEF Promoted, Moves, Rebinds
  <2>2. key \in 1..generated /\ generated \in Nat /\ (active = key \/ active = None)
    BY <2>1 DEF KeysInv, NewKey, KeysNumbered, KTypeOK, HandleInv, ActiveIsNew, Promoting
  <2> QED
    BY <2>1, <2>2 DEF HandleInv, ActiveIsNew, HandleNotDropped, SigningIn, Promoting
<1>6. CASE RotateStart
  BY <1>6 DEF RotateStart, Moves, HandleInv, ActiveIsNew, HandleNotDropped, KeysInv,
     KeysNumbered, KTypeOK, SigningIn, Promoting
<1>7. CASE Removed
  BY <1>7 DEF Removed, HandleInv, ActiveIsNew, HandleNotDropped, KeysInv,
     KeysNumbered, KTypeOK, Handles, CleaningOnce
<1>8. CASE ActionCleaned
  BY <1>8 DEF ActionCleaned, HandleInv, ActiveIsNew, HandleNotDropped, SigningIn, Promoting
<1>9. CASE ProgramEnds
  BY <1>9 DEF ProgramEnds, HandleInv, ActiveIsNew, HandleNotDropped, SigningIn, Promoting
<1>10. CASE \/ ChooseManaged \/ StartInstall \/ ChildAppends \/ ChildFails \/ InstallLost
            \/ TemporaryVerified \/ StaysTemporary \/ PromotePrivate \/ PromotePublic
            \/ PromotedVerified \/ PromoteFails \/ WorkDone \/ WorkFails \/ OpenPanel
  BY <1>1, <1>10 DEF ChooseManaged, StartInstall, ChildAppends, ChildFails, InstallLost,
     TemporaryVerified, StaysTemporary, PromotePrivate, PromotePublic, PromotedVerified,
     PromoteFails, WorkDone, WorkFails, OpenPanel, Moves, FailsFrom, SigningIn, Promoting
<1>11. CASE \/ RotateInstall \/ RotatePrivateAway \/ RotatePublicAway \/ RotatePrivateIn
            \/ RotatePublicIn \/ RotateVerified \/ RotateRemove
  BY <1>1, <1>11 DEF RotateInstall, RotatePrivateAway, RotatePublicAway, RotatePrivateIn,
     RotatePublicIn, RotateVerified, RotateRemove, Moves, SigningIn, Promoting
<1>12. CASE \/ UnbindStart \/ UnbindRevoke \/ UnbindMove \/ UnbindRefused \/ ArchiveAll
            \/ (\E k \in Keys : RestoreDirect(k)) \/ RestoreInstall \/ RestoreFiles
            \/ RestoreVerified \/ RestoreUndone
  BY <1>1, <1>12 DEF UnbindStart, UnbindRevoke, UnbindMove, UnbindRefused, ArchiveAll,
     RestoreDirect, RestoreInstall, RestoreFiles, RestoreVerified, RestoreUndone, Moves,
     FailsFrom, SigningIn, Promoting
<1>13. CASE \/ Revoked \/ CleanFails \/ HoldsPanel \/ EndsAction \/ ClosesPanel
            \/ StartsCleaning \/ Cleared
  BY <1>1, <1>13 DEF Revoked, CleanFails, KeepsHandles, HoldsPanel, EndsAction, ClosesPanel,
     StartsCleaning, Cleared, Moves, SigningIn, Promoting
<1>14. CASE Released
  BY <1>1, <1>14 DEF Released, SigningIn, Promoting, KeysInv, ReleasedFor
<1>15. CASE ShutdownStarts \/ ShutdownCleans \/ ShutdownReleases \/ ShutdownCleaned
  BY <1>1, <1>15 DEF ShutdownStarts, ShutdownCleans, ShutdownReleases, ShutdownCleaned,
     SigningIn, Promoting
<1>16. CASE UNCHANGED keysVars
  BY <1>1, <1>16 DEF keysVars
<1> QED
  BY <1>3, <1>4, <1>5, <1>6, <1>7, <1>8, <1>9, <1>10, <1>11, <1>12, <1>13, <1>14, <1>15,
     <1>16 DEF KeysNext

LEMMA PanelStep == KeysInv /\ HandleInv /\ PanelInv /\ [KeysNext]_keysVars => PanelInv'
<1> SUFFICES ASSUME KeysInv, HandleInv, PanelInv, [KeysNext]_keysVars PROVE PanelInv'
  OBVIOUS
<1> USE SshKeysAssumption DEF Keys, None, Managed, NotCleaning,
       vps, localDisk, pointers, authFlags, ssh, work, shutdown, history
\* During a shutdown nothing is claimed.
<1>1. ASSUME signal' # "none" PROVE PanelInv'
  BY <1>1 DEF PanelInv, PanelHeld, ActionAlive, PanelBeforeRevocation
\* Without a panel only the action that works matters.
<1>2. ASSUME signal = "none" => tunnel' = None, ActionAlive', signal' = signal PROVE PanelInv'
  BY <1>2 DEF PanelInv, PanelHeld, PanelBeforeRevocation
<1>3. ASSUME UNCHANGED <<tunnel, signal>>, pc \notin {"ending", "holding"}, ActionAlive'
      PROVE  PanelInv'
  BY <1>2, <1>3 DEF PanelInv, PanelHeld
\* A new login.
<1>4. ASSUME NEW goal \in Jobs, NewTemporary(goal), UNCHANGED <<cleaned, signal>>
      PROVE  ActionAlive'
  BY <1>4 DEF NewTemporary, ActionAlive, HandleInv, KeysInv, KTypeOK
<1>5. CASE ChooseTemporary \/ ChooseManagedAgain \/ \E k \in Keys : RestoreByPassword(k)
  BY <1>3, <1>4, <1>5 DEF ChooseTemporary, ChooseManagedAgain, RestoreByPassword, Moves, Jobs
\* A login with the managed key, which is never among the temporary ones.
<1>6. CASE ChooseManaged
  BY <1>3, <1>6 DEF ChooseManaged, Moves, ActionAlive, SigningIn, Promoting, KeysInv, KTypeOK
<1>7. CASE Promoted
  BY <1>3, <1>7 DEF Promoted, Moves, Rebinds, ActionAlive, SigningIn, Promoting, KeysInv,
     KTypeOK, NewKey
\* A login, a promotion and the work itself.
<1>8. CASE \/ StartInstall \/ InstallAnswered \/ InstallLost \/ TemporaryVerified
           \/ StaysTemporary \/ PromotePrivate \/ PromotePublic \/ PromotedVerified
           \/ PromoteFails \/ WorkDone \/ WorkFails
  <2>1. /\ pc \in Pcs \ {"ending", "holding"} /\ UNCHANGED <<tunnel, signal, action, cleaned, key>>
        /\ pc' \in SigningIn \cup Promoting \cup {"work"} =>
             pc \in SigningIn \cup Promoting
    BY <1>8 DEF StartInstall, InstallAnswered, InstallLost, TemporaryVerified,
       StaysTemporary, PromotePrivate, PromotePublic, PromotedVerified, PromoteFails, WorkDone,
       WorkFails, Moves, FailsFrom, SigningIn, Promoting, Pcs
  <2> QED
    BY <1>3, <2>1 DEF PanelInv, ActionAlive, SigningIn, Promoting
<1>9. CASE OpenPanel
  BY <1>9 DEF OpenPanel, Moves, PanelInv, PanelHeld, ActionAlive, PanelBeforeRevocation,
     SigningIn, Promoting
\* Work on the managed key is no login.
<1>10. ASSUME UNCHANGED <<tunnel, signal>>, pc \notin {"ending", "holding"},
              pc' \notin SigningIn \cup Promoting \cup {"work"}
       PROVE  PanelInv'
  BY <1>3, <1>10 DEF ActionAlive
<1>11. CASE \/ RotateStart \/ RotateInstall \/ RotatePrivateAway \/ RotatePublicAway
            \/ RotatePrivateIn \/ RotatePublicIn \/ RotateVerified \/ RotateRemove
  BY <1>10, <1>11 DEF RotateStart, RotateInstall, RotatePrivateAway, RotatePublicAway,
     RotatePrivateIn, RotatePublicIn, RotateVerified, RotateRemove, Moves, SigningIn, Promoting
<1>12. CASE \/ UnbindStart \/ UnbindRevoke \/ UnbindMove \/ UnbindRefused \/ ArchiveAll
            \/ (\E k \in Keys : RestoreDirect(k)) \/ RestoreInstall \/ RestoreFiles
            \/ RestoreVerified \/ RestoreUndone
  BY <1>10, <1>12 DEF UnbindStart, UnbindRevoke, UnbindMove, UnbindRefused, ArchiveAll,
     RestoreDirect, RestoreInstall, RestoreFiles, RestoreVerified, RestoreUndone, Moves,
     FailsFrom, SigningIn, Promoting
\* An ssh process of an earlier program.
<1>13. CASE ChildAppends \/ ChildFails
  BY <1>13 DEF ChildAppends, ChildFails, PanelInv, PanelHeld, ActionAlive, PanelBeforeRevocation
\* A cleanup by the action is at one of its cleaning points, where no panel is open; any
\* other is part of a shutdown.
<1>14. CASE Revoked \/ CleanFails \/ Removed
  <2>1. cleaning.step \in {"revoke", "remove"} /\ UNCHANGED <<pc, tunnel, signal>>
    BY <1>14 DEF Revoked, CleanFails, Removed
  <2>2. signal = "none" => CleaningPoint
    BY <2>1 DEF KeysInv, KTypeOK, CleaningOnce
  <2> QED
    BY <1>1, <1>10, <2>1, <2>2 DEF CleaningPoint, SigningIn, Promoting
<1>15. CASE StartsCleaning
  BY <1>10, <1>15 DEF StartsCleaning, CleaningPoint, SigningIn, Promoting
<1>16. CASE Released \/ Cleared \/ ActionCleaned
  BY <1>10, <1>16 DEF Released, Cleared, ActionCleaned, Moves, SigningIn, Promoting, KeysInv,
     ReleasedFor
<1>17. CASE HoldsPanel
  BY <1>17 DEF HoldsPanel, Moves, PanelInv, PanelHeld, ActionAlive, PanelBeforeRevocation,
     SigningIn, Promoting
<1>18. CASE EndsAction \/ ClosesPanel
  BY <1>2, <1>18 DEF EndsAction, ClosesPanel, KillTunnels, Moves, ActionAlive, SigningIn,
     Promoting
<1>19. CASE ShutdownStarts \/ ShutdownCleans \/ ShutdownReleases \/ ShutdownCleaned
  BY <1>1, <1>19 DEF ShutdownStarts, ShutdownCleans, ShutdownReleases, ShutdownCleaned
<1>20. CASE ProgramEnds
  BY <1>20 DEF ProgramEnds, PanelInv, PanelHeld, ActionAlive, PanelBeforeRevocation, SigningIn,
     Promoting
<1>21. CASE UNCHANGED keysVars
  BY <1>21 DEF keysVars, PanelInv, PanelHeld, ActionAlive, PanelBeforeRevocation
<1> QED
  BY <1>5, <1>6, <1>7, <1>8, <1>9, <1>11, <1>12, <1>13, <1>14, <1>15, <1>16, <1>17, <1>18,
     <1>19, <1>20, <1>21 DEF KeysNext

LEMMA LoginStep ==
  KeysInv /\ PanelInv /\ LoginInv /\ [KeysNext]_keysVars => LoginInv'
<1> SUFFICES ASSUME KeysInv, PanelInv, LoginInv, [KeysNext]_keysVars PROVE LoginInv'
  OBVIOUS
<1> USE SshKeysAssumption DEF Keys, None, Managed, NotCleaning,
       vps, localDisk, pointers, authFlags, ssh, work, shutdown, history
\* During a shutdown only the purpose is claimed.
<1>1. ASSUME signal' # "none", LoginPurpose' PROVE LoginInv'
  BY <1>1 DEF LoginInv, ManagedLoginWorks
\* A failure claims nothing either.
<1>2. ASSUME failed', pc' = "ending" PROVE LoginInv'
  BY <1>2 DEF LoginInv, LoginPurpose, Promoting, ManagedLoginWorks, NewLogin, RestoredLogin,
     PairLogsIn
<1>3. CASE \/ InstallLost \/ PromoteFails \/ WorkFails \/ UnbindRefused \/ RestoreUndone
  BY <1>2, <1>3 DEF InstallLost, PromoteFails, WorkFails, UnbindRefused, RestoreUndone,
     FailsFrom
\* The beginning of a login.
<1>4. ASSUME pc' \in {"install", "installing", "verifying"} PROVE LoginInv'
  BY <1>4 DEF LoginInv, LoginPurpose, Promoting, ManagedLoginWorks, NewLogin, RestoredLogin,
     PairLogsIn
<1>5. CASE ChooseTemporary \/ ChooseManagedAgain \/ (\E k \in Keys : RestoreByPassword(k))
           \/ StartInstall \/ InstallAnswered
  BY <1>4, <1>5 DEF ChooseTemporary, ChooseManagedAgain, RestoreByPassword, StartInstall,
     InstallAnswered, Moves
<1>6. CASE ChooseManaged
  BY <1>6 DEF ChooseManaged, Moves, LoginInv, LoginPurpose, Promoting, ManagedLoginWorks,
     NewLogin, RestoredLogin, PairLogsIn
<1>7. CASE TemporaryVerified
  BY <1>7 DEF TemporaryVerified, Moves, LoginInv, LoginPurpose, Promoting, ManagedLoginWorks,
     NewLogin, RestoredLogin, PairLogsIn
<1>8. CASE StaysTemporary
  BY <1>8 DEF StaysTemporary, Moves, LoginInv, LoginPurpose, Promoting, ManagedLoginWorks,
     NewLogin, RestoredLogin, PairLogsIn, PanelInv, ActionAlive, SigningIn, KeysInv, NewKey
\* The promotion: verified by a login with the key that becomes the managed one.
<1>9. CASE PromotePrivate \/ PromotePublic \/ PromotedVerified \/ Promoted
  BY <1>9 DEF PromotePrivate, PromotePublic, PromotedVerified, Promoted, Moves, LoginInv,
     LoginPurpose, Promoting, ManagedLoginWorks, NewLogin, RestoredLogin, PairLogsIn, KeysInv,
     NewKey
<1>10. CASE WorkDone \/ OpenPanel
  BY <1>10 DEF WorkDone, OpenPanel, Moves, LoginInv, LoginPurpose, Promoting,
     ManagedLoginWorks, NewLogin, RestoredLogin, PairLogsIn
\* The rotation: the key that is removed at its end is not the new one.
<1>11. CASE RotateStart
  <2>1. priv \in 1..generated
    BY <1>11, ManagedSideIs DEF RotateStart, KeysInv, KeysNumbered, KTypeOK
  <2> QED
    BY <1>11, <2>1 DEF RotateStart, Moves, LoginInv, LoginPurpose, Promoting,
       ManagedLoginWorks, NewLogin, RestoredLogin, PairLogsIn, KeysInv, KTypeOK
<1>12. CASE \/ RotateInstall \/ RotatePrivateAway \/ RotatePublicAway \/ RotatePrivateIn
            \/ RotatePublicIn \/ RotateVerified
  BY <1>12 DEF RotateInstall, RotatePrivateAway, RotatePublicAway, RotatePrivateIn,
     RotatePublicIn, RotateVerified, Moves, LoginInv, LoginPurpose, Promoting,
     ManagedLoginWorks, NewLogin, RestoredLogin, PairLogsIn
<1>13. CASE RotateRemove
  BY <1>13 DEF RotateRemove, Removal, LineToRemove, Moves, LoginInv, LoginPurpose, Promoting,
     ManagedLoginWorks, NewLogin, RestoredLogin, PairLogsIn
\* Unbinding leaves no pair, restoring one that is authorized.
<1>14. CASE UnbindStart \/ UnbindRevoke \/ UnbindMove \/ ArchiveAll
  BY <1>14 DEF UnbindStart, UnbindRevoke, UnbindMove, ArchiveAll, Moves, LoginInv,
     LoginPurpose, Promoting, ManagedLoginWorks, NewLogin, RestoredLogin, PairLogsIn
<1>15. CASE \/ (\E k \in Keys : RestoreDirect(k)) \/ RestoreInstall \/ RestoreFiles
            \/ RestoreVerified
  BY <1>15 DEF RestoreDirect, RestoreInstall, RestoreFiles, RestoreVerified, Moves, LoginInv,
     LoginPurpose, Promoting, ManagedLoginWorks, NewLogin, RestoredLogin, PairLogsIn, KeysInv,
     RestoredKey
\* More keys are authorized.
<1>16. CASE ChildAppends \/ ChildFails
  BY <1>16 DEF ChildAppends, ChildFails, LoginInv, LoginPurpose, ManagedLoginWorks,
     NewLogin, RestoredLogin, PairLogsIn
\* A cleanup by the action revokes no managed key.
<1>17. CASE Revoked \/ CleanFails \/ Removed
  <2>1. /\ cleaning.step \in {"revoke", "remove"}
        /\ UNCHANGED <<pc, failed, priv, pub, action, purpose, signal>>
        /\ (Removal(cleaning.key) \/ UNCHANGED vps)
    BY <1>17 DEF Revoked, CleanFails, KeepsHandles, Removed
  <2>2. signal = "none" => CleaningPoint
    BY <2>1 DEF KeysInv, KTypeOK, CleaningOnce
  <2>3. signal = "none" => cleaning.key # priv
    BY <2>1, <2>2 DEF KeysInv, KTypeOK, CleaningOnce, CleaningPoint, HandlesAreTemporary,
       HandleIsTemporary, Handles, Promoting
  <2> QED
    BY <2>1, <2>2, <2>3 DEF Removal, CleaningPoint, LoginInv, LoginPurpose, ManagedLoginWorks,
       NewLogin, RestoredLogin, PairLogsIn
<1>18. CASE StartsCleaning
  BY <1>18 DEF StartsCleaning, LoginInv, LoginPurpose, ManagedLoginWorks, NewLogin,
     RestoredLogin, PairLogsIn
<1>19. CASE HoldsPanel \/ EndsAction \/ ClosesPanel
  BY <1>19 DEF HoldsPanel, EndsAction, ClosesPanel, Moves, LoginInv, LoginPurpose, Promoting,
     ManagedLoginWorks, NewLogin, RestoredLogin, PairLogsIn
<1>20. CASE Released
  <2>1. pc = "release" => pc' = "cleanup"
    BY <1>20 DEF Released
  <2>2. pc # "release" => purpose \in {"login", "clear", "archive"}
    BY <1>20 DEF Released, KeysInv, ReleasedFor
  <2>3. pc # "release" => pc' = IF purpose = "login" THEN "menu" ELSE purpose
    BY <1>20 DEF Released
  <2>4. UNCHANGED <<authorized, cutShort, priv, pub, purpose, signal>>
    BY <1>20 DEF Released
  <2>5. action' = action \/ action' = None
    BY <1>20, Zenon DEF Released
  <2>6. failed' = failed \/ failed' = TRUE
    BY <1>20, Zenon DEF Released
  <2> QED
    BY <2>1, <2>2, <2>3, <2>4, <2>5, <2>6 DEF LoginInv, LoginPurpose, Promoting,
       ManagedLoginWorks, NewLogin, RestoredLogin, PairLogsIn
<1>21. CASE Cleared \/ ActionCleaned
  BY <1>21 DEF Cleared, ActionCleaned, Moves, LoginInv, LoginPurpose, Promoting,
     ManagedLoginWorks, NewLogin, RestoredLogin, PairLogsIn
<1>22. CASE ShutdownStarts \/ ShutdownCleans \/ ShutdownReleases \/ ShutdownCleaned
  BY <1>1, <1>22 DEF ShutdownStarts, ShutdownCleans, ShutdownReleases, ShutdownCleaned,
     LoginInv, LoginPurpose, Promoting
<1>23. CASE ProgramEnds
  BY <1>23 DEF ProgramEnds, LoginInv, LoginPurpose, ManagedLoginWorks, NewLogin,
     RestoredLogin, PairLogsIn
<1>24. CASE UNCHANGED keysVars
  BY <1>24 DEF keysVars, LoginInv, LoginPurpose, ManagedLoginWorks, NewLogin,
     RestoredLogin, PairLogsIn
<1> QED
  BY <1>3, <1>5, <1>6, <1>7, <1>8, <1>9, <1>10, <1>11, <1>12, <1>13, <1>14, <1>15, <1>16,
     <1>17, <1>18, <1>19, <1>20, <1>21, <1>22, <1>23, <1>24 DEF KeysNext

LEMMA LoginsInitially == KeysInit => HandleInv /\ PanelInv /\ LoginInv
<1> SUFFICES ASSUME KeysInit PROVE HandleInv /\ PanelInv /\ LoginInv
  OBVIOUS
<1>1. /\ pc = "menu" /\ purpose = "login" /\ tunnel = None /\ installed = {} /\ cleaned = {}
  BY DEF KeysInit
<1> QED
  BY <1>1 DEF HandleInv, ActiveIsNew, HandleNotDropped, PanelInv, PanelHeld, ActionAlive,
     PanelBeforeRevocation, LoginInv, LoginPurpose, ManagedLoginWorks, NewLogin,
     RestoredLogin, PairLogsIn, SigningIn, Promoting

\* These invariants hold in every reachable state.
THEOREM LoginsAlways == KeysSpec => [](HandleInv /\ PanelInv /\ LoginInv)
  BY KeysAlways, LoginsInitially, HandleStep, PanelStep, LoginStep, PTL DEF KeysSpec

\* The program never loses the only handle of a temporary key that it has installed
\* and not cleaned up: a failed cleanup keeps it for [C] and for the end of the
\* program, until a later temporary login takes its place.
THEOREM RetryHandleNotLost == KeysSpec => []RetryHandleKept
<1>1. KeysInv /\ HandleInv => RetryHandleKept
  BY SshKeysAssumption DEF KeysInv, KTypeOK, Connections, Keys, None, Managed, HandleInv,
     HandleNotDropped, RetryHandleKept
<1> QED
  BY <1>1, KeysAlways, LoginsAlways, PTL

\* An action that worked with the managed key, or restored it, and reports success
\* leaves a pair that logs in: what it revoked was another key.
THEOREM ManagedLoginNotBroken == KeysSpec => []ManagedLoginWorks
<1>1. LoginInv => ManagedLoginWorks
  BY DEF LoginInv
<1> QED
  BY <1>1, LoginsAlways, PTL

\* The panel forward is gone before the login it runs over is revoked or its master
\* closed, except when a signal has ended the program's work.
THEOREM PanelClosedFirst == KeysSpec => []PanelBeforeRevocation
<1>1. PanelInv => PanelBeforeRevocation
  BY DEF PanelInv
<1> QED
  BY <1>1, LoginsAlways, PTL

=============================================================================
