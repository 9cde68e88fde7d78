--------------------------- MODULE IpRebindProofs ---------------------------
(***************************************************************************)
(* Proofs about IpRebind, for any number of addresses, sessions and moves: *)
(* a rebind recorded as complete is whole, whichever commands died, were   *)
(* repeated or ran late, and the recorded phase tells whether the records  *)
(* of the node may differ.  When no session begins while a command of an   *)
(* earlier one is left on the node, the local endpoint follows the node,   *)
(* a complete session leaves a key for it, and what can be aborted is      *)
(* untouched.                                                              *)
(***************************************************************************)
EXTENDS IpRebind, TLAPS

-----------------------------------------------------------------------------
(* Types.                                                                  *)

Runnings == {Nobody} \cup [step : Steps, req : Requests]
SessionPcs == {"idle", "verify", "identity", "preflight", "park", "dns", "abort",
               "commit", "mark", "rename", "final", "archive"}
Words == {"nothing", "error", "BLOCKED_PRE_DNS", "BLOCKED_POST_DNS",
          "PARKED", "stopped", "COMPLETE"}

\* The type invariant, part by part.
TypedNode ==
  /\ direct \in BOOLEAN /\ accepted \in BOOLEAN
  /\ identity \in Addresses /\ public \in Addresses
  /\ rewritten \subseteq Addresses /\ counted \subseteq Addresses
TypedTx == tx \in Transactions
TypedCommands ==
  /\ running \in Runnings /\ waiting \subseteq Requests
  /\ answer \in {"none", "ok", "failed"}
TypedSession ==
  /\ sessionPc \in SessionPcs /\ entry \in Directories /\ new \in Addresses
  /\ stage \in {"none", "copy", "marked"} /\ dirs \subseteq Directories
  /\ retried \in BOOLEAN /\ said \in Words /\ sessions \in 0..MaxSessions
TypedProvider == at \in Addresses /\ dns \in Addresses /\ moves \in 0..MaxMoves

Typed == TypedNode /\ TypedTx /\ TypedCommands /\ TypedSession /\ TypedProvider

LEMMA TypedIsBTypeOK == Typed <=> BTypeOK
  BY DEF Typed, TypedNode, TypedTx, TypedCommands, TypedSession, TypedProvider,
     BTypeOK, Runnings, SessionPcs, Words

LEMMA CommandStepTyped == ASSUME running \in Runnings, running # Nobody, NEW step \in Steps,
                          StepsTo(step)
                   PROVE  running' \in Runnings
  BY DEF Runnings, StepsTo

LEMMA CommandTyped == ASSUME running \in Runnings, running # Nobody
                      PROVE  /\ running.step \in Steps /\ running.req \in Requests
                             /\ OldIP \in Addresses /\ NewIP \in Addresses
  BY DEF Runnings, Requests, OldIP, NewIP

LEMMA AnswersTyped == ASSUME TypedCommands, NEW result \in {"ok", "failed"},
                             Answers(result), waiting' = waiting
                      PROVE  TypedCommands'
  BY DEF TypedCommands, Answers, Runnings

LEMMA WriteTyped == ASSUME running \in Runnings, running # Nobody,
                           NEW status \in Statuses, NEW d \in BOOLEAN,
                           NEW phase \in {"PRE_DNS", "POST_DNS"},
                           WriteState(status, d, phase)
                    PROVE  TypedTx'
<1>1. OldIP \in Addresses /\ NewIP \in Addresses
  BY CommandTyped
<1> QED
  BY <1>1 DEF WriteState, TypedTx, Transactions

LEMMA DisownTyped == ASSUME running \in Runnings, waiting \subseteq Requests
                     PROVE  DisownedRunning \in Runnings /\ Disown(waiting) \subseteq Requests
<1>1. DisownedRunning \in Runnings
  <2>1. CASE running = Nobody
    BY <2>1 DEF DisownedRunning, Runnings
  <2>2. CASE running # Nobody
    BY <2>2 DEF DisownedRunning, Runnings, Requests
  <2> QED
    BY <2>1, <2>2
<1>2. Disown(waiting) \subseteq Requests
  BY DEF Disown, Requests
<1> QED
  BY <1>1, <1>2

LEMMA OwnRequestTyped == ASSUME TypedSession, NEW op \in Ops
                         PROVE  [op |-> op, old |-> entry.addr, new |-> new, mine |-> TRUE]
                                  \in Requests
  BY DEF TypedSession, Directories, Requests

LEMMA ManagedTyped == ASSUME NEW a \in Addresses PROVE ManagedDir(a) \in Directories
  BY DEF ManagedDir, Directories

\* What the session sends and waits for has its type.
LEMMA SendsTyped == ASSUME Typed, NEW op \in Ops, NEW w \in SessionPcs, Sends(op, w)
                    PROVE  TypedCommands' /\ sessionPc' \in SessionPcs /\ retried' \in BOOLEAN
<1>1. DisownedRunning \in Runnings /\ Disown(waiting) \subseteq Requests
  BY DisownTyped DEF Typed, TypedCommands
<1>2. [op |-> op, old |-> entry.addr, new |-> new, mine |-> TRUE] \in Requests
  BY OwnRequestTyped DEF Typed
<1> QED
  BY <1>1, <1>2 DEF Sends, TypedCommands

LEMMA EndsTyped == ASSUME Typed, NEW word \in Words, Ends(word)
                   PROVE  /\ TypedCommands' /\ sessionPc' \in SessionPcs
                          /\ retried' \in BOOLEAN /\ said' \in Words /\ stage' = "none"
                          /\ entry' \in Directories /\ new' \in Addresses
<1>1. DisownedRunning \in Runnings /\ Disown(waiting) \subseteq Requests
  BY DisownTyped DEF Typed, TypedCommands
<1>2. ManagedDir(First) \in Directories
  BY ManagedTyped, IpRebindAssumption
<1> QED
  BY <1>1, <1>2, IpRebindAssumption DEF Ends, TypedCommands, SessionPcs

LEMMA RebindTypes == Typed /\ RebindNext => Typed'
<1> SUFFICES ASSUME Typed, RebindNext PROVE Typed'
  OBVIOUS
<1>1. ASSUME NEW r \in waiting, GetsLock(r) PROVE Typed'
  <2>1. TypedNode'
    BY <1>1 DEF GetsLock, node, session, provider, TypedNode, Typed
  <2>2. TypedTx'
    BY <1>1 DEF GetsLock, node, session, provider, TypedTx, Typed
  <2>3. TypedCommands'
    BY <1>1 DEF GetsLock, Runnings, Steps, node, session, provider, TypedCommands,
       Typed
  <2>4. TypedSession'
    BY <1>1 DEF GetsLock, node, session, provider, TypedSession, Typed
  <2>5. TypedProvider'
    BY <1>1 DEF GetsLock, node, session, provider, TypedProvider, Typed
  <2> QED
    BY <2>1, <2>2, <2>3, <2>4, <2>5 DEF Typed
<1>2. ASSUME PreflightChecks PROVE Typed'
  <2>1. TypedNode'
    BY <1>2 DEF PreflightChecks, node, session, provider, TypedNode, Typed
  <2>2. TypedTx'
    BY <1>2 DEF PreflightChecks, node, session, provider, TypedTx, Typed
  <2>3. TypedCommands'
    BY <1>2, CommandStepTyped DEF PreflightChecks, Steps, StepsTo, Runs, node, session,
       provider, TypedCommands, Typed
  <2>4. TypedSession'
    BY <1>2 DEF PreflightChecks, node, session, provider, TypedSession, Typed
  <2>5. TypedProvider'
    BY <1>2 DEF PreflightChecks, node, session, provider, TypedProvider, Typed
  <2> QED
    BY <2>1, <2>2, <2>3, <2>4, <2>5 DEF Typed
<1>3. ASSUME PreflightWrites PROVE Typed'
  <2>1. TypedNode'
    BY <1>3 DEF PreflightWrites, node, session, provider, TypedNode, Typed
  <2>2. TypedTx'
    BY <1>3, WriteTyped DEF PreflightWrites, Runs, Statuses, TypedCommands,
       TypedNode, node, session, provider, TypedTx, Typed
  <2>3. TypedCommands'
    BY <1>3, AnswersTyped DEF PreflightWrites, node, session, provider,
       TypedCommands, Typed
  <2>4. TypedSession'
    BY <1>3 DEF PreflightWrites, node, session, provider, TypedSession, Typed
  <2>5. TypedProvider'
    BY <1>3 DEF PreflightWrites, node, session, provider, TypedProvider, Typed
  <2> QED
    BY <2>1, <2>2, <2>3, <2>4, <2>5 DEF Typed
<1>4. ASSUME CommitStarts PROVE Typed'
  <2>1. TypedNode'
    BY <1>4 DEF CommitStarts, node, session, provider, TypedNode, Typed
  <2>2. TypedTx'
    BY <1>4, WriteTyped DEF CommitStarts, Runs, Statuses, TypedCommands,
       TypedNode, Transactions, node, session, provider, TypedTx, Typed
  <2>3. TypedCommands'
    BY <1>4, CommandStepTyped DEF CommitStarts, Steps, StepsTo, Runs, node, session,
       provider, TypedCommands, Typed
  <2>4. TypedSession'
    BY <1>4 DEF CommitStarts, node, session, provider, TypedSession, Typed
  <2>5. TypedProvider'
    BY <1>4 DEF CommitStarts, node, session, provider, TypedProvider, Typed
  <2> QED
    BY <2>1, <2>2, <2>3, <2>4, <2>5 DEF Typed
<1>5. ASSUME CommitPublic PROVE Typed'
  <2>1. TypedNode'
    BY <1>5, CommandTyped DEF CommitPublic, Runs, TypedCommands, session,
       provider, TypedNode, Typed
  <2>2. TypedTx'
    BY <1>5 DEF CommitPublic, session, provider, TypedTx, Typed
  <2>3. TypedCommands'
    BY <1>5, CommandStepTyped DEF CommitPublic, Steps, StepsTo, Runs, session, provider,
       TypedCommands, Typed
  <2>4. TypedSession'
    BY <1>5 DEF CommitPublic, session, provider, TypedSession, Typed
  <2>5. TypedProvider'
    BY <1>5 DEF CommitPublic, session, provider, TypedProvider, Typed
  <2> QED
    BY <2>1, <2>2, <2>3, <2>4, <2>5 DEF Typed
<1>6. ASSUME CommitIdentity PROVE Typed'
  <2>1. TypedNode'
    BY <1>6, CommandTyped DEF CommitIdentity, Runs, TypedCommands, session,
       provider, TypedNode, Typed
  <2>2. TypedTx'
    BY <1>6 DEF CommitIdentity, session, provider, TypedTx, Typed
  <2>3. TypedCommands'
    BY <1>6, CommandStepTyped DEF CommitIdentity, Steps, StepsTo, Runs, session,
       provider, TypedCommands, Typed
  <2>4. TypedSession'
    BY <1>6 DEF CommitIdentity, session, provider, TypedSession, Typed
  <2>5. TypedProvider'
    BY <1>6 DEF CommitIdentity, session, provider, TypedProvider, Typed
  <2> QED
    BY <2>1, <2>2, <2>3, <2>4, <2>5 DEF Typed
<1>7. ASSUME CommitShares PROVE Typed'
  <2>1. TypedNode'
    BY <1>7 DEF CommitShares, node, session, provider, TypedNode, Typed
  <2>2. TypedTx'
    BY <1>7 DEF CommitShares, node, session, provider, TypedTx, Typed
  <2>3. TypedCommands'
    BY <1>7, CommandStepTyped DEF CommitShares, Steps, StepsTo, Runs, node, session,
       provider, TypedCommands, Typed
  <2>4. TypedSession'
    BY <1>7 DEF CommitShares, node, session, provider, TypedSession, Typed
  <2>5. TypedProvider'
    BY <1>7 DEF CommitShares, node, session, provider, TypedProvider, Typed
  <2> QED
    BY <2>1, <2>2, <2>3, <2>4, <2>5 DEF Typed
<1>8. ASSUME CommitFiles PROVE Typed'
  <2>1. TypedNode'
    BY <1>8, CommandTyped DEF CommitFiles, Runs, TypedCommands, Rewrite, session,
       provider, TypedNode, Typed
  <2>2. TypedTx'
    BY <1>8 DEF CommitFiles, session, provider, TypedTx, Typed
  <2>3. TypedCommands'
    BY <1>8, CommandStepTyped, AnswersTyped DEF CommitFiles, Steps, StepsTo, Runs,
       session, provider, TypedCommands, Typed
  <2>4. TypedSession'
    BY <1>8 DEF CommitFiles, session, provider, TypedSession, Typed
  <2>5. TypedProvider'
    BY <1>8 DEF CommitFiles, session, provider, TypedProvider, Typed
  <2> QED
    BY <2>1, <2>2, <2>3, <2>4, <2>5 DEF Typed
<1>9. ASSUME CommitHandoff PROVE Typed'
  <2>1. TypedNode'
    BY <1>9, CommandTyped DEF CommitHandoff, Runs, TypedCommands, Rewrite,
       session, provider, TypedNode, Typed
  <2>2. TypedTx'
    BY <1>9 DEF CommitHandoff, session, provider, TypedTx, Typed
  <2>3. TypedCommands'
    BY <1>9, CommandStepTyped DEF CommitHandoff, Steps, StepsTo, Runs, session, provider,
       TypedCommands, Typed
  <2>4. TypedSession'
    BY <1>9 DEF CommitHandoff, session, provider, TypedSession, Typed
  <2>5. TypedProvider'
    BY <1>9 DEF CommitHandoff, session, provider, TypedProvider, Typed
  <2> QED
    BY <2>1, <2>2, <2>3, <2>4, <2>5 DEF Typed
<1>10. ASSUME CommitCounts PROVE Typed'
  <2>1. TypedNode'
    BY <1>10 DEF CommitCounts, node, session, provider, TypedNode, Typed
  <2>2. TypedTx'
    BY <1>10 DEF CommitCounts, node, session, provider, TypedTx, Typed
  <2>3. TypedCommands'
    BY <1>10, CommandStepTyped DEF CommitCounts, Steps, StepsTo, Runs, node, session,
       provider, TypedCommands, Typed
  <2>4. TypedSession'
    BY <1>10 DEF CommitCounts, node, session, provider, TypedSession, Typed
  <2>5. TypedProvider'
    BY <1>10 DEF CommitCounts, node, session, provider, TypedProvider, Typed
  <2> QED
    BY <2>1, <2>2, <2>3, <2>4, <2>5 DEF Typed
<1>11. ASSUME CommitCompletes PROVE Typed'
  <2>1. TypedNode'
    BY <1>11 DEF CommitCompletes, node, session, provider, TypedNode, Typed
  <2>2. TypedTx'
    BY <1>11, WriteTyped DEF CommitCompletes, Runs, Statuses, TypedCommands,
       TypedNode, Transactions, node, session, provider, TypedTx, Typed
  <2>3. TypedCommands'
    BY <1>11, AnswersTyped DEF CommitCompletes, node, session, provider,
       TypedCommands, Typed
  <2>4. TypedSession'
    BY <1>11 DEF CommitCompletes, node, session, provider, TypedSession, Typed
  <2>5. TypedProvider'
    BY <1>11 DEF CommitCompletes, node, session, provider, TypedProvider, Typed
  <2> QED
    BY <2>1, <2>2, <2>3, <2>4, <2>5 DEF Typed
<1>12. ASSUME CommitBlocks PROVE Typed'
  <2>1. TypedNode'
    BY <1>12 DEF CommitBlocks, node, session, provider, TypedNode, Typed
  <2>2. TypedTx'
    BY <1>12, WriteTyped DEF CommitBlocks, Statuses, TypedCommands, TypedNode,
       Transactions, node, session, provider, TypedTx, Typed
  <2>3. TypedCommands'
    BY <1>12, AnswersTyped DEF CommitBlocks, node, session, provider,
       TypedCommands, Typed
  <2>4. TypedSession'
    BY <1>12 DEF CommitBlocks, node, session, provider, TypedSession, Typed
  <2>5. TypedProvider'
    BY <1>12 DEF CommitBlocks, node, session, provider, TypedProvider, Typed
  <2> QED
    BY <2>1, <2>2, <2>3, <2>4, <2>5 DEF Typed
<1>13. ASSUME WaitCloudflare PROVE Typed'
  <2>1. TypedNode'
    BY <1>13 DEF WaitCloudflare, node, session, provider, TypedNode, Typed
  <2>2. TypedTx'
    BY <1>13, WriteTyped DEF WaitCloudflare, Runs, Statuses, TypedCommands,
       TypedNode, node, session, provider, TypedTx, Typed
  <2>3. TypedCommands'
    BY <1>13, AnswersTyped DEF WaitCloudflare, node, session, provider,
       TypedCommands, Typed
  <2>4. TypedSession'
    BY <1>13 DEF WaitCloudflare, node, session, provider, TypedSession, Typed
  <2>5. TypedProvider'
    BY <1>13 DEF WaitCloudflare, node, session, provider, TypedProvider, Typed
  <2> QED
    BY <2>1, <2>2, <2>3, <2>4, <2>5 DEF Typed
<1>14. ASSUME AbortPreDns PROVE Typed'
  <2>1. TypedNode'
    BY <1>14 DEF AbortPreDns, node, session, provider, TypedNode, Typed
  <2>2. TypedTx'
    BY <1>14 DEF AbortPreDns, Transactions, Statuses, TypedNode, node, session,
       provider, TypedTx, Typed
  <2>3. TypedCommands'
    BY <1>14, AnswersTyped DEF AbortPreDns, node, session, provider,
       TypedCommands, Typed
  <2>4. TypedSession'
    BY <1>14 DEF AbortPreDns, node, session, provider, TypedSession, Typed
  <2>5. TypedProvider'
    BY <1>14 DEF AbortPreDns, node, session, provider, TypedProvider, Typed
  <2> QED
    BY <2>1, <2>2, <2>3, <2>4, <2>5 DEF Typed
<1>15. ASSUME Stops PROVE Typed'
  <2>1. TypedNode'
    BY <1>15 DEF Stops, node, session, provider, TypedNode, Typed
  <2>2. TypedTx'
    BY <1>15 DEF Stops, node, session, provider, TypedTx, Typed
  <2>3. TypedCommands'
    BY <1>15, AnswersTyped DEF Stops, node, session, provider, TypedCommands,
       Typed
  <2>4. TypedSession'
    BY <1>15 DEF Stops, node, session, provider, TypedSession, Typed
  <2>5. TypedProvider'
    BY <1>15 DEF Stops, node, session, provider, TypedProvider, Typed
  <2> QED
    BY <2>1, <2>2, <2>3, <2>4, <2>5 DEF Typed
<1>16. ASSUME NEW e \in dirs, NEW b \in Addresses, Begin(e, b) PROVE Typed'
  <2>1. TypedNode'
    BY <1>16 DEF Begin, node, commands, provider, TypedNode, Typed
  <2>2. TypedTx'
    BY <1>16 DEF Begin, node, commands, provider, TypedTx, Typed
  <2>3. TypedCommands'
    BY <1>16 DEF Begin, node, commands, provider, TypedCommands, Typed
  <2>4. TypedSession'
    BY <1>16, IpRebindAssumption DEF Begin, SessionPcs, Words, node, commands,
       provider, TypedSession, Typed
  <2>5. TypedProvider'
    BY <1>16 DEF Begin, node, commands, provider, TypedProvider, Typed
  <2> QED
    BY <2>1, <2>2, <2>3, <2>4, <2>5 DEF Typed
<1>17. ASSUME VerifyKey PROVE Typed'
  <2>1. TypedNode'
    BY <1>17 DEF VerifyKey, node, commands, provider, TypedNode, Typed
  <2>2. TypedTx'
    BY <1>17 DEF VerifyKey, node, commands, provider, TypedTx, Typed
  <2>3. TypedCommands'
    BY <1>17 DEF VerifyKey, node, commands, provider, TypedCommands, Typed
  <2>4. TypedSession'
    BY <1>17 DEF VerifyKey, SessionPcs, node, commands, provider, TypedSession,
       Typed
  <2>5. TypedProvider'
    BY <1>17 DEF VerifyKey, node, commands, provider, TypedProvider, Typed
  <2> QED
    BY <2>1, <2>2, <2>3, <2>4, <2>5 DEF Typed
<1>18. ASSUME InstallByPassword PROVE Typed'
  <2>1. TypedNode'
    BY <1>18 DEF InstallByPassword, commands, provider, TypedNode, Typed
  <2>2. TypedTx'
    BY <1>18 DEF InstallByPassword, commands, provider, TypedTx, Typed
  <2>3. TypedCommands'
    BY <1>18, EndsTyped DEF InstallByPassword, Words, commands, provider,
       TypedCommands, Typed
  <2>4. TypedSession'
    BY <1>18, EndsTyped DEF InstallByPassword, Words, SessionPcs, commands,
       provider, TypedSession, Typed
  <2>5. TypedProvider'
    BY <1>18 DEF InstallByPassword, commands, provider, TypedProvider, Typed
  <2> QED
    BY <2>1, <2>2, <2>3, <2>4, <2>5 DEF Typed
<1>19. ASSUME FetchIdentity PROVE Typed'
  <2>1. TypedNode'
    BY <1>19 DEF FetchIdentity, node, provider, TypedNode, Typed
  <2>2. TypedTx'
    BY <1>19 DEF FetchIdentity, node, provider, TypedTx, Typed
  <2>3. TypedCommands'
    BY <1>19, SendsTyped, EndsTyped DEF FetchIdentity, Ops, SessionPcs, Words,
       node, provider, TypedCommands, Typed
  <2>4. TypedSession'
    BY <1>19, SendsTyped, EndsTyped DEF FetchIdentity, Ops, SessionPcs, Words,
       node, provider, TypedSession, Typed
  <2>5. TypedProvider'
    BY <1>19 DEF FetchIdentity, node, provider, TypedProvider, Typed
  <2> QED
    BY <2>1, <2>2, <2>3, <2>4, <2>5 DEF Typed
<1>20. ASSUME Prepared PROVE Typed'
  <2>1. TypedNode'
    BY <1>20 DEF Prepared, node, commands, provider, TypedNode, Typed
  <2>2. TypedTx'
    BY <1>20 DEF Prepared, node, commands, provider, TypedTx, Typed
  <2>3. TypedCommands'
    BY <1>20, SendsTyped DEF Prepared, Ops, SessionPcs, node, commands, provider,
       TypedCommands, Typed
  <2>4. TypedSession'
    BY <1>20, SendsTyped DEF Prepared, Ops, SessionPcs, node, commands, provider,
       TypedSession, Typed
  <2>5. TypedProvider'
    BY <1>20 DEF Prepared, node, commands, provider, TypedProvider, Typed
  <2> QED
    BY <2>1, <2>2, <2>3, <2>4, <2>5 DEF Typed
<1>21. ASSUME NotPrepared PROVE Typed'
  <2>1. TypedNode'
    BY <1>21 DEF NotPrepared, node, provider, TypedNode, Typed
  <2>2. TypedTx'
    BY <1>21 DEF NotPrepared, node, provider, TypedTx, Typed
  <2>3. TypedCommands'
    BY <1>21, EndsTyped DEF NotPrepared, Words, node, provider, TypedCommands,
       Typed
  <2>4. TypedSession'
    BY <1>21, EndsTyped DEF NotPrepared, Words, SessionPcs, node, provider,
       TypedSession, Typed
  <2>5. TypedProvider'
    BY <1>21 DEF NotPrepared, node, provider, TypedProvider, Typed
  <2> QED
    BY <2>1, <2>2, <2>3, <2>4, <2>5 DEF Typed
<1>22. ASSUME Parked PROVE Typed'
  <2>1. TypedNode'
    BY <1>22 DEF Parked, node, provider, TypedNode, Typed
  <2>2. TypedTx'
    BY <1>22 DEF Parked, node, provider, TypedTx, Typed
  <2>3. TypedCommands'
    BY <1>22, EndsTyped DEF Parked, Words, node, provider, TypedCommands, Typed
  <2>4. TypedSession'
    BY <1>22, EndsTyped DEF Parked, Words, SessionPcs, node, provider,
       TypedSession, Typed
  <2>5. TypedProvider'
    BY <1>22 DEF Parked, node, provider, TypedProvider, Typed
  <2> QED
    BY <2>1, <2>2, <2>3, <2>4, <2>5 DEF Typed
<1>23. ASSUME DnsConverged PROVE Typed'
  <2>1. TypedNode'
    BY <1>23 DEF DnsConverged, node, provider, TypedNode, Typed
  <2>2. TypedTx'
    BY <1>23 DEF DnsConverged, node, provider, TypedTx, Typed
  <2>3. TypedCommands'
    BY <1>23, SendsTyped DEF DnsConverged, Ops, SessionPcs, node, provider,
       TypedCommands, Typed
  <2>4. TypedSession'
    BY <1>23, SendsTyped DEF DnsConverged, Ops, SessionPcs, node, provider,
       TypedSession, Typed
  <2>5. TypedProvider'
    BY <1>23 DEF DnsConverged, node, provider, TypedProvider, Typed
  <2> QED
    BY <2>1, <2>2, <2>3, <2>4, <2>5 DEF Typed
<1>24. ASSUME Quits PROVE Typed'
  <2>1. TypedNode'
    BY <1>24 DEF Quits, node, provider, TypedNode, Typed
  <2>2. TypedTx'
    BY <1>24 DEF Quits, node, provider, TypedTx, Typed
  <2>3. TypedCommands'
    BY <1>24, SendsTyped DEF Quits, Ops, SessionPcs, node, provider,
       TypedCommands, Typed
  <2>4. TypedSession'
    BY <1>24, SendsTyped DEF Quits, Ops, SessionPcs, node, provider, TypedSession,
       Typed
  <2>5. TypedProvider'
    BY <1>24 DEF Quits, node, provider, TypedProvider, Typed
  <2> QED
    BY <2>1, <2>2, <2>3, <2>4, <2>5 DEF Typed
<1>25. ASSUME Aborted PROVE Typed'
  <2>1. TypedNode'
    BY <1>25 DEF Aborted, node, provider, TypedNode, Typed
  <2>2. TypedTx'
    BY <1>25 DEF Aborted, node, provider, TypedTx, Typed
  <2>3. TypedCommands'
    BY <1>25, EndsTyped DEF Aborted, Words, node, provider, TypedCommands, Typed
  <2>4. TypedSession'
    BY <1>25, EndsTyped DEF Aborted, Words, SessionPcs, node, provider,
       TypedSession, Typed
  <2>5. TypedProvider'
    BY <1>25 DEF Aborted, node, provider, TypedProvider, Typed
  <2> QED
    BY <2>1, <2>2, <2>3, <2>4, <2>5 DEF Typed
<1>26. ASSUME CommitAnswered PROVE Typed'
  <2>1. TypedNode'
    BY <1>26 DEF CommitAnswered, node, commands, provider, TypedNode, Typed
  <2>2. TypedTx'
    BY <1>26 DEF CommitAnswered, node, commands, provider, TypedTx, Typed
  <2>3. TypedCommands'
    BY <1>26, EndsTyped DEF CommitAnswered, Words, node, commands, provider,
       TypedCommands, Typed
  <2>4. TypedSession'
    BY <1>26, EndsTyped DEF CommitAnswered, Words, SessionPcs, node, commands,
       provider, TypedSession, Typed
  <2>5. TypedProvider'
    BY <1>26 DEF CommitAnswered, node, commands, provider, TypedProvider, Typed
  <2> QED
    BY <2>1, <2>2, <2>3, <2>4, <2>5 DEF Typed
<1>27. ASSUME MarksStage PROVE Typed'
  <2>1. TypedNode'
    BY <1>27 DEF MarksStage, node, commands, provider, TypedNode, Typed
  <2>2. TypedTx'
    BY <1>27 DEF MarksStage, node, commands, provider, TypedTx, Typed
  <2>3. TypedCommands'
    BY <1>27 DEF MarksStage, node, commands, provider, TypedCommands, Typed
  <2>4. TypedSession'
    BY <1>27 DEF MarksStage, SessionPcs, node, commands, provider, TypedSession,
       Typed
  <2>5. TypedProvider'
    BY <1>27 DEF MarksStage, node, commands, provider, TypedProvider, Typed
  <2> QED
    BY <2>1, <2>2, <2>3, <2>4, <2>5 DEF Typed
<1>28. ASSUME RenamesStage PROVE Typed'
  <2>1. TypedNode'
    BY <1>28 DEF RenamesStage, node, commands, provider, TypedNode, Typed
  <2>2. TypedTx'
    BY <1>28 DEF RenamesStage, node, commands, provider, TypedTx, Typed
  <2>3. TypedCommands'
    BY <1>28 DEF RenamesStage, node, commands, provider, TypedCommands, Typed
  <2>4. TypedSession'
    BY <1>28, ManagedTyped DEF RenamesStage, SessionPcs, Renamed, node, commands,
       provider, TypedSession, Typed
  <2>5. TypedProvider'
    BY <1>28 DEF RenamesStage, node, commands, provider, TypedProvider, Typed
  <2> QED
    BY <2>1, <2>2, <2>3, <2>4, <2>5 DEF Typed
<1>29. ASSUME FinalVerification PROVE Typed'
  <2>1. TypedNode'
    BY <1>29 DEF FinalVerification, node, commands, provider, TypedNode, Typed
  <2>2. TypedTx'
    BY <1>29 DEF FinalVerification, node, commands, provider, TypedTx, Typed
  <2>3. TypedCommands'
    BY <1>29, EndsTyped DEF FinalVerification, Words, node, commands, provider,
       TypedCommands, Typed
  <2>4. TypedSession'
    BY <1>29, EndsTyped DEF FinalVerification, Words, SessionPcs, node, commands,
       provider, TypedSession, Typed
  <2>5. TypedProvider'
    BY <1>29 DEF FinalVerification, node, commands, provider, TypedProvider, Typed
  <2> QED
    BY <2>1, <2>2, <2>3, <2>4, <2>5 DEF Typed
<1>30. ASSUME ArchivesOld PROVE Typed'
  <2>1. TypedNode'
    BY <1>30 DEF ArchivesOld, node, provider, TypedNode, Typed
  <2>2. TypedTx'
    BY <1>30 DEF ArchivesOld, node, provider, TypedTx, Typed
  <2>3. TypedCommands'
    BY <1>30, EndsTyped DEF ArchivesOld, Words, node, provider, TypedCommands,
       Typed
  <2>4. TypedSession'
    BY <1>30, EndsTyped DEF ArchivesOld, Words, SessionPcs, node, provider,
       TypedSession, Typed
  <2>5. TypedProvider'
    BY <1>30 DEF ArchivesOld, node, provider, TypedProvider, Typed
  <2> QED
    BY <2>1, <2>2, <2>3, <2>4, <2>5 DEF Typed
<1>31. ASSUME LocalStepFails PROVE Typed'
  <2>1. TypedNode'
    BY <1>31 DEF LocalStepFails, node, provider, TypedNode, Typed
  <2>2. TypedTx'
    BY <1>31 DEF LocalStepFails, node, provider, TypedTx, Typed
  <2>3. TypedCommands'
    BY <1>31, EndsTyped DEF LocalStepFails, Words, node, provider, TypedCommands,
       Typed
  <2>4. TypedSession'
    BY <1>31, EndsTyped DEF LocalStepFails, Words, SessionPcs, node, provider,
       TypedSession, Typed
  <2>5. TypedProvider'
    BY <1>31 DEF LocalStepFails, node, provider, TypedProvider, Typed
  <2> QED
    BY <2>1, <2>2, <2>3, <2>4, <2>5 DEF Typed
<1>32. ASSUME ConnectionBreaks PROVE Typed'
  <2>1. TypedNode'
    BY <1>32 DEF ConnectionBreaks, node, provider, TypedNode, Typed
  <2>2. TypedTx'
    BY <1>32 DEF ConnectionBreaks, node, provider, TypedTx, Typed
  <2>3. TypedCommands'
    BY <1>32, DisownTyped, OwnRequestTyped DEF ConnectionBreaks, Ops, node,
       provider, TypedCommands, Typed
  <2>4. TypedSession'
    BY <1>32 DEF ConnectionBreaks, SessionPcs, node, provider, TypedSession, Typed
  <2>5. TypedProvider'
    BY <1>32 DEF ConnectionBreaks, node, provider, TypedProvider, Typed
  <2> QED
    BY <2>1, <2>2, <2>3, <2>4, <2>5 DEF Typed
<1>33. ASSUME Killed PROVE Typed'
  <2>1. TypedNode'
    BY <1>33 DEF Killed, node, provider, TypedNode, Typed
  <2>2. TypedTx'
    BY <1>33 DEF Killed, node, provider, TypedTx, Typed
  <2>3. TypedCommands'
    BY <1>33, EndsTyped DEF Killed, Words, node, provider, TypedCommands, Typed
  <2>4. TypedSession'
    BY <1>33, EndsTyped DEF Killed, Words, SessionPcs, Directories, node,
       provider, TypedSession, Typed
  <2>5. TypedProvider'
    BY <1>33 DEF Killed, node, provider, TypedProvider, Typed
  <2> QED
    BY <2>1, <2>2, <2>3, <2>4, <2>5 DEF Typed
<1>34. ASSUME NEW b \in Addresses, ProviderMoves(b) PROVE Typed'
  <2>1. TypedNode'
    BY <1>34 DEF ProviderMoves, node, commands, session, TypedNode, Typed
  <2>2. TypedTx'
    BY <1>34 DEF ProviderMoves, node, commands, session, TypedTx, Typed
  <2>3. TypedCommands'
    BY <1>34 DEF ProviderMoves, node, commands, session, TypedCommands, Typed
  <2>4. TypedSession'
    BY <1>34 DEF ProviderMoves, node, commands, session, TypedSession, Typed
  <2>5. TypedProvider'
    BY <1>34, IpRebindAssumption DEF ProviderMoves, node, commands, session,
       TypedProvider, Typed
  <2> QED
    BY <2>1, <2>2, <2>3, <2>4, <2>5 DEF Typed
<1>35. ASSUME NEW b \in Addresses, DnsEdited(b) PROVE Typed'
  <2>1. TypedNode'
    BY <1>35 DEF DnsEdited, node, commands, session, TypedNode, Typed
  <2>2. TypedTx'
    BY <1>35 DEF DnsEdited, node, commands, session, TypedTx, Typed
  <2>3. TypedCommands'
    BY <1>35 DEF DnsEdited, node, commands, session, TypedCommands, Typed
  <2>4. TypedSession'
    BY <1>35 DEF DnsEdited, node, commands, session, TypedSession, Typed
  <2>5. TypedProvider'
    BY <1>35, IpRebindAssumption DEF DnsEdited, node, commands, session,
       TypedProvider, Typed
  <2> QED
    BY <2>1, <2>2, <2>3, <2>4, <2>5 DEF Typed
<1> QED
  BY <1>1, <1>2, <1>3, <1>4, <1>5, <1>6, <1>7, <1>8, <1>9, <1>10, <1>11, <1>12,
     <1>13, <1>14, <1>15, <1>16, <1>17, <1>18, <1>19, <1>20, <1>21, <1>22, <1>23,
     <1>24, <1>25, <1>26, <1>27, <1>28, <1>29, <1>30, <1>31, <1>32, <1>33, <1>34,
     <1>35 DEF RebindNext, ScriptNext, SessionNext

-----------------------------------------------------------------------------
(* What the holder of the lock may rely on.                                *)

\* A commit has written that it is under way.
Started == running # Nobody /\ running.req.op = "commit-direct" /\ running.step # "start"

\* Records and files as the commit that holds the lock has left them.
Holding ==
  /\ running # Nobody /\ running.req.op = "preflight" /\ running.step = "snapshot" =>
       identity = public
  /\ Started =>
       /\ tx.status = "COMMITTING" /\ tx.phase = "POST_DNS"
       /\ running.step # "public" => public = running.req.new
       /\ running.step \in {"shares", "files", "handoff", "count", "health"} =>
            identity = running.req.new
       /\ running.step = "health" => running.req.old \notin rewritten \cup counted

\* While the phase says that no record has been moved, they agree.
PhaseKnown ==
  /\ tx.phase = "PRE_DNS" => identity = public
  /\ tx.status = "PREPARED" => tx.phase = "PRE_DNS"

RebindInv == Holding /\ CompleteIsWhole /\ PhaseKnown

LEMMA SameHolder ==
  ASSUME BTypeOK, RebindInv, running' \in {running, DisownedRunning},
         UNCHANGED <<identity, public, rewritten, counted, tx>>
  PROVE  RebindInv'
<1>1. CASE running' = running
  BY <1>1 DEF RebindInv, Holding, Started, CompleteIsWhole, PhaseKnown, Nobody
<1>2. CASE running' = DisownedRunning /\ running # Nobody
  <2>1. /\ running' # Nobody /\ running'.step = running.step
        /\ running'.req.op = running.req.op /\ running'.req.old = running.req.old
        /\ running'.req.new = running.req.new
    BY <1>2 DEF DisownedRunning, BTypeOK, Requests, Nobody
  <2> QED
    BY <1>2, <2>1 DEF RebindInv, Holding, Started, CompleteIsWhole, PhaseKnown
<1> QED
  BY <1>1, <1>2 DEF DisownedRunning

LEMMA HoldingStep == BTypeOK /\ RebindInv /\ RebindNext => RebindInv'
<1> SUFFICES ASSUME BTypeOK, RebindInv, RebindNext PROVE RebindInv'
  OBVIOUS
<1>1. ASSUME NEW r \in waiting, GetsLock(r) PROVE RebindInv'
  BY <1>1 DEF GetsLock, BTypeOK, Transactions, Requests, RebindInv, Holding,
     Started, CompleteIsWhole, PhaseKnown, Nobody, node, commands, session,
     provider
<1>2. ASSUME PreflightChecks PROVE RebindInv'
  BY <1>2 DEF PreflightChecks, Runs, StepsTo, PreflightMatches, BTypeOK,
     Transactions, Requests, RebindInv, Holding, Started, CompleteIsWhole,
     PhaseKnown, Nobody, node, commands, session, provider
<1>3. ASSUME PreflightWrites PROVE RebindInv'
  BY <1>3 DEF PreflightWrites, Runs, Answers, WriteState, OldIP, NewIP, BTypeOK,
     Transactions, Requests, RebindInv, Holding, Started, CompleteIsWhole,
     PhaseKnown, Nobody, node, commands, session, provider
<1>4. ASSUME CommitStarts PROVE RebindInv'
  BY <1>4 DEF CommitStarts, Runs, StepsTo, WriteState, OldIP, NewIP, BTypeOK,
     Transactions, Requests, RebindInv, Holding, Started, CompleteIsWhole,
     PhaseKnown, Nobody, node, commands, session, provider
<1>5. ASSUME CommitPublic PROVE RebindInv'
  BY <1>5 DEF CommitPublic, Runs, StepsTo, NewIP, BTypeOK, Transactions, Requests,
     RebindInv, Holding, Started, CompleteIsWhole, PhaseKnown, Nobody, node,
     commands, session, provider
<1>6. ASSUME CommitIdentity PROVE RebindInv'
  BY <1>6 DEF CommitIdentity, Runs, StepsTo, NewIP, BTypeOK, Transactions,
     Requests, RebindInv, Holding, Started, CompleteIsWhole, PhaseKnown, Nobody,
     node, commands, session, provider
<1>7. ASSUME CommitShares PROVE RebindInv'
  BY <1>7 DEF CommitShares, Runs, StepsTo, BTypeOK, Transactions, Requests,
     RebindInv, Holding, Started, CompleteIsWhole, PhaseKnown, Nobody, node,
     commands, session, provider
<1>8. ASSUME CommitFiles PROVE RebindInv'
  BY <1>8 DEF CommitFiles, Runs, Answers, StepsTo, BTypeOK, Transactions,
     Requests, RebindInv, Holding, Started, CompleteIsWhole, PhaseKnown, Nobody,
     node, commands, session, provider
<1>9. ASSUME CommitHandoff PROVE RebindInv'
  BY <1>9 DEF CommitHandoff, Runs, StepsTo, BTypeOK, Transactions, Requests,
     RebindInv, Holding, Started, CompleteIsWhole, PhaseKnown, Nobody, node,
     commands, session, provider
<1>10. ASSUME CommitCounts PROVE RebindInv'
  BY <1>10 DEF CommitCounts, Runs, StepsTo, NoReferenceLeft, OldIP, NewIP,
     BTypeOK, Transactions, Requests, RebindInv, Holding, Started,
     CompleteIsWhole, PhaseKnown, Nobody, node, commands, session, provider
<1>11. ASSUME CommitCompletes PROVE RebindInv'
  BY <1>11 DEF CommitCompletes, Runs, Answers, WriteState, OldIP, NewIP, BTypeOK,
     Transactions, Requests, RebindInv, Holding, Started, CompleteIsWhole,
     PhaseKnown, Nobody, node, commands, session, provider
<1>12. ASSUME CommitBlocks PROVE RebindInv'
  BY <1>12 DEF CommitBlocks, Answers, WriteState, NoReferenceLeft, OldIP, NewIP,
     BTypeOK, Transactions, Requests, RebindInv, Holding, Started,
     CompleteIsWhole, PhaseKnown, Nobody, node, commands, session, provider
<1>13. ASSUME WaitCloudflare PROVE RebindInv'
  BY <1>13 DEF WaitCloudflare, Runs, Answers, NewIP, WriteState, OldIP, BTypeOK,
     Transactions, Requests, RebindInv, Holding, Started, CompleteIsWhole,
     PhaseKnown, Nobody, node, commands, session, provider
<1>14. ASSUME AbortPreDns PROVE RebindInv'
  BY <1>14 DEF AbortPreDns, Runs, Answers, BTypeOK, Transactions, Requests,
     RebindInv, Holding, Started, CompleteIsWhole, PhaseKnown, Nobody, node,
     commands, session, provider
<1>15. ASSUME Stops PROVE RebindInv'
  BY <1>15 DEF Stops, Answers, BTypeOK, Transactions, Requests, RebindInv,
     Holding, Started, CompleteIsWhole, PhaseKnown, Nobody, node, commands,
     session, provider
<1>16. ASSUME NEW e \in dirs, NEW b \in Addresses, Begin(e, b) PROVE RebindInv'
  BY <1>16, SameHolder DEF Begin, node, commands, session, provider
<1>17. ASSUME VerifyKey PROVE RebindInv'
  BY <1>17, SameHolder DEF VerifyKey, node, commands, session, provider
<1>18. ASSUME InstallByPassword PROVE RebindInv'
  BY <1>18, SameHolder DEF InstallByPassword, Ends, node, commands, session,
     provider
<1>19. ASSUME FetchIdentity PROVE RebindInv'
  BY <1>19, SameHolder DEF FetchIdentity, Sends, Ends, node, commands, session,
     provider
<1>20. ASSUME Prepared PROVE RebindInv'
  BY <1>20, SameHolder DEF Prepared, Sends, node, commands, session, provider
<1>21. ASSUME NotPrepared PROVE RebindInv'
  BY <1>21, SameHolder DEF NotPrepared, Ends, node, commands, session, provider
<1>22. ASSUME Parked PROVE RebindInv'
  BY <1>22, SameHolder DEF Parked, Ends, node, commands, session, provider
<1>23. ASSUME DnsConverged PROVE RebindInv'
  BY <1>23, SameHolder DEF DnsConverged, Sends, node, commands, session, provider
<1>24. ASSUME Quits PROVE RebindInv'
  BY <1>24, SameHolder DEF Quits, Sends, node, commands, session, provider
<1>25. ASSUME Aborted PROVE RebindInv'
  BY <1>25, SameHolder DEF Aborted, Ends, node, commands, session, provider
<1>26. ASSUME CommitAnswered PROVE RebindInv'
  BY <1>26, SameHolder DEF CommitAnswered, Ends, node, commands, session, provider
<1>27. ASSUME MarksStage PROVE RebindInv'
  BY <1>27, SameHolder DEF MarksStage, node, commands, session, provider
<1>28. ASSUME RenamesStage PROVE RebindInv'
  BY <1>28, SameHolder DEF RenamesStage, node, commands, session, provider
<1>29. ASSUME FinalVerification PROVE RebindInv'
  BY <1>29, SameHolder DEF FinalVerification, Ends, node, commands, session,
     provider
<1>30. ASSUME ArchivesOld PROVE RebindInv'
  BY <1>30, SameHolder DEF ArchivesOld, Ends, node, commands, session, provider
<1>31. ASSUME LocalStepFails PROVE RebindInv'
  BY <1>31, SameHolder DEF LocalStepFails, Ends, node, commands, session, provider
<1>32. ASSUME ConnectionBreaks PROVE RebindInv'
  BY <1>32, SameHolder DEF ConnectionBreaks, node, commands, session, provider
<1>33. ASSUME Killed PROVE RebindInv'
  BY <1>33, SameHolder DEF Killed, Ends, node, commands, session, provider
<1>34. ASSUME NEW b \in Addresses, ProviderMoves(b) PROVE RebindInv'
  BY <1>34, SameHolder DEF ProviderMoves, node, commands, session, provider
<1>35. ASSUME NEW b \in Addresses, DnsEdited(b) PROVE RebindInv'
  BY <1>35, SameHolder DEF DnsEdited, node, commands, session, provider
<1> QED
  BY <1>1, <1>2, <1>3, <1>4, <1>5, <1>6, <1>7, <1>8, <1>9, <1>10, <1>11, <1>12,
     <1>13, <1>14, <1>15, <1>16, <1>17, <1>18, <1>19, <1>20, <1>21, <1>22, <1>23,
     <1>24, <1>25, <1>26, <1>27, <1>28, <1>29, <1>30, <1>31, <1>32, <1>33, <1>34,
     <1>35 DEF RebindNext, ScriptNext, SessionNext
-----------------------------------------------------------------------------
(* Theorems.                                                               *)

RebindSafe == Typed /\ RebindInv

LEMMA RebindStarts == RebindInit => RebindSafe
<1> SUFFICES ASSUME RebindInit PROVE RebindSafe
  OBVIOUS
<1>1. TypedNode
  BY IpRebindAssumption DEF RebindInit, TypedNode
<1>2. TypedTx
  BY IpRebindAssumption DEF RebindInit, TypedTx, Transactions, Statuses
<1>3. TypedCommands
  BY DEF RebindInit, TypedCommands, Runnings
<1>4. TypedSession
  <2>1. ManagedDir(First) \in Directories
    BY IpRebindAssumption, ManagedTyped
  <2>2. sessions \in 0..MaxSessions
    BY IpRebindAssumption DEF RebindInit
  <2> QED
    BY <2>1, <2>2, IpRebindAssumption DEF RebindInit, TypedSession, SessionPcs, Words
<1>5. TypedProvider
  BY IpRebindAssumption DEF RebindInit, TypedProvider
<1>6. RebindInv
  BY DEF RebindInit, RebindInv, Holding, Started, CompleteIsWhole, PhaseKnown
<1> QED
  BY <1>1, <1>2, <1>3, <1>4, <1>5, <1>6 DEF RebindSafe, Typed

LEMMA RebindStep == RebindSafe /\ [RebindNext]_rebindVars => RebindSafe'
<1> SUFFICES ASSUME RebindSafe, [RebindNext]_rebindVars PROVE RebindSafe'
  OBVIOUS
<1>1. BTypeOK
  BY TypedIsBTypeOK DEF RebindSafe
<1>2. CASE RebindNext
  BY <1>1, <1>2, RebindTypes, HoldingStep DEF RebindSafe
<1>3. CASE UNCHANGED rebindVars
  <2>1. Typed'
    BY <1>3 DEF RebindSafe, Typed, TypedNode, TypedTx, TypedCommands, TypedSession,
       TypedProvider, rebindVars, node, commands, session, provider
  <2>2. running' \in {running, DisownedRunning}
    BY <1>3 DEF rebindVars, commands
  <2>3. UNCHANGED <<identity, public, rewritten, counted, tx>>
    BY <1>3 DEF rebindVars, node
  <2>4. RebindInv'
    BY <1>1, <2>2, <2>3, SameHolder DEF RebindSafe
  <2> QED
    BY <2>1, <2>4 DEF RebindSafe
<1> QED
  BY <1>2, <1>3

LEMMA RebindAlways == RebindSpec => []RebindSafe
  BY RebindStarts, RebindStep, PTL DEF RebindSpec

\* Every state is well typed, with any number of addresses and sessions.
THEOREM RebindTypeCorrect == RebindSpec => []BTypeOK
<1>1. RebindSafe => BTypeOK
  BY TypedIsBTypeOK DEF RebindSafe
<1> QED
  BY <1>1, RebindAlways, PTL

\* commit-direct writes COMPLETE (27-ip-rebind.sh:356) only over a node whose
\* identity, runtime record and managed files all carry the new address, and
\* nothing that dies, is sent again or runs after its caller has left changes
\* them while the word stands.
THEOREM CompleteRebindIsWhole == RebindSpec => []CompleteIsWhole
<1>1. RebindSafe => CompleteIsWhole
  BY DEF RebindSafe, RebindInv
<1> QED
  BY <1>1, RebindAlways, PTL

-----------------------------------------------------------------------------
(* Sessions that do not run into a command of an earlier one.              *)

\* The requests that wait or hold the lock.
Pending(r) == r \in waiting \/ (running # Nobody /\ running.req = r)

\* When a session starts, no command of an earlier one is left on the node.
NoneLate == sessionPc = "verify" => running = Nobody /\ waiting = {}

\* A session starts from a managed key, not from a stage directory that a
\* killed program left behind.
FromManaged == entry.kind = "managed"

Working == {"identity", "preflight", "park", "dns", "abort", "commit", "mark", "rename",
            "final", "archive"}
AfterCommit == {"mark", "rename", "final", "archive"}

\* All that is pending was asked for by the session that works, or by the last
\* that did, and moves the node to another address.
OneOwner == \A r1, r2 \in Requests : Pending(r1) /\ Pending(r2) =>
              r1.old = r2.old /\ r1.new = r2.new
OwnCommands ==
  sessionPc \in Working =>
    \A r \in Requests : Pending(r) => r.old = entry.addr /\ r.new = new
ToAnother ==
  /\ sessionPc # "idle" => entry.addr # new
  /\ \A r \in Requests : Pending(r) => r.old # r.new
\* The answer that a session waits for is that of its commit.
AsksForCommit ==
  sessionPc = "commit" => \A r \in Requests : Pending(r) /\ r.mine => r.op = "commit-direct"

\* Between its checks and its record, preflight has the identity it asked for.
SnapshotOfOld ==
  running # Nobody /\ running.req.op = "preflight" /\ running.step = "snapshot" =>
    identity = running.req.old

\* The rebind of the session is complete, and stays so.
CompleteRecorded == tx.status = "COMPLETE" /\ tx.old = entry.addr /\ tx.new = new
CompletePhase == tx.status = "COMPLETE" => tx.phase = "POST_DNS"
CommitRecorded ==
  sessionPc \in AfterCommit \/ (sessionPc = "commit" /\ answer = "ok") => CompleteRecorded

\* The directory of the new address is there once it was renamed, and no
\* pending command leads to another one after the last word.
DirKept == sessionPc \in {"final", "archive"} => ManagedDir(new) \in dirs
ToldComplete ==
  said = "COMPLETE" =>
    /\ sessionPc = "idle" /\ ManagedDir(identity) \in dirs
    /\ \A r \in Requests : Pending(r) => r.new = identity

\* The directories a session works with.
Listed ==
  /\ sessionPc \notin {"idle"} => entry \in dirs
  /\ sessionPc \notin {"idle", "final", "archive"} => ManagedDir(new) \notin dirs
\* A pending command is one of a rebind that is complete, or of one whose old
\* address is still a managed key and whose new one is not yet.
Done(r) == tx.status = "COMPLETE" /\ tx.new = r.new
PendingListed ==
  \A r \in Requests : Pending(r) =>
    Done(r) \/ (ManagedDir(r.old) \in dirs /\ ManagedDir(r.new) \notin dirs)

\* A record that can be aborted, and everything that is pending or asked for
\* next, starts from the identity of the node.
FromIdentity ==
  tx.phase = "PRE_DNS" =>
    /\ \A r \in Requests : Pending(r) => r.old = identity
    /\ sessionPc \in Working \ {"identity"} => entry.addr = identity

\* An address that is a managed key has its files for itself, unless the
\* records disagree.
KnownClean ==
  ManagedDir(identity) \in dirs /\ identity = public => rewritten \subseteq {identity}
CommitClean ==
  /\ tx.status = "COMPLETE" => rewritten \subseteq {identity}
  /\ Started => rewritten \subseteq {running.req.old, running.req.new}
SnapshotClean ==
  running # Nobody /\ running.req.op = "preflight" /\ running.step = "snapshot" =>
    rewritten \subseteq {identity}

CleanInv ==
  /\ Listed /\ PendingListed /\ FromIdentity /\ KnownClean /\ CommitClean /\ SnapshotClean
  /\ AbortableIsUntouched

-----------------------------------------------------------------------------
(* What a step does to the commands.                                       *)

\* Every command that is pending after the step has the addresses, and the
\* purpose, of one that was, and no session waits for it that did not.
NothingNew ==
  \A r \in Requests : Pending(r)' =>
    \E q \in Requests : Pending(q) /\ q.old = r.old /\ q.new = r.new /\ q.op = r.op
                          /\ (r.mine => q.mine)
\* Or is the one that the session sends.
OnlyOwnNew(op) ==
  \A r \in Requests : Pending(r)' =>
    \/ r.old = entry.addr /\ r.new = new /\ r.op = op
    \/ \E q \in Requests : Pending(q) /\ q.old = r.old /\ q.new = r.new /\ q.op = r.op
                             /\ ~r.mine

LEMMA CommandStepped == ASSUME running \in Runnings, running # Nobody, NEW step \in Steps,
                        StepsTo(step)
                 PROVE  running' # Nobody /\ running'.step = step /\ running'.req = running.req
  BY DEF Runnings, StepsTo, Nobody, Steps

LEMMA HolderPending == ASSUME running \in Runnings, running # Nobody
                       PROVE  running.req \in Requests /\ Pending(running.req)
  BY CommandTyped DEF Pending

LEMMA FewerCommands ==
  ASSUME waiting' \subseteq waiting,
         \/ running' = Nobody
         \/ running # Nobody /\ running'.req = running.req
         \/ running'.req \in waiting
  PROVE  NothingNew
  BY DEF NothingNew, Pending

LEMMA DisownedOne ==
  ASSUME running \in Runnings, running # Nobody
  PROVE  /\ DisownedRunning # Nobody /\ DisownedRunning.step = running.step
         /\ DisownedRunning.req.op = running.req.op
         /\ DisownedRunning.req.old = running.req.old
         /\ DisownedRunning.req.new = running.req.new
         /\ DisownedRunning.req.mine = FALSE
  BY DEF Runnings, Requests, DisownedRunning, Nobody, Steps

LEMMA DisownedMany ==
  ASSUME waiting \subseteq Requests, NEW r \in Disown(waiting)
  PROVE  \E q \in waiting : q.old = r.old /\ q.new = r.new /\ q.op = r.op /\ ~r.mine
<1>1. PICK q \in waiting : r = [q EXCEPT !.mine = FALSE]
  BY DEF Disown
<1>2. q.old = r.old /\ q.new = r.new /\ q.op = r.op /\ ~r.mine
  BY <1>1 DEF Requests
<1> QED
  BY <1>2

LEMMA EndsCommands == ASSUME Typed, running' = DisownedRunning, waiting' = Disown(waiting)
                      PROVE  NothingNew
<1> SUFFICES ASSUME NEW r \in Requests, Pending(r)'
             PROVE  \E q \in Requests : Pending(q) /\ q.old = r.old /\ q.new = r.new
                                          /\ q.op = r.op /\ (r.mine => q.mine)
  BY DEF NothingNew
<1>1. CASE r \in waiting'
  BY <1>1, DisownedMany DEF Typed, TypedCommands, Pending
<1>2. CASE running' # Nobody /\ running'.req = r
  <2>1. running # Nobody /\ running \in Runnings
    BY <1>2 DEF DisownedRunning, Typed, TypedCommands
  <2> QED
    BY <1>2, <2>1, DisownedOne, HolderPending
<1> QED
  BY <1>1, <1>2 DEF Pending

LEMMA SendsCommands ==
  ASSUME Typed, NEW op \in Ops, running' = DisownedRunning,
         waiting' = Disown(waiting)
                      \cup {[op |-> op, old |-> entry.addr, new |-> new, mine |-> TRUE]}
  PROVE  OnlyOwnNew(op)
<1> SUFFICES ASSUME NEW r \in Requests, Pending(r)',
                    ~(r.old = entry.addr /\ r.new = new /\ r.op = op)
             PROVE  \E q \in Requests : Pending(q) /\ q.old = r.old /\ q.new = r.new
                                          /\ q.op = r.op /\ ~r.mine
  BY DEF OnlyOwnNew
<1>1. CASE r \in waiting'
  <2>1. r \in Disown(waiting)
    BY <1>1
  <2> QED
    BY <2>1, DisownedMany DEF Typed, TypedCommands, Pending
<1>2. CASE running' # Nobody /\ running'.req = r
  <2>1. running # Nobody /\ running \in Runnings
    BY <1>2 DEF DisownedRunning, Typed, TypedCommands
  <2> QED
    BY <1>2, <2>1, DisownedOne, HolderPending
<1> QED
  BY <1>1, <1>2 DEF Pending

CommandInv == OneOwner /\ OwnCommands /\ ToAnother /\ AsksForCommit
RecordInv == SnapshotOfOld /\ CompletePhase /\ CommitRecorded /\ DirKept /\ ToldComplete

LEMMA CommandsKept ==
  ASSUME CommandInv, NothingNew, UNCHANGED <<sessionPc, entry, new>>
  PROVE  CommandInv'
<1>1. OneOwner' /\ ToAnother'
  BY DEF CommandInv, OneOwner, ToAnother, NothingNew
<1>2. OwnCommands' /\ AsksForCommit'
  BY DEF CommandInv, OwnCommands, AsksForCommit, NothingNew
<1> QED
  BY <1>1, <1>2 DEF CommandInv

\* The session goes on to a step in which it waits for nothing.
LEMMA CommandsAside ==
  ASSUME CommandInv, NothingNew, UNCHANGED <<entry, new>>, sessionPc \in Working,
         sessionPc' \in Working \ {"commit"}
  PROVE  CommandInv'
<1>1. OneOwner' /\ ToAnother'
  BY DEF CommandInv, OneOwner, ToAnother, NothingNew, Working
<1>2. OwnCommands' /\ AsksForCommit'
  BY DEF CommandInv, OwnCommands, AsksForCommit, NothingNew
<1> QED
  BY <1>1, <1>2 DEF CommandInv

LEMMA CommandsEnded == ASSUME CommandInv, NothingNew, sessionPc' = "idle" PROVE CommandInv'
  BY DEF CommandInv, OneOwner, OwnCommands, ToAnother, AsksForCommit, NothingNew, Working

LEMMA CommandsSent ==
  ASSUME CommandInv, NEW op \in Ops, OnlyOwnNew(op), UNCHANGED <<entry, new>>,
         sessionPc \in Working, sessionPc' \in Working,
         sessionPc' = "commit" => op = "commit-direct"
  PROVE  CommandInv'
<1>1. entry.addr # new
  BY DEF CommandInv, ToAnother, Working
<1>2. \A r \in Requests : Pending(r)' => r.old = entry.addr /\ r.new = new
  BY DEF CommandInv, OwnCommands, OnlyOwnNew
<1>3. OneOwner' /\ ToAnother' /\ OwnCommands'
  BY <1>1, <1>2 DEF OneOwner, ToAnother, OwnCommands
<1>4. AsksForCommit'
  BY DEF AsksForCommit, OnlyOwnNew
<1> QED
  BY <1>3, <1>4 DEF CommandInv

\* The holder of the lock runs a command of the session that works.
LEMMA HolderIsOwn ==
  ASSUME Typed, CommandInv, running # Nobody
  PROVE  /\ running.req \in Requests /\ Pending(running.req)
         /\ running.req.old # running.req.new
         /\ sessionPc \in Working => running.req.old = entry.addr /\ running.req.new = new
         /\ sessionPc = "commit" /\ running.req.mine => running.req.op = "commit-direct"
<1>1. running.req \in Requests /\ Pending(running.req)
  BY HolderPending DEF Typed, TypedCommands
<1> QED
  BY <1>1 DEF CommandInv, OwnCommands, ToAnother, AsksForCommit

\* The word of the last session still holds.
LEMMA WordKept ==
  ASSUME ToldComplete, NothingNew, UNCHANGED <<sessionPc, said, dirs, identity>>
  PROVE  ToldComplete'
  BY DEF ToldComplete, NothingNew

LEMMA OwnScript == Typed /\ RebindInv /\ CommandInv /\ RecordInv /\ ScriptNext
                     => CommandInv' /\ RecordInv'
<1> SUFFICES ASSUME Typed, RebindInv, CommandInv, RecordInv, ScriptNext
             PROVE  CommandInv' /\ RecordInv'
  OBVIOUS
<1> DEFINE Frame == UNCHANGED <<sessionPc, entry, new, said, dirs>>
<1>a. ASSUME Frame, NothingNew PROVE CommandInv' /\ (identity' = identity => ToldComplete')
  BY <1>a, CommandsKept, WordKept DEF RecordInv
<1>b. ASSUME running # Nobody, running \in Runnings, NEW step \in Steps, StepsTo(step),
             waiting' = waiting
      PROVE  /\ NothingNew /\ running' # Nobody /\ running'.step = step
             /\ running'.req = running.req
  BY <1>b, CommandStepped, FewerCommands
<1>c. ASSUME running' = Nobody, waiting' = waiting PROVE NothingNew
  BY <1>c, FewerCommands
<1>d. running \in Runnings /\ Nobody.step = "none"
  BY DEF Typed, TypedCommands, Nobody
<1>1. ASSUME NEW r \in waiting, GetsLock(r) PROVE CommandInv' /\ RecordInv'
  <2>1. NothingNew
    BY <1>1, FewerCommands DEF GetsLock
  <2>2. Frame /\ UNCHANGED <<tx, identity, answer>>
    BY <1>1 DEF GetsLock, session, node
  <2>3. running'.step = "start"
    BY <1>1 DEF GetsLock
  <2> QED
    BY <1>a, <2>1, <2>2, <2>3 DEF RecordInv, SnapshotOfOld, CompletePhase, CommitRecorded,
       CompleteRecorded, DirKept
<1>2. ASSUME PreflightChecks PROVE CommandInv' /\ RecordInv'
  <2>1. /\ NothingNew /\ running' # Nobody /\ running'.step = "snapshot"
        /\ running'.req = running.req
    BY <1>2, <1>b, <1>d DEF PreflightChecks, Runs, Steps
  <2>2. Frame /\ UNCHANGED <<tx, identity, answer>>
    BY <1>2 DEF PreflightChecks, StepsTo, session, node
  <2>3. identity = running.req.old
    BY <1>2 DEF PreflightChecks, PreflightMatches, OldIP
  <2> QED
    BY <1>a, <2>1, <2>2, <2>3 DEF RecordInv, SnapshotOfOld, CompletePhase, CommitRecorded,
       CompleteRecorded, DirKept
<1>3. ASSUME PreflightWrites PROVE CommandInv' /\ RecordInv'
  <2>1. NothingNew /\ running' = Nobody
    BY <1>3, <1>c DEF PreflightWrites, Answers
  <2>2. Frame /\ UNCHANGED identity /\ tx'.status = "PREPARED"
    BY <1>3 DEF PreflightWrites, WriteState, session, node
  <2>3. running # Nobody /\ identity = running.req.old
    BY <1>3 DEF PreflightWrites, Runs, RecordInv, SnapshotOfOld
  <2>4. ~CompleteRecorded \/ sessionPc \notin Working
    BY <2>3, HolderIsOwn DEF CompleteRecorded, RebindInv, CompleteIsWhole
  <2>5. CommitRecorded'
    <3>1. sessionPc \notin AfterCommit
      BY <2>4 DEF RecordInv, CommitRecorded, AfterCommit, Working
    <3>2. ~(sessionPc = "commit" /\ answer' = "ok")
      <4>1. running.req.op = "preflight"
        BY <1>3 DEF PreflightWrites, Runs
      <4>2. CASE running.req.mine
        BY <2>3, <4>1, <4>2, HolderIsOwn
      <4>3. CASE ~running.req.mine
        BY <1>3, <2>4, <4>3 DEF PreflightWrites, Answers, RecordInv, CommitRecorded, Working
      <4> QED
        BY <4>2, <4>3
    <3> QED
      BY <2>2, <3>1, <3>2 DEF CommitRecorded
  <2> QED
    BY <1>a, <2>1, <2>2, <2>5 DEF RecordInv, SnapshotOfOld, CompletePhase, DirKept
<1>4. ASSUME CommitStarts PROVE CommandInv' /\ RecordInv'
  <2>1. /\ NothingNew /\ running' # Nobody /\ running'.step = "public"
    BY <1>4, <1>b, <1>d DEF CommitStarts, Runs, Steps
  <2>2. Frame /\ UNCHANGED <<identity, answer>> /\ tx'.status = "COMMITTING"
    BY <1>4 DEF CommitStarts, WriteState, StepsTo, session, node
  <2>3. ~CompleteRecorded
    BY <1>4 DEF CommitStarts, CommitMayStart, CompleteRecorded
  <2> QED
    BY <1>a, <2>1, <2>2, <2>3 DEF RecordInv, SnapshotOfOld, CompletePhase, CommitRecorded,
       DirKept
<1>5. ASSUME CommitPublic \/ CommitShares \/ CommitHandoff \/ CommitCounts
      PROVE  CommandInv' /\ RecordInv'
  <2>1. NothingNew /\ running'.step # "snapshot"
    BY <1>5, <1>b, <1>d DEF CommitPublic, CommitShares, CommitHandoff, CommitCounts, Runs,
       Steps
  <2>2. Frame /\ UNCHANGED <<identity, answer, tx>>
    BY <1>5 DEF CommitPublic, CommitShares, CommitHandoff, CommitCounts, StepsTo, session,
       node
  <2> QED
    BY <1>a, <2>1, <2>2 DEF RecordInv, SnapshotOfOld, CompletePhase, CommitRecorded,
       CompleteRecorded, DirKept
<1>6. ASSUME CommitIdentity PROVE CommandInv' /\ RecordInv'
  <2>1. /\ NothingNew /\ running'.step = "shares"
    BY <1>6, <1>b, <1>d DEF CommitIdentity, Runs, Steps
  <2>2. Frame /\ UNCHANGED <<answer, tx>> /\ identity' = running.req.new /\ running # Nobody
    BY <1>6 DEF CommitIdentity, StepsTo, Runs, NewIP, session
  <2>3. said = "COMPLETE" => identity' = identity
    BY <2>2, HolderIsOwn DEF RecordInv, ToldComplete
  <2>4. ToldComplete'
    BY <1>a, <2>1, <2>2, <2>3 DEF ToldComplete
  <2> QED
    BY <1>a, <2>1, <2>2, <2>4 DEF RecordInv, SnapshotOfOld, CompletePhase, CommitRecorded,
       CompleteRecorded, DirKept
<1>7. ASSUME CommitFiles \/ Stops PROVE CommandInv' /\ RecordInv'
  <2>1. NothingNew /\ (running' = Nobody \/ running'.step = "handoff")
    <3>1. CASE running' = Nobody
      BY <1>7, <1>c, <3>1 DEF CommitFiles, Stops
    <3>2. CASE Runs("commit-direct", "files") /\ StepsTo("handoff") /\ waiting' = waiting
      BY <1>b, <1>d, <3>2 DEF Runs, Steps
    <3> QED
      BY <1>7, <3>1, <3>2 DEF CommitFiles, Stops, Answers
  <2>2. /\ Frame /\ UNCHANGED <<identity, tx>>
        /\ answer' = "ok" => answer = "ok"
    BY <1>7 DEF CommitFiles, Stops, StepsTo, Answers, session, node
  <2> QED
    BY <1>a, <1>d, <2>1, <2>2 DEF RecordInv, SnapshotOfOld, CompletePhase, CommitRecorded,
       CompleteRecorded,
       DirKept
<1>8. ASSUME CommitCompletes PROVE CommandInv' /\ RecordInv'
  <2>1. NothingNew /\ running' = Nobody
    BY <1>8, <1>c DEF CommitCompletes, Answers
  <2>2. /\ Frame /\ UNCHANGED identity /\ tx'.status = "COMPLETE" /\ tx'.phase = "POST_DNS"
        /\ tx'.old = running.req.old /\ tx'.new = running.req.new /\ running # Nobody
    BY <1>8 DEF CommitCompletes, WriteState, OldIP, NewIP, Runs, session, node
  <2>3. sessionPc \in AfterCommit \/ sessionPc = "commit" => CompleteRecorded'
    BY <2>2, HolderIsOwn DEF CompleteRecorded, AfterCommit, Working
  <2> QED
    BY <1>a, <2>1, <2>2, <2>3 DEF RecordInv, SnapshotOfOld, CompletePhase, CommitRecorded,
       DirKept
<1>9. ASSUME CommitBlocks PROVE CommandInv' /\ RecordInv'
  <2>1. NothingNew /\ running' = Nobody
    BY <1>9, <1>c DEF CommitBlocks, Answers
  <2>2. /\ Frame /\ UNCHANGED identity /\ tx'.status = "BLOCKED_POST_DNS"
        /\ answer' = "ok" => answer = "ok"
    BY <1>9 DEF CommitBlocks, WriteState, Answers, session, node
  <2>3. ~CompleteRecorded
    BY <1>9 DEF CommitBlocks, RebindInv, Holding, Started, CompleteRecorded
  <2> QED
    BY <1>a, <2>1, <2>2, <2>3 DEF RecordInv, SnapshotOfOld, CompletePhase, CommitRecorded,
       DirKept
<1>10. ASSUME WaitCloudflare \/ AbortPreDns PROVE CommandInv' /\ RecordInv'
  <2>1. NothingNew /\ running' = Nobody /\ running # Nobody /\ running.req.op # "commit-direct"
    BY <1>10, <1>c DEF WaitCloudflare, AbortPreDns, Answers, Runs
  <2>2. Frame /\ UNCHANGED identity /\ tx'.status # "COMPLETE"
    <3>1. CASE WaitCloudflare
      BY <3>1 DEF WaitCloudflare, WriteState, session, node
    <3>2. CASE AbortPreDns /\ tx.status = "IDLE"
      BY <3>2 DEF AbortPreDns, session, node
    <3>3. CASE AbortPreDns /\ tx.status # "IDLE"
      BY <3>3 DEF AbortPreDns, Typed, TypedTx, Transactions, session, node
    <3> QED
      BY <1>10, <3>1, <3>2, <3>3
  <2>3. ~CompleteRecorded
    BY <1>10 DEF WaitCloudflare, AbortPreDns, RecordInv, CompletePhase, CompleteRecorded
  <2>4. ~(sessionPc = "commit" /\ answer' = "ok")
    <3>1. CASE running.req.mine
      BY <2>1, <3>1, HolderIsOwn
    <3>2. CASE ~running.req.mine
      BY <1>10, <2>3, <3>2 DEF WaitCloudflare, AbortPreDns, Answers, RecordInv,
         CommitRecorded
    <3> QED
      BY <3>1, <3>2
  <2> QED
    BY <1>a, <2>1, <2>2, <2>3, <2>4 DEF RecordInv, SnapshotOfOld, CompletePhase,
       CommitRecorded, DirKept
<1> QED
  BY <1>1, <1>2, <1>3, <1>4, <1>5, <1>6, <1>7, <1>8, <1>9, <1>10 DEF ScriptNext

\* A session leaves the records and the command that runs as they are.
LEMMA RecordsKept ==
  ASSUME Typed, RecordInv, running' \in {running, DisownedRunning}, UNCHANGED <<tx, identity>>
  PROVE  SnapshotOfOld' /\ CompletePhase'
<1>1. CASE running' = running
  BY <1>1 DEF RecordInv, SnapshotOfOld, CompletePhase
<1>2. CASE running' = DisownedRunning /\ running # Nobody
  BY <1>2, DisownedOne DEF RecordInv, SnapshotOfOld, CompletePhase, Typed, TypedCommands
<1> QED
  BY <1>1, <1>2 DEF DisownedRunning

LEMMA SessionEnded ==
  ASSUME Typed, CommandInv, RecordInv, NEW word \in Words \ {"COMPLETE"}, Ends(word),
         UNCHANGED <<tx, identity>>
  PROVE  CommandInv' /\ RecordInv'
<1>1. NothingNew
  BY EndsCommands DEF Ends
<1>2. SnapshotOfOld' /\ CompletePhase'
  BY RecordsKept DEF Ends
<1>3. CommitRecorded' /\ DirKept' /\ ToldComplete'
  BY DEF Ends, CommitRecorded, DirKept, ToldComplete, AfterCommit
<1> QED
  BY <1>1, <1>2, <1>3, CommandsEnded DEF Ends, RecordInv

\* A command is sent, or sent again.
LEMMA SessionSent ==
  ASSUME Typed, CommandInv, RecordInv, NEW op \in Ops, OnlyOwnNew(op),
         running' = DisownedRunning, answer' = "none",
         UNCHANGED <<tx, identity, entry, new, said, dirs>>,
         sessionPc \in Working, sessionPc' \in Working \ AfterCommit,
         sessionPc' = "commit" => op = "commit-direct"
  PROVE  CommandInv' /\ RecordInv'
<1>1. SnapshotOfOld' /\ CompletePhase'
  BY RecordsKept
<1>2. CommitRecorded' /\ DirKept'
  BY DEF CommitRecorded, DirKept, AfterCommit
<1>3. ToldComplete'
  BY DEF RecordInv, ToldComplete, Working
<1>4. CommandInv'
  BY CommandsSent
<1> QED
  BY <1>1, <1>2, <1>3, <1>4 DEF RecordInv

LEMMA SameCommands == ASSUME UNCHANGED <<running, waiting>> PROVE NothingNew
  BY DEF NothingNew, Pending

\* The session goes on by itself.
LEMMA SessionWent ==
  ASSUME Typed, CommandInv, RecordInv, UNCHANGED <<commands, tx, identity, entry, new, said>>,
         sessionPc \in Working, sessionPc' \in Working \ {"commit"}, CommitRecorded', DirKept'
  PROVE  CommandInv' /\ RecordInv'
<1>1. SnapshotOfOld' /\ CompletePhase'
  BY RecordsKept DEF commands
<1>2. ToldComplete'
  BY DEF RecordInv, ToldComplete, Working
<1> QED
  BY <1>1, <1>2, SameCommands, CommandsAside DEF RecordInv, commands

LEMMA OwnSession == Typed /\ RebindInv /\ NoneLate /\ CommandInv /\ RecordInv /\ SessionNext
                      => CommandInv' /\ RecordInv'
<1> SUFFICES ASSUME Typed, RebindInv, NoneLate, CommandInv, RecordInv, SessionNext
             PROVE  CommandInv' /\ RecordInv'
  OBVIOUS
<1>0. sessionPc \in AfterCommit => identity = new /\ entry.addr # new
  BY DEF RecordInv, CommitRecorded, CompleteRecorded, RebindInv, CompleteIsWhole, CommandInv,
     ToAnother,
     AfterCommit
<1>1. ASSUME NEW e \in dirs, NEW b \in Addresses, Begin(e, b)
      PROVE  CommandInv' /\ RecordInv'
  <2>1. /\ NothingNew /\ sessionPc' = "verify" /\ entry'.addr # new' /\ said' = "nothing"
        /\ UNCHANGED <<running, tx, identity>>
    BY <1>1, SameCommands DEF Begin, commands, node
  <2>2. CommandInv'
    BY <2>1 DEF CommandInv, OneOwner, OwnCommands, ToAnother, AsksForCommit, NothingNew,
       Working
  <2> QED
    BY <2>1, <2>2, RecordsKept DEF RecordInv, CommitRecorded, AfterCommit, DirKept,
       ToldComplete
<1>2. ASSUME VerifyKey \/ InstallByPassword PROVE CommandInv' /\ RecordInv'
  <2>1. CASE Ends("error")
    BY <1>2, <2>1, SessionEnded DEF VerifyKey, InstallByPassword, Words, node
  <2>2. CASE sessionPc' = "identity" /\ UNCHANGED <<commands, entry, new, said>>
    <3>1. sessionPc = "verify" /\ UNCHANGED <<tx, identity>>
      BY <1>2 DEF VerifyKey, InstallByPassword, node
    <3>2. \A r \in Requests : ~Pending(r)'
      BY <2>2, <3>1 DEF NoneLate, Pending, commands
    <3>3. CommandInv'
      BY <2>2, <3>1, <3>2 DEF CommandInv, OneOwner, OwnCommands, ToAnother, AsksForCommit
    <3>4. ToldComplete'
      BY <2>2, <3>1 DEF RecordInv, ToldComplete
    <3> QED
      BY <2>2, <3>1, <3>3, <3>4, RecordsKept DEF RecordInv, CommitRecorded, AfterCommit,
         DirKept,
         commands
  <2> QED
    BY <1>2, <2>1, <2>2 DEF VerifyKey, InstallByPassword, commands
<1>3. ASSUME FetchIdentity PROVE CommandInv' /\ RecordInv'
  <2>1. CASE Ends("BLOCKED_PRE_DNS")
    BY <1>3, <2>1, SessionEnded DEF FetchIdentity, Words, node
  <2>2. CASE Sends("preflight", "preflight") /\ UNCHANGED <<entry, new, said>>
    <3>1. OnlyOwnNew("preflight")
      BY <2>2, SendsCommands DEF Sends, Ops
    <3> QED
      BY <1>3, <2>2, <3>1, SessionSent DEF FetchIdentity, Sends, Ops, Working,
         AfterCommit, node
  <2> QED
    BY <1>3, <2>1, <2>2 DEF FetchIdentity
<1>4. ASSUME Prepared PROVE CommandInv' /\ RecordInv'
  <2>1. CASE Sends("wait-cloudflare", "park")
    <3>1. OnlyOwnNew("wait-cloudflare")
      BY <2>1, SendsCommands DEF Sends, Ops
    <3> QED
      BY <1>4, <2>1, <3>1, SessionSent DEF Prepared, Sends, Ops, Working, AfterCommit, node
  <2>2. CASE sessionPc' = "dns" /\ UNCHANGED commands
    <3>1. CommitRecorded' /\ DirKept'
      BY <2>2 DEF CommitRecorded, DirKept, AfterCommit
    <3> QED
      BY <1>4, <2>2, <3>1, SessionWent DEF Prepared, Working, node
  <2> QED
    BY <1>4, <2>1, <2>2 DEF Prepared
<1>5. ASSUME NotPrepared \/ Parked \/ Aborted \/ LocalStepFails
      PROVE  CommandInv' /\ RecordInv'
  <2>1. \E word \in Words \ {"COMPLETE"} : Ends(word)
    BY <1>5 DEF NotPrepared, Parked, Aborted, LocalStepFails, Words
  <2> QED
    BY <1>5, <2>1, SessionEnded DEF NotPrepared, Parked, Aborted, LocalStepFails, node
<1>6. ASSUME DnsConverged PROVE CommandInv' /\ RecordInv'
  <2>1. OnlyOwnNew("commit-direct")
    BY <1>6, SendsCommands DEF DnsConverged, Sends, Ops
  <2> QED
    BY <1>6, <2>1, SessionSent DEF DnsConverged, Sends, Ops, Working, AfterCommit, node
<1>7. ASSUME Quits PROVE CommandInv' /\ RecordInv'
  <2>1. OnlyOwnNew("abort-pre-dns")
    BY <1>7, SendsCommands DEF Quits, Sends, Ops
  <2> QED
    BY <1>7, <2>1, SessionSent DEF Quits, Sends, Ops, Working, AfterCommit, node
<1>8. ASSUME CommitAnswered PROVE CommandInv' /\ RecordInv'
  <2>1. CASE Ends("BLOCKED_POST_DNS")
    BY <1>8, <2>1, SessionEnded DEF CommitAnswered, Words, node
  <2>2. CASE CommitEvidence /\ sessionPc' = "mark" /\ UNCHANGED <<commands, entry, new, said>>
    <3>1. CompleteRecorded
      BY <1>8, <2>2 DEF CommitAnswered, CommitEvidence, RecordInv, CommitRecorded
    <3>2. CommitRecorded' /\ DirKept'
      BY <1>8, <2>2, <3>1 DEF CommitAnswered, CommitRecorded, CompleteRecorded, DirKept, node
    <3> QED
      BY <1>8, <2>2, <3>2, SessionWent DEF CommitAnswered, Working, node
  <2> QED
    BY <1>8, <2>1, <2>2 DEF CommitAnswered
<1>9. ASSUME MarksStage \/ RenamesStage PROVE CommandInv' /\ RecordInv'
  <2>1. /\ sessionPc \in AfterCommit /\ sessionPc' \in {"rename", "final"}
        /\ sessionPc' = "final" => ManagedDir(new) \in dirs'
        /\ UNCHANGED <<commands, tx, identity, entry, new, said>>
    BY <1>9 DEF MarksStage, RenamesStage, Renamed, AfterCommit, node
  <2>2. CommitRecorded' /\ DirKept'
    BY <2>1 DEF RecordInv, CommitRecorded, CompleteRecorded, DirKept, ManagedDir
  <2> QED
    BY <2>1, <2>2, SessionWent DEF AfterCommit, Working
<1>10. ASSUME FinalVerification PROVE CommandInv' /\ RecordInv'
  <2>1. CASE Ends("BLOCKED_POST_DNS")
    BY <1>10, <2>1, SessionEnded DEF FinalVerification, Words, node
  <2>2. CASE sessionPc' = "archive" /\ UNCHANGED <<commands, entry, new, said>>
    <3>1. CommitRecorded' /\ DirKept'
      BY <1>10, <2>2 DEF FinalVerification, RecordInv, CommitRecorded, CompleteRecorded, DirKept,
         AfterCommit, ManagedDir, node
    <3> QED
      BY <1>10, <2>2, <3>1, SessionWent DEF FinalVerification, Working, node
  <2> QED
    BY <1>10, <2>1, <2>2 DEF FinalVerification
<1>11. ASSUME ArchivesOld PROVE CommandInv' /\ RecordInv'
  <2>1. /\ NothingNew /\ sessionPc' = "idle" /\ said' = "COMPLETE"
        /\ running' = DisownedRunning /\ UNCHANGED <<tx, identity>>
    BY <1>11, EndsCommands DEF ArchivesOld, Ends, node
  <2>2. ManagedDir(identity) \in dirs'
    <3>1. sessionPc = "archive" /\ dirs' \in {dirs, dirs \ {entry}}
      BY <1>11 DEF ArchivesOld
    <3>2. ManagedDir(new) \in dirs /\ identity = new /\ entry.addr # new
      BY <1>0, <3>1 DEF RecordInv, DirKept, AfterCommit
    <3>3. ManagedDir(new) # entry
      BY <3>2 DEF ManagedDir
    <3> QED
      BY <3>1, <3>2, <3>3
  <2>3. \A r \in Requests : Pending(r) => r.new = identity
    BY <1>0, <1>11 DEF ArchivesOld, CommandInv, OwnCommands, Working, AfterCommit
  <2>4. ToldComplete'
    <3>1. \A r \in Requests : Pending(r)' => r.new = identity
      BY <2>1, <2>3 DEF NothingNew
    <3> QED
      BY <2>1, <2>2, <3>1 DEF ToldComplete, ManagedDir
  <2> QED
    BY <2>1, <2>4, CommandsEnded, RecordsKept DEF RecordInv, CommitRecorded, AfterCommit,
       DirKept
<1>12. ASSUME ConnectionBreaks PROVE CommandInv' /\ RecordInv'
  <2>1. /\ sessionPc \in Working \ AfterCommit /\ sessionPc # "identity" /\ sessionPc # "dns"
        /\ UNCHANGED <<tx, identity, sessionPc, entry, new, said, dirs>>
        /\ running' = DisownedRunning
    BY <1>12 DEF ConnectionBreaks, Working, AfterCommit, node
  <2>2. ASSUME NEW op \in Ops, sessionPc = "commit" => op = "commit-direct",
               waiting' = Disown(waiting)
                  \cup {[op |-> op, old |-> entry.addr, new |-> new, mine |-> TRUE]},
               answer' = "none"
        PROVE  CommandInv' /\ RecordInv'
    <3>1. OnlyOwnNew(op)
      BY <2>1, <2>2, SendsCommands
    <3> QED
      BY <2>1, <2>2, <3>1, SessionSent
  <2>3. CASE answer' = "failed" /\ waiting' = Disown(waiting)
    <3>1. NothingNew
      BY <2>1, <2>3, EndsCommands
    <3>2. CommitRecorded' /\ DirKept' /\ ToldComplete'
      BY <2>1, <2>3 DEF CommitRecorded, DirKept, RecordInv, ToldComplete, Working,
         AfterCommit
    <3> QED
      BY <2>1, <3>1, <3>2, CommandsKept, RecordsKept DEF RecordInv
  <2> QED
    BY <1>12, <2>2, <2>3 DEF ConnectionBreaks
<1>13. ASSUME Killed PROVE CommandInv' /\ RecordInv'
  BY <1>13, SessionEnded DEF Killed, Words, node
<1> QED
  BY <1>1, <1>2, <1>3, <1>4, <1>5, <1>6, <1>7, <1>8, <1>9, <1>10, <1>11, <1>12, <1>13
     DEF SessionNext

OwnInv == CommandInv /\ RecordInv
Before == Typed /\ RebindInv /\ OwnInv /\ CleanInv

\* A rebind of the holder's that is complete has moved the identity.
LEMMA DoneMoved == ASSUME RebindInv, NEW r, Done(r) PROVE identity = r.new
  BY DEF RebindInv, CompleteIsWhole, Done

\* While a commit writes, its new address is no managed key yet.
LEMMA WritingUnlisted ==
  ASSUME Before, Started
  PROVE  /\ running.req \in Requests /\ tx.status = "COMMITTING" /\ tx.phase = "POST_DNS"
         /\ ManagedDir(running.req.new) \notin dirs
         /\ \A r \in Requests : Pending(r) => ~Done(r)
<1>1. running.req \in Requests /\ Pending(running.req)
  BY HolderIsOwn DEF Before, OwnInv, Started
<1>2. tx.status = "COMMITTING" /\ tx.phase = "POST_DNS"
  BY DEF Before, RebindInv, Holding
<1> QED
  BY <1>1, <1>2 DEF Before, CleanInv, PendingListed, Done

\* Steps that touch neither records nor directories.
LEMMA CleanKept ==
  ASSUME CleanInv, NothingNew,
         UNCHANGED <<sessionPc, entry, new, dirs, tx, identity, public, rewritten>>,
         Started' => Started /\ running'.req.old = running.req.old
                             /\ running'.req.new = running.req.new,
         SnapshotClean'
  PROVE  CleanInv'
<1>1. PendingListed' /\ FromIdentity'
  BY DEF CleanInv, PendingListed, FromIdentity, NothingNew, Done, ManagedDir
<1>2. Listed' /\ KnownClean' /\ AbortableIsUntouched'
  BY DEF CleanInv, Listed, KnownClean, AbortableIsUntouched, ManagedDir
<1>3. CommitClean'
  BY DEF CleanInv, CommitClean
<1> QED
  BY <1>1, <1>2, <1>3 DEF CleanInv

LEMMA CleanScript == Before /\ ScriptNext => CleanInv'
<1> SUFFICES ASSUME Before, ScriptNext PROVE CleanInv'
  OBVIOUS
<1>a. running \in Runnings /\ Nobody.step = "none"
  BY DEF Before, Typed, TypedCommands, Nobody
<1>b. ASSUME running # Nobody, NEW step \in Steps, StepsTo(step), waiting' = waiting
      PROVE  NothingNew /\ running' # Nobody /\ running'.step = step /\ running'.req = running.req
  BY <1>a, <1>b, CommandStepped, FewerCommands
<1>c. ASSUME running' = Nobody, waiting' = waiting PROVE NothingNew
  BY <1>c, FewerCommands
<1>d. ASSUME running' = Nobody PROVE ~Started' /\ SnapshotClean'
  BY <1>d DEF Started, SnapshotClean
<1>e. ASSUME UNCHANGED session
      PROVE  UNCHANGED <<sessionPc, entry, new, dirs>> /\ Listed'
  BY <1>e DEF session, Before, CleanInv, Listed, ManagedDir
<1>f. ASSUME running # Nobody
      PROVE  /\ running.req \in Requests /\ Pending(running.req)
             /\ running.req.old # running.req.new
             /\ sessionPc \in Working => running.req.old = entry.addr /\ running.req.new = new
             /\ \A r \in Requests : Pending(r) =>
                  r.old = running.req.old /\ r.new = running.req.new
  BY <1>f, HolderIsOwn DEF Before, OwnInv, CommandInv, OneOwner
<1>1. ASSUME NEW r \in waiting, GetsLock(r) PROVE CleanInv'
  <2>1. NothingNew /\ running'.step = "start"
    BY <1>1, FewerCommands DEF GetsLock
  <2> QED
    BY <1>1, <1>e, <2>1, CleanKept DEF GetsLock, node, Before, Started, SnapshotClean
<1>2. ASSUME PreflightChecks PROVE CleanInv'
  <2>1. /\ NothingNew /\ running' # Nobody /\ running'.step = "snapshot"
        /\ running'.req = running.req /\ running # Nobody /\ running.req.op = "preflight"
        /\ identity = running.req.old /\ identity = public
        /\ UNCHANGED <<session, tx, identity, public, rewritten, dirs>>
    BY <1>2, <1>b DEF PreflightChecks, Runs, Steps, PreflightMatches, OldIP, node, session
  <2>2. ManagedDir(identity) \in dirs
    BY <1>f, <2>1, DoneMoved DEF Before, CleanInv, PendingListed
  <2>3. SnapshotClean'
    BY <2>1, <2>2 DEF Before, CleanInv, KnownClean, SnapshotClean
  <2>4. ~Started'
    BY <2>1 DEF Started
  <2> QED
    BY <1>e, <2>1, <2>3, <2>4, CleanKept DEF Before
<1>3. ASSUME PreflightWrites PROVE CleanInv'
  <2>1. /\ NothingNew /\ running' = Nobody /\ running # Nobody /\ running.req.op = "preflight"
        /\ running.step = "snapshot" /\ UNCHANGED <<session, identity, public, rewritten>>
        /\ tx'.status = "PREPARED" /\ tx'.phase = "PRE_DNS" /\ tx'.old = running.req.old
    BY <1>3, <1>c DEF PreflightWrites, Answers, Runs, WriteState, OldIP, node
  <2>2. identity = running.req.old /\ identity = public /\ rewritten \subseteq {identity}
    BY <2>1 DEF Before, OwnInv, RecordInv, SnapshotOfOld, RebindInv, Holding, CleanInv,
       SnapshotClean
  <2>3. \A r \in Requests : Pending(r) => ~Done(r)
    BY <1>f, <2>1, <2>2, DoneMoved DEF Before
  <2>4. PendingListed'
    BY <1>e, <2>1, <2>3 DEF Before, CleanInv, PendingListed, NothingNew, ManagedDir
  <2>5. FromIdentity'
    BY <1>e, <1>f, <2>1, <2>2 DEF FromIdentity, NothingNew
  <2>6. KnownClean' /\ AbortableIsUntouched' /\ CommitClean'
    BY <1>d, <1>e, <2>1, <2>2 DEF KnownClean, AbortableIsUntouched, CommitClean
  <2> QED
    BY <1>d, <1>e, <2>1, <2>4, <2>5, <2>6 DEF CleanInv
<1>4. ASSUME CommitStarts PROVE CleanInv'
  <2>1. /\ NothingNew /\ running' # Nobody /\ running'.step = "public" /\ running'.req = running.req
        /\ running # Nobody /\ UNCHANGED <<session, identity, public, rewritten>>
        /\ tx.status = "PREPARED" /\ tx.old = running.req.old
        /\ tx'.status = "COMMITTING" /\ tx'.phase = "POST_DNS"
    BY <1>4, <1>b DEF CommitStarts, CommitMayStart, Runs, Steps, WriteState, OldIP, node
  <2>2. rewritten \subseteq {running.req.old}
    BY <2>1 DEF Before, RebindInv, PhaseKnown, CleanInv, AbortableIsUntouched
  <2>3. PendingListed'
    BY <1>e, <2>1 DEF Before, CleanInv, PendingListed, NothingNew, ManagedDir, Done
  <2>4. FromIdentity' /\ AbortableIsUntouched' /\ CommitClean' /\ SnapshotClean'
    BY <2>1, <2>2 DEF FromIdentity, AbortableIsUntouched, CommitClean, SnapshotClean
  <2>5. KnownClean'
    BY <1>e, <2>1 DEF Before, CleanInv, KnownClean, ManagedDir
  <2> QED
    BY <1>e, <2>1, <2>3, <2>4, <2>5 DEF CleanInv
<1>5. ASSUME CommitPublic \/ CommitIdentity \/ CommitHandoff \/ CommitFiles PROVE CleanInv'
  <2>1. /\ Started /\ UNCHANGED <<session, tx>>
        /\ \/ public' = running.req.new /\ UNCHANGED <<identity, rewritten>>
           \/ identity' = running.req.new /\ UNCHANGED <<public, rewritten>>
           \/ /\ running.step \in {"files", "handoff"} /\ UNCHANGED <<identity, public>>
              /\ rewritten' \in {Rewrite, rewritten \cup Rewrite}
    BY <1>5 DEF CommitPublic, CommitIdentity, CommitHandoff, CommitFiles, Runs, Started,
       NewIP
  <2>2. /\ NothingNew
        /\ \/ running' = Nobody
           \/ running' # Nobody /\ running'.step # "snapshot" /\ running'.req = running.req
    <3>1. CASE running' = Nobody
      BY <1>5, <1>c, <3>1 DEF CommitPublic, CommitIdentity, CommitHandoff, CommitFiles
    <3>2. CASE \E step \in Steps \ {"snapshot"} : StepsTo(step)
      BY <1>5, <1>b, <2>1, <3>2 DEF CommitPublic, CommitIdentity, CommitHandoff,
         CommitFiles, Started
    <3> QED
      BY <1>5, <3>1, <3>2 DEF CommitPublic, CommitIdentity, CommitHandoff, CommitFiles,
         Steps, Answers
  <2>3. /\ tx.status = "COMMITTING" /\ tx.phase = "POST_DNS"
        /\ ManagedDir(running.req.new) \notin dirs
    BY <2>1, WritingUnlisted
  <2>4. rewritten' \subseteq {running.req.old, running.req.new}
    <3>1. rewritten \subseteq {running.req.old, running.req.new}
      BY <2>1 DEF Before, CleanInv, CommitClean
    <3>2. Rewrite \subseteq {running.req.old, running.req.new}
      BY <3>1 DEF Rewrite, OldIP, NewIP
    <3> QED
      BY <2>1, <3>1, <3>2
  <2>5. PendingListed'
    BY <1>e, <2>1, <2>2 DEF Before, CleanInv, PendingListed, NothingNew, ManagedDir, Done
  <2>6. FromIdentity' /\ AbortableIsUntouched' /\ CommitClean' /\ SnapshotClean'
    BY <2>1, <2>2, <2>3, <2>4 DEF FromIdentity, AbortableIsUntouched, CommitClean,
       SnapshotClean, Started
  <2>7. KnownClean'
    <3>1. CASE UNCHANGED <<identity, public>> /\ running.step \in {"files", "handoff"}
      <4>1. identity = running.req.new
        BY <2>1, <3>1 DEF Before, RebindInv, Holding
      <4> QED
        BY <1>e, <2>1, <2>3, <3>1, <4>1 DEF KnownClean, ManagedDir
    <3>2. CASE public' = running.req.new \/ identity' = running.req.new
      BY <1>e, <2>1, <2>3, <3>2 DEF Before, CleanInv, KnownClean, ManagedDir
    <3> QED
      BY <2>1, <3>1, <3>2
  <2> QED
    BY <1>e, <2>1, <2>5, <2>6, <2>7 DEF CleanInv
<1>6. ASSUME CommitShares \/ CommitCounts \/ Stops PROVE CleanInv'
  <2>1. UNCHANGED <<session, tx, identity, public, rewritten>> /\ running # Nobody
    BY <1>6 DEF CommitShares, CommitCounts, Stops, Runs, node
  <2>2. CASE CommitShares \/ CommitCounts
    <3>1. /\ NothingNew /\ running' # Nobody /\ running'.step # "snapshot"
          /\ running'.req = running.req /\ Started
      BY <1>b, <2>2 DEF CommitShares, CommitCounts, Runs, Steps, Started
    <3>2. SnapshotClean'
      BY <3>1 DEF SnapshotClean
    <3> QED
      BY <1>e, <2>1, <3>1, <3>2, CleanKept DEF Before
  <2>3. CASE Stops
    <3>1. NothingNew /\ running' = Nobody
      BY <1>c, <2>3 DEF Stops, Answers
    <3> QED
      BY <1>d, <1>e, <2>1, <3>1, CleanKept DEF Before
  <2> QED
    BY <1>6, <2>2, <2>3
<1>7. ASSUME CommitCompletes PROVE CleanInv'
  <2>1. /\ NothingNew /\ running' = Nobody /\ running # Nobody /\ Started
        /\ running.step = "health" /\ UNCHANGED <<session, identity, public, rewritten>>
        /\ tx'.status = "COMPLETE" /\ tx'.phase = "POST_DNS" /\ tx'.new = running.req.new
    BY <1>7, <1>c DEF CommitCompletes, Answers, Runs, WriteState, NewIP, node, Started
  <2>2. identity = running.req.new /\ rewritten \subseteq {identity}
    BY <2>1 DEF Before, RebindInv, Holding, CleanInv, CommitClean
  <2>3. PendingListed'
    BY <1>f, <2>1 DEF PendingListed, NothingNew, Done
  <2>4. FromIdentity' /\ AbortableIsUntouched' /\ CommitClean' /\ KnownClean'
    BY <1>d, <2>1, <2>2 DEF FromIdentity, AbortableIsUntouched, CommitClean, KnownClean
  <2> QED
    BY <1>d, <1>e, <2>1, <2>3, <2>4 DEF CleanInv
<1>8. ASSUME CommitBlocks PROVE CleanInv'
  <2>1. /\ NothingNew /\ running' = Nobody /\ Started
        /\ UNCHANGED <<session, identity, public, rewritten>>
        /\ tx'.status = "BLOCKED_POST_DNS" /\ tx'.phase = "POST_DNS"
    BY <1>8, <1>c DEF CommitBlocks, Answers, WriteState, node, Started
  <2>2. PendingListed'
    BY <1>e, <2>1, WritingUnlisted DEF Before, CleanInv, PendingListed, NothingNew,
       ManagedDir
  <2>3. FromIdentity' /\ AbortableIsUntouched' /\ CommitClean'
    BY <1>d, <2>1 DEF FromIdentity, AbortableIsUntouched, CommitClean
  <2>4. KnownClean'
    BY <1>e, <2>1 DEF Before, CleanInv, KnownClean, ManagedDir
  <2> QED
    BY <1>d, <1>e, <2>1, <2>2, <2>3, <2>4 DEF CleanInv
<1>9. ASSUME WaitCloudflare \/ AbortPreDns PROVE CleanInv'
  <2>1. /\ NothingNew /\ running' = Nobody /\ running # Nobody
        /\ UNCHANGED <<session, identity, public, rewritten>>
    BY <1>9, <1>c DEF WaitCloudflare, AbortPreDns, Answers, Runs, node
  <2>2. tx.phase = "PRE_DNS" /\ tx.status # "COMPLETE"
    BY <1>9 DEF WaitCloudflare, AbortPreDns, Before, RebindInv, PhaseKnown, OwnInv,
       RecordInv,
       CompletePhase
  <2>3. running.req.old = identity
    BY <1>f, <2>1, <2>2 DEF Before, CleanInv, FromIdentity
  <2>4. tx'.status # "COMPLETE" /\ (tx'.status # "IDLE" => identity = tx'.old)
    <3>1. CASE WaitCloudflare
      BY <2>3, <3>1 DEF WaitCloudflare, WriteState, OldIP
    <3>2. CASE AbortPreDns /\ tx.status = "IDLE"
      BY <2>2, <3>2 DEF AbortPreDns
    <3>3. CASE AbortPreDns /\ tx.status # "IDLE"
      BY <2>2, <3>3 DEF AbortPreDns, Before, Typed, TypedTx, Transactions, CleanInv,
         AbortableIsUntouched
    <3> QED
      BY <1>9, <3>1, <3>2, <3>3
  <2>5. PendingListed'
    BY <1>e, <2>1, <2>2 DEF Before, CleanInv, PendingListed, NothingNew, ManagedDir, Done
  <2>6. FromIdentity'
    BY <1>e, <2>1, <2>2 DEF Before, CleanInv, FromIdentity, NothingNew
  <2>7. KnownClean' /\ AbortableIsUntouched' /\ CommitClean'
    BY <1>d, <1>e, <2>1, <2>2, <2>4 DEF Before, CleanInv, KnownClean, AbortableIsUntouched,
       CommitClean, ManagedDir
  <2> QED
    BY <1>d, <1>e, <2>1, <2>5, <2>6, <2>7 DEF CleanInv
<1> QED
  BY <1>1, <1>2, <1>3, <1>4, <1>5, <1>6, <1>7, <1>8, <1>9 DEF ScriptNext

\* The records stay, and at most the caller of the command leaves.
LEMMA CleanRecords ==
  ASSUME Before, running' \in {running, DisownedRunning},
         UNCHANGED <<tx, identity, public, rewritten>>
  PROVE  AbortableIsUntouched' /\ CommitClean' /\ SnapshotClean'
<1>1. AbortableIsUntouched'
  BY DEF Before, CleanInv, AbortableIsUntouched
<1>2. CASE running' = running
  BY <1>1, <1>2 DEF Before, CleanInv, CommitClean, SnapshotClean, Started
<1>3. CASE running' = DisownedRunning /\ running # Nobody
  BY <1>1, <1>3, DisownedOne DEF Before, CleanInv, CommitClean, SnapshotClean, Started,
     Typed, TypedCommands
<1> QED
  BY <1>2, <1>3 DEF DisownedRunning

LEMMA CleanEnded ==
  ASSUME Before, NEW word, Ends(word), UNCHANGED <<tx, identity, public, rewritten>>,
         \A a \in Addresses : ManagedDir(a) \in dirs' <=> ManagedDir(a) \in dirs
  PROVE  CleanInv'
<1>1. NothingNew
  BY EndsCommands DEF Ends, Before
<1>2. PendingListed'
  <2>1. \A r \in Requests : r.old \in Addresses /\ r.new \in Addresses
    BY DEF Requests
  <2> QED
    BY <1>1, <2>1 DEF Before, CleanInv, PendingListed, NothingNew, Done, ManagedDir
<1>3. FromIdentity' /\ Listed'
  BY <1>1 DEF Before, CleanInv, FromIdentity, NothingNew, Ends, Working, Listed
<1>4. KnownClean'
  BY DEF Before, Typed, TypedNode, CleanInv, KnownClean, ManagedDir
<1> QED
  BY <1>2, <1>3, <1>4, CleanRecords DEF Ends, CleanInv

\* A command is sent, or sent again, by a session that began from a managed key.
LEMMA CleanSent ==
  ASSUME Before, FromManaged, NEW op \in Ops, OnlyOwnNew(op), running' = DisownedRunning,
         UNCHANGED <<tx, identity, public, rewritten, entry, new, dirs>>,
         sessionPc \in Working \ AfterCommit, sessionPc' \in Working \ AfterCommit,
         sessionPc = "identity" => entry.addr = identity
  PROVE  CleanInv'
<1>1. ManagedDir(entry.addr) \in dirs /\ ManagedDir(new) \notin dirs
  <2>1. entry \in dirs /\ ManagedDir(new) \notin dirs
    BY DEF Before, CleanInv, Listed, Working, AfterCommit
  <2>2. entry = ManagedDir(entry.addr)
    BY DEF Before, Typed, TypedSession, Directories, FromManaged, ManagedDir
  <2> QED
    BY <2>1, <2>2
<1>2. tx.phase = "PRE_DNS" => entry.addr = identity
  BY DEF Before, CleanInv, FromIdentity
<1>3. PendingListed' /\ FromIdentity'
  BY <1>1, <1>2 DEF Before, CleanInv, PendingListed, FromIdentity, OnlyOwnNew, Done,
     ManagedDir
<1>4. Listed' /\ KnownClean'
  BY DEF Before, CleanInv, Listed, KnownClean, Working, AfterCommit, ManagedDir
<1> QED
  BY <1>3, <1>4, CleanRecords DEF CleanInv

\* The session goes on by itself.
LEMMA CleanWent ==
  ASSUME Before, UNCHANGED <<commands, tx, identity, public, rewritten, entry, new, dirs>>,
         sessionPc # "idle", sessionPc' \in Working,
         sessionPc' \in Working \ {"identity"} => sessionPc \in Working \ {"identity"},
         sessionPc \in {"final", "archive"} => sessionPc' \in {"final", "archive"}
  PROVE  CleanInv'
<1>1. NothingNew
  BY SameCommands DEF commands
<1>2. PendingListed' /\ FromIdentity'
  BY <1>1 DEF Before, CleanInv, PendingListed, FromIdentity, NothingNew, Done, ManagedDir
<1>3. Listed' /\ KnownClean'
  BY DEF Before, CleanInv, Listed, KnownClean, Working, ManagedDir
<1> QED
  BY <1>2, <1>3, CleanRecords DEF CleanInv, commands

LEMMA CleanSession == Before /\ FromManaged /\ SessionNext => CleanInv'
<1> SUFFICES ASSUME Before, FromManaged, SessionNext PROVE CleanInv'
  OBVIOUS
<1>0. UNCHANGED <<tx, identity, public, rewritten>>
  BY DEF SessionNext, Begin, VerifyKey, InstallByPassword, FetchIdentity, Prepared,
     NotPrepared,
     Parked, DnsConverged, Quits, Aborted, CommitAnswered, MarksStage, RenamesStage,
     FinalVerification, ArchivesOld, LocalStepFails, ConnectionBreaks, Killed, node
<1>e. ASSUME NEW word, Ends(word), dirs' = dirs PROVE CleanInv'
  BY <1>0, <1>e, CleanEnded DEF ManagedDir
<1>f. sessionPc \in AfterCommit =>
        /\ tx.status = "COMPLETE" /\ tx.new = new /\ tx.phase = "POST_DNS" /\ identity = new
        /\ rewritten \subseteq {new} /\ \A r \in Requests : Pending(r) => r.new = new
  BY DEF Before, OwnInv, RecordInv, CommandInv, OwnCommands, CommitRecorded, CompleteRecorded,
     CompletePhase, RebindInv, CompleteIsWhole, CleanInv, CommitClean, AfterCommit, Working
<1>1. ASSUME NEW e \in dirs, NEW b \in Addresses, Begin(e, b) PROVE CleanInv'
  <2>1. /\ NothingNew /\ sessionPc' = "verify" /\ entry' = e /\ new' = b /\ dirs' = dirs
        /\ ManagedDir(b) \notin dirs /\ running' = running
    BY <1>1, SameCommands DEF Begin, commands
  <2>2. PendingListed' /\ FromIdentity'
    BY <1>0, <2>1 DEF Before, CleanInv, PendingListed, FromIdentity, NothingNew, Done,
       ManagedDir,
       Working
  <2>3. Listed' /\ KnownClean'
    BY <1>0, <2>1 DEF Before, CleanInv, Listed, KnownClean, ManagedDir
  <2> QED
    BY <1>0, <2>1, <2>2, <2>3, CleanRecords DEF CleanInv
<1>2. ASSUME VerifyKey \/ InstallByPassword PROVE CleanInv'
  <2>1. CASE Ends("error")
    BY <1>2, <1>e, <2>1 DEF VerifyKey, InstallByPassword
  <2>2. CASE sessionPc' = "identity" /\ UNCHANGED <<commands, entry, new>>
    BY <1>0, <1>2, <2>2, CleanWent DEF VerifyKey, InstallByPassword, Working
  <2> QED
    BY <1>2, <2>1, <2>2 DEF VerifyKey, InstallByPassword, commands
<1>3. ASSUME FetchIdentity PROVE CleanInv'
  <2>1. CASE Ends("BLOCKED_PRE_DNS")
    BY <1>3, <1>e, <2>1 DEF FetchIdentity
  <2>2. CASE Reached /\ IdentityMatches /\ Sends("preflight", "preflight")
             /\ UNCHANGED <<entry, new>>
    <3>1. OnlyOwnNew("preflight")
      BY <2>2, SendsCommands DEF Sends, Ops, Before
    <3> QED
      BY <1>0, <1>3, <2>2, <3>1, CleanSent DEF FetchIdentity, IdentityMatches, Sends, Ops,
         Working,
         AfterCommit
  <2> QED
    BY <1>3, <2>1, <2>2 DEF FetchIdentity
<1>4. ASSUME Prepared PROVE CleanInv'
  <2>1. CASE Sends("wait-cloudflare", "park")
    <3>1. OnlyOwnNew("wait-cloudflare")
      BY <2>1, SendsCommands DEF Sends, Ops, Before
    <3> QED
      BY <1>0, <1>4, <2>1, <3>1, CleanSent DEF Prepared, Sends, Ops, Working, AfterCommit
  <2>2. CASE sessionPc' = "dns" /\ UNCHANGED commands
    BY <1>0, <1>4, <2>2, CleanWent DEF Prepared, Working
  <2> QED
    BY <1>4, <2>1, <2>2 DEF Prepared
<1>5. ASSUME NotPrepared \/ Parked \/ Aborted \/ LocalStepFails PROVE CleanInv'
  <2>1. \E word \in Words : Ends(word)
    BY <1>5 DEF NotPrepared, Parked, Aborted, LocalStepFails, Words
  <2> QED
    BY <1>5, <1>e, <2>1 DEF NotPrepared, Parked, Aborted, LocalStepFails
<1>6. ASSUME DnsConverged PROVE CleanInv'
  <2>1. OnlyOwnNew("commit-direct")
    BY <1>6, SendsCommands DEF DnsConverged, Sends, Ops, Before
  <2> QED
    BY <1>0, <1>6, <2>1, CleanSent DEF DnsConverged, Sends, Ops, Working, AfterCommit
<1>7. ASSUME Quits PROVE CleanInv'
  <2>1. OnlyOwnNew("abort-pre-dns")
    BY <1>7, SendsCommands DEF Quits, Sends, Ops, Before
  <2> QED
    BY <1>0, <1>7, <2>1, CleanSent DEF Quits, Sends, Ops, Working, AfterCommit
<1>8. ASSUME CommitAnswered \/ FinalVerification PROVE CleanInv'
  <2>1. CASE Ends("BLOCKED_POST_DNS")
    BY <1>8, <1>e, <2>1 DEF CommitAnswered, FinalVerification
  <2>2. CASE /\ sessionPc' \in {"mark", "archive"} /\ UNCHANGED <<commands, entry, new>>
             /\ sessionPc = "final" => sessionPc' = "archive"
    BY <1>0, <1>8, <2>2, CleanWent DEF CommitAnswered, FinalVerification, Working
  <2> QED
    BY <1>8, <2>1, <2>2 DEF CommitAnswered, FinalVerification
<1>9. ASSUME MarksStage PROVE CleanInv'
  BY <1>0, <1>9, CleanWent DEF MarksStage, Working
<1>10. ASSUME RenamesStage PROVE CleanInv'
  <2>1. /\ NothingNew /\ sessionPc \in AfterCommit /\ sessionPc' = "final" /\ entry' = entry
        /\ new' = new /\ dirs' = dirs \cup {ManagedDir(new)} /\ sessionPc # "idle"
        /\ running' = running
    BY <1>10, SameCommands DEF RenamesStage, Renamed, AfterCommit, commands
  <2>2. PendingListed'
    BY <1>0, <1>f, <2>1 DEF PendingListed, NothingNew, Done
  <2>3. FromIdentity' /\ KnownClean'
    BY <1>0, <1>f, <2>1 DEF FromIdentity, KnownClean
  <2>4. Listed'
    BY <2>1 DEF Before, CleanInv, Listed
  <2> QED
    BY <1>0, <2>1, <2>2, <2>3, <2>4, CleanRecords DEF CleanInv
<1>11. ASSUME ArchivesOld PROVE CleanInv'
  <2>1. /\ NothingNew /\ sessionPc \in AfterCommit /\ sessionPc' = "idle"
        /\ running' = DisownedRunning
    BY <1>11, EndsCommands DEF ArchivesOld, Ends, AfterCommit, Before
  <2>2. PendingListed'
    BY <1>0, <1>f, <2>1 DEF PendingListed, NothingNew, Done
  <2>3. FromIdentity' /\ KnownClean' /\ Listed'
    BY <1>0, <1>f, <2>1 DEF FromIdentity, KnownClean, Listed
  <2> QED
    BY <1>0, <2>1, <2>2, <2>3, CleanRecords DEF CleanInv
<1>12. ASSUME ConnectionBreaks PROVE CleanInv'
  <2>1. /\ sessionPc \in Working \ AfterCommit /\ sessionPc # "identity"
        /\ UNCHANGED <<sessionPc, entry, new, dirs>> /\ running' = DisownedRunning
    BY <1>12 DEF ConnectionBreaks, Working, AfterCommit
  <2>2. ASSUME NEW op \in Ops,
               waiting' = Disown(waiting)
                  \cup {[op |-> op, old |-> entry.addr, new |-> new, mine |-> TRUE]}
        PROVE  CleanInv'
    <3>1. OnlyOwnNew(op)
      BY <2>1, <2>2, SendsCommands DEF Before
    <3> QED
      BY <1>0, <2>1, <3>1, CleanSent
  <2>3. CASE waiting' = Disown(waiting)
    <3>1. NothingNew
      BY <2>1, <2>3, EndsCommands DEF Before
    <3>2. PendingListed' /\ FromIdentity'
      BY <1>0, <2>1, <3>1 DEF Before, CleanInv, PendingListed, FromIdentity, NothingNew,
         Done,
         ManagedDir
    <3>3. Listed' /\ KnownClean'
      BY <1>0, <2>1 DEF Before, CleanInv, Listed, KnownClean, ManagedDir
    <3> QED
      BY <1>0, <2>1, <3>2, <3>3, CleanRecords DEF CleanInv
  <2> QED
    BY <1>12, <2>2, <2>3 DEF ConnectionBreaks
<1>13. ASSUME Killed PROVE CleanInv'
  <2>1. \A a \in Addresses : ManagedDir(a) \in dirs' <=> ManagedDir(a) \in dirs
    BY <1>13 DEF Killed, ManagedDir
  <2> QED
    BY <1>0, <1>13, <2>1, CleanEnded DEF Killed
<1> QED
  BY <1>1, <1>2, <1>3, <1>4, <1>5, <1>6, <1>7, <1>8, <1>9, <1>10, <1>11, <1>12, <1>13
     DEF SessionNext

\* Neither the provider, the user's DNS nor a stutter touches any of it.
LEMMA QuietOwn ==
  ASSUME Typed, OwnInv, UNCHANGED <<node, tx, commands, session, answer>> PROVE OwnInv'
<1>1. NothingNew /\ UNCHANGED <<running, identity, sessionPc, entry, new, dirs, said>>
  BY SameCommands DEF commands, node, session
<1>2. ToldComplete'
  BY <1>1, WordKept DEF OwnInv, RecordInv
<1>3. CommitRecorded' /\ DirKept'
  BY <1>1 DEF OwnInv, RecordInv, CommitRecorded, CompleteRecorded, DirKept, ManagedDir
<1> QED
  BY <1>1, <1>2, <1>3, CommandsKept, RecordsKept DEF OwnInv, RecordInv

LEMMA QuietClean ==
  ASSUME CleanInv, UNCHANGED <<node, tx, commands, session, answer>> PROVE CleanInv'
<1>1. /\ NothingNew
      /\ UNCHANGED <<running, identity, public, rewritten, sessionPc, entry, new, dirs>>
  BY SameCommands DEF commands, node, session
<1>2. SnapshotClean'
  BY <1>1 DEF CleanInv, SnapshotClean
<1> QED
  BY <1>1, <1>2, CleanKept DEF Started

LEMMA OwnStarts == RebindInit => OwnInv
<1> SUFFICES ASSUME RebindInit PROVE OwnInv
  OBVIOUS
<1>1. \A r \in Requests : ~Pending(r)
  BY DEF RebindInit, Pending
<1>2. CommandInv
  BY <1>1 DEF RebindInit, CommandInv, OneOwner, OwnCommands, ToAnother, AsksForCommit,
     Working
<1>3. RecordInv
  BY DEF RebindInit, RecordInv, SnapshotOfOld, CompletePhase, CommitRecorded, DirKept,
     ToldComplete, AfterCommit
<1> QED
  BY <1>2, <1>3 DEF OwnInv

LEMMA CleanStarts == RebindInit => CleanInv
<1> SUFFICES ASSUME RebindInit PROVE CleanInv
  OBVIOUS
<1>1. \A r \in Requests : ~Pending(r)
  BY DEF RebindInit, Pending
<1>2. Listed /\ PendingListed /\ FromIdentity /\ KnownClean
  BY <1>1 DEF RebindInit, Listed, PendingListed, FromIdentity, KnownClean, Working
<1>3. CommitClean /\ SnapshotClean /\ AbortableIsUntouched
  BY DEF RebindInit, CommitClean, SnapshotClean, AbortableIsUntouched, Started
<1> QED
  BY <1>2, <1>3 DEF CleanInv

LEMMA OwnStep == RebindSafe /\ NoneLate /\ OwnInv /\ [RebindNext]_rebindVars => OwnInv'
<1> SUFFICES ASSUME RebindSafe, NoneLate, OwnInv, [RebindNext]_rebindVars PROVE OwnInv'
  OBVIOUS
<1>1. CASE ScriptNext
  BY <1>1, OwnScript DEF RebindSafe, OwnInv
<1>2. CASE SessionNext
  BY <1>2, OwnSession DEF RebindSafe, OwnInv
<1>3. CASE UNCHANGED <<node, tx, commands, session, answer>>
  BY <1>3, QuietOwn DEF RebindSafe
<1> QED
  BY <1>1, <1>2, <1>3 DEF RebindNext, ProviderMoves, DnsEdited, rebindVars

LEMMA CleanStep ==
  RebindSafe /\ FromManaged /\ OwnInv /\ CleanInv /\ [RebindNext]_rebindVars => CleanInv'
<1> SUFFICES ASSUME RebindSafe, FromManaged, OwnInv, CleanInv, [RebindNext]_rebindVars
             PROVE  CleanInv'
  OBVIOUS
<1>0. Before
  BY DEF Before, RebindSafe
<1>1. CASE UNCHANGED <<node, tx, commands, session, answer>>
  BY <1>1, QuietClean
<1> QED
  BY <1>0, <1>1, CleanScript, CleanSession DEF RebindNext, ProviderMoves, DnsEdited,
     rebindVars

\* Only the rename makes a managed directory.
LEMMA OnlyRenameLists ==
  ASSUME [RebindNext]_rebindVars, NEW a \in Addresses, ManagedDir(a) \in dirs' \ dirs
  PROVE  RenamesStage /\ new = a
<1>1. dirs' # dirs
  OBVIOUS
<1>2. ScriptNext => dirs' = dirs
  BY DEF ScriptNext, GetsLock, PreflightChecks, PreflightWrites, CommitStarts, CommitPublic,
     CommitIdentity, CommitShares, CommitFiles, CommitHandoff, CommitCounts, CommitCompletes,
     CommitBlocks, WaitCloudflare, AbortPreDns, Stops, session
<1>3. SessionNext => RenamesStage \/ Killed \/ ArchivesOld
  BY <1>1 DEF SessionNext, Begin, VerifyKey, InstallByPassword, FetchIdentity, Prepared,
     NotPrepared, Parked, DnsConverged, Quits, Aborted, CommitAnswered, MarksStage,
     FinalVerification, LocalStepFails, ConnectionBreaks
<1>4. RenamesStage \/ Killed \/ ArchivesOld
  BY <1>1, <1>2, <1>3 DEF RebindNext, ProviderMoves, DnsEdited, rebindVars, session
<1>5. ~Killed /\ ~ArchivesOld
  BY DEF Killed, ArchivesOld, ManagedDir
<1>6. RenamesStage
  BY <1>4, <1>5
<1> QED
  BY <1>6 DEF RenamesStage, Renamed, ManagedDir

-----------------------------------------------------------------------------
(* Theorems about sessions that find no command of an earlier one.         *)

LEMMA OwnAlways == RebindSpec /\ []NoneLate => []OwnInv
<1>1. RebindSafe /\ OwnInv /\ NoneLate /\ [RebindNext]_rebindVars => OwnInv'
  BY OwnStep
<1> QED
  BY <1>1, OwnStarts, RebindAlways, PTL DEF RebindSpec

\* The local endpoint follows the node (ip_rebind.go:402): with any number of
\* addresses, sessions and moves, a managed directory for a new address
\* appears only when the node has recorded the address as complete, unless a
\* session began while a command of an earlier one was left on the node.
THEOREM EndpointFollows == RebindSpec /\ []NoneLate => EndpointFollowsNode
<1> DEFINE Follows == \A a \in Addresses :
             ManagedDir(a) \in dirs' \ dirs =>
               identity = a /\ tx.status = "COMPLETE" /\ tx.new = a
<1>1. RebindSafe /\ OwnInv /\ [RebindNext]_rebindVars => [Follows]_rebindVars
  <2> SUFFICES ASSUME RebindSafe, OwnInv, [RebindNext]_rebindVars, NEW a \in Addresses,
                      ManagedDir(a) \in dirs' \ dirs
               PROVE  identity = a /\ tx.status = "COMPLETE" /\ tx.new = a
    OBVIOUS
  <2>1. RenamesStage /\ new = a
    BY OnlyRenameLists
  <2>2. CompleteRecorded
    BY <2>1 DEF RenamesStage, OwnInv, RecordInv, CommitRecorded, AfterCommit
  <2> QED
    BY <2>1, <2>2 DEF CompleteRecorded, RebindSafe, RebindInv, CompleteIsWhole
<1> QED
  BY <1>1, RebindAlways, OwnAlways, PTL DEF RebindSpec, EndpointFollowsNode

\* A session that has said COMPLETE leaves a directory that names the address
\* the node has recorded as its own, so that the next rebind can start from
\* it, and nothing late on the node changes that address any more.
THEOREM CompleteKeepsKey == RebindSpec /\ []NoneLate => []CompleteHasKey
<1>1. OwnInv => CompleteHasKey
  BY DEF OwnInv, RecordInv, ToldComplete, CompleteHasKey
<1> QED
  BY <1>1, OwnAlways, PTL

\* As long as abort-pre-dns may call the recorded rebind off
\* (27-ip-rebind.sh:394), no record and no managed file has been moved; said
\* of sessions that begin from a managed key and find the node quiet.
THEOREM AbortableUntouched ==
  RebindSpec /\ []NoneLate /\ []FromManaged => []AbortableIsUntouched
<1>1. RebindSafe /\ OwnInv /\ FromManaged /\ CleanInv /\ [RebindNext]_rebindVars => CleanInv'
  BY CleanStep
<1>2. CleanInv => AbortableIsUntouched
  BY DEF CleanInv
<1> QED
  BY <1>1, <1>2, CleanStarts, RebindAlways, OwnAlways, PTL DEF RebindSpec
=============================================================================
