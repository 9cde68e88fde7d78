------------------------------ MODULE IpRebind ------------------------------
(***************************************************************************)
(* Moving a node to the new public address its provider has given it:      *)
(* the session of ip_rebind.go and the script 27-ip-rebind.sh on the node. *)
(*                                                                         *)
(* The script holds a lock for each of its commands, so that one runs and  *)
(* others wait; a command whose caller has given up, or was killed, still  *)
(* runs when its turn comes.  It writes the node's records one after the   *)
(* other and may die between any two.  Whatever the machine that answers   *)
(* at an address, a session only talks to the one with the pinned host     *)
(* key, so a contact succeeds when the node itself is there.               *)
(***************************************************************************)
EXTENDS Naturals, FiniteSets

CONSTANTS
  Addresses,    \* public addresses
  First,        \* the one the node has at first
  MaxMoves,     \* bound on what the provider and the user's DNS do
  MaxSessions   \* bound on the sessions that are started

ASSUME IpRebindAssumption ==
  /\ First \in Addresses /\ MaxMoves \in Nat /\ MaxSessions \in Nat

VARIABLES
  at, dns,      \* where the node is, and where its domain points to
  direct,       \* the active route is a direct one
  accepted,     \* the account accepts the managed key
  identity,     \* CURRENT_PUBLIC_IP of node-identity.env
  public,       \* PUBLIC_IP of public.env
  rewritten,    \* addresses in the files that commit-direct rewrites
  counted,      \* addresses in those that it only searches
  tx,           \* ip-rebind-public.env
  running,      \* the command that holds the lock
  waiting,      \* commands that wait for it
  sessionPc,           \* where the session is
  entry, new,   \* the managed key it chose and the address typed
  stage,        \* its .rebind- directory: "none", "copy", or "marked"
  dirs,         \* directories with the key and a stable identity
  answer,       \* of the session's command: "none", "ok" or "failed"
  retried,      \* that command has been sent a second time
  said,         \* the last word of the session
  sessions, moves

node == <<direct, accepted, identity, public, rewritten, counted>>
commands == <<running, waiting>>
session == <<sessionPc, entry, new, stage, dirs, retried, said, sessions>>
provider == <<at, dns, moves>>
rebindVars == <<node, tx, commands, session, answer, provider>>

Statuses == {"IDLE", "PREPARED", "COMMITTING", "COMPLETE", "BLOCKED_POST_DNS",
             "WAITING_FOR_CLOUDFLARE", "ABORTED_PRE_DNS"}
Transactions == [status : Statuses, old : Addresses, new : Addresses,
                 direct : BOOLEAN, phase : {"PRE_DNS", "POST_DNS"}]
Directories == [kind : {"managed", "stage"}, addr : Addresses]
Ops == {"preflight", "commit-direct", "wait-cloudflare", "abort-pre-dns"}
Requests == [op : Ops, old : Addresses, new : Addresses, mine : BOOLEAN]
Steps == {"start", "snapshot", "public", "identity", "shares", "files",
          "handoff", "count", "health"}
Nobody == [step |-> "none"]

ManagedDir(a) == [kind |-> "managed", addr |-> a]

RebindInit ==
  /\ at = First /\ dns = First /\ direct \in BOOLEAN /\ accepted \in BOOLEAN
  /\ identity = First /\ public = First
  /\ rewritten = {First} /\ counted \in {{}, {First}}
  /\ tx = [status |-> "IDLE", old |-> First, new |-> First,
           direct |-> FALSE, phase |-> "PRE_DNS"]
  /\ running = Nobody /\ waiting = {}
  /\ sessionPc = "idle" /\ entry = ManagedDir(First) /\ new = First
  /\ stage = "none" /\ dirs = {ManagedDir(First)}
  /\ answer = "none" /\ retried = FALSE /\ said = "nothing"
  /\ sessions = 0 /\ moves = 0

-----------------------------------------------------------------------------
\* The script.  Its next command takes the lock.
GetsLock(r) ==
  /\ running = Nobody /\ r \in waiting
  /\ waiting' = waiting \ {r}
  /\ running' = [step |-> "start", req |-> r]
  /\ UNCHANGED <<node, tx, session, answer, provider>>

Runs(op, step) ==
  running # Nobody /\ running.req.op = op /\ running.step = step

StepsTo(step) == running' = [running EXCEPT !.step = step] /\ UNCHANGED answer

Answers(result) ==
  /\ running' = Nobody
  /\ answer' = IF running.req.mine THEN result ELSE answer

OldIP == running.req.old
NewIP == running.req.new

WriteStateSwapped(status, isDirect, phase) ==
  tx' = [status |-> phase, old |-> OldIP, new |-> NewIP,
         direct |-> isDirect, phase |-> status]

\* write_state
WriteState(status, isDirect, phase) ==
  tx' = [status |-> status, old |-> OldIP, new |-> NewIP,
         direct |-> isDirect, phase |-> phase]

\* preflight: identity, runtime record and provider must agree, the services
\* must be up; then it takes a snapshot, and records itself as prepared.
ServesAtNew == at = NewIP
PreflightMatches == identity = OldIP /\ public = OldIP /\ at = NewIP

PreflightChecks ==
  /\ Runs("preflight", "start") /\ PreflightMatches
  /\ StepsTo("snapshot")
  /\ UNCHANGED <<node, tx, waiting, session, provider>>

PreflightWrites ==
  /\ Runs("preflight", "snapshot")
  /\ WriteState("PREPARED", direct, "PRE_DNS") /\ Answers("ok")
  /\ UNCHANGED <<node, waiting, session, provider>>

\* commit-direct: everything before the first write may still refuse.
CommitMayStart ==
  /\ tx.status = "PREPARED" /\ tx.old = OldIP /\ tx.new = NewIP
  /\ tx.direct /\ at = NewIP /\ dns = NewIP

CommitStarts ==
  /\ Runs("commit-direct", "start") /\ CommitMayStart
  /\ WriteState("COMMITTING", tx.direct, "POST_DNS")
  /\ StepsTo("public")
  /\ UNCHANGED <<node, waiting, session, provider>>

CommitPublic ==
  /\ Runs("commit-direct", "public")
  /\ public' = NewIP /\ StepsTo("identity")
  /\ UNCHANGED <<direct, accepted, identity, rewritten, counted, tx,
                 waiting, session, provider>>

CommitIdentity ==
  /\ Runs("commit-direct", "identity")
  /\ identity' = NewIP /\ StepsTo("shares")
  /\ UNCHANGED <<direct, accepted, public, rewritten, counted, tx,
                 waiting, session, provider>>

\* The shares of the panel carry the new address.
CommitShares ==
  /\ Runs("commit-direct", "shares") /\ StepsTo("files")
  /\ UNCHANGED <<node, tx, waiting, session, provider>>

\* update_managed_files, file by file; a failure ends the script by errexit.
Rewrite ==
  {IF a = OldIP THEN NewIP ELSE a : a \in rewritten}

CommitFiles ==
  /\ Runs("commit-direct", "files")
  /\ \/ rewritten' = rewritten \cup Rewrite /\ Answers("failed")
     \/ rewritten' = Rewrite /\ StepsTo("handoff")
  /\ UNCHANGED <<direct, accepted, identity, public, counted, tx,
                 waiting, session, provider>>

\* The handoffs are exported again, the files rewritten once more, and nginx
\* is reloaded.
CommitHandoff ==
  /\ Runs("commit-direct", "handoff") /\ rewritten' = Rewrite
  /\ StepsTo("count")
  /\ UNCHANGED <<direct, accepted, identity, public, counted, tx,
                 waiting, session, provider>>

ListsClean == OldIP \notin rewritten
NoReferenceLeft == OldIP \notin rewritten \cup counted

CommitCounts ==
  /\ Runs("commit-direct", "count") /\ NoReferenceLeft
  /\ StepsTo("health")
  /\ UNCHANGED <<node, tx, waiting, session, provider>>

CommitCompletes ==
  /\ Runs("commit-direct", "health")
  /\ WriteState("COMPLETE", tx.direct, "POST_DNS") /\ Answers("ok")
  /\ UNCHANGED <<node, waiting, session, provider>>

\* post_dns_block; a block of the first step may come after its write.
CommitBlocks ==
  /\ running # Nobody /\ running.req.op = "commit-direct"
  /\ running.step \in {"public", "identity", "shares", "handoff", "count", "health"}
  /\ running.step = "count" => ~NoReferenceLeft
  /\ WriteState("BLOCKED_POST_DNS", tx.direct, "POST_DNS") /\ Answers("failed")
  /\ UNCHANGED <<node, waiting, session, provider>>

WaitCloudflare ==
  /\ Runs("wait-cloudflare", "start")
  /\ tx.status = "PREPARED" /\ tx.new = NewIP
  /\ WriteState("WAITING_FOR_CLOUDFLARE", direct, "PRE_DNS") /\ Answers("ok")
  /\ UNCHANGED <<node, waiting, session, provider>>

\* abort-pre-dns takes no addresses: it aborts whatever is recorded.
AbortPreDns ==
  /\ Runs("abort-pre-dns", "start") /\ tx.phase = "PRE_DNS"
  /\ tx' = IF tx.status = "IDLE" THEN tx
           ELSE [tx EXCEPT !.status = "ABORTED_PRE_DNS", !.direct = direct]
  /\ Answers("ok")
  /\ UNCHANGED <<node, waiting, session, provider>>

\* A check refuses, or the script dies between two steps.
Stops ==
  /\ running # Nobody /\ Answers("failed")
  /\ UNCHANGED <<node, tx, waiting, session, provider>>

-----------------------------------------------------------------------------
\* The session.

Disown(rs) == {[r EXCEPT !.mine = FALSE] : r \in rs}
DisownedRunning ==
  IF running = Nobody THEN Nobody ELSE [running EXCEPT !.req.mine = FALSE]

Sends(op, where) ==
  /\ sessionPc' = where /\ answer' = "none" /\ retried' = FALSE
  /\ waiting' = Disown(waiting)
                \cup {[op |-> op, old |-> entry.addr, new |-> new, mine |-> TRUE]}
  /\ running' = DisownedRunning

\* rebindPublicIP returns; its deferred call removes the stage directory.
Ends(word) ==
  /\ sessionPc' = "idle" /\ said' = word /\ stage' = "none"
  /\ entry' = ManagedDir(First) /\ new' = First
  /\ answer' = "none" /\ retried' = FALSE
  /\ waiting' = Disown(waiting) /\ running' = DisownedRunning

\* chooseStableManagedKey, the new address, stageReboundConnection: the pair
\* is copied, and the scanned host key must be the pinned one.
Begin(e, b) ==
  /\ sessionPc = "idle" /\ sessions < MaxSessions
  /\ e \in dirs /\ b # e.addr /\ ManagedDir(b) \notin dirs /\ at = b
  /\ sessionPc' = "verify" /\ entry' = e /\ new' = b /\ stage' = "copy"
  /\ said' = "nothing" /\ sessions' = sessions + 1
  /\ UNCHANGED <<node, tx, commands, dirs, answer, retried, provider>>

Reached == at = new

VerifyKey ==
  /\ sessionPc = "verify" /\ Reached /\ accepted
  /\ sessionPc' = "identity"
  /\ UNCHANGED <<node, tx, commands, entry, new, stage, dirs, answer, retried,
                 said, sessions, provider>>

\* Any failure of the verification leads to the password and to
\* installPublicKey, whose own answer may be lost.
InstallByPassword ==
  /\ sessionPc = "verify" /\ Reached
  /\ accepted' = TRUE
  /\ \/ /\ sessionPc' = "identity"
        /\ UNCHANGED <<commands, entry, new, stage, answer, retried, said>>
     \/ Ends("error")
  /\ UNCHANGED <<direct, identity, public, rewritten, counted, tx,
                 dirs, sessions, provider>>

IdentityMatches == identity = entry.addr

\* fetchNodeIdentity and its comparison, then ensureToolkit and public.env
FetchIdentity ==
  /\ sessionPc = "identity"
  /\ \/ Reached /\ IdentityMatches /\ Sends("preflight", "preflight")
        /\ UNCHANGED <<entry, new, stage, said>>
     \/ Ends("BLOCKED_PRE_DNS")
  /\ UNCHANGED <<node, tx, dirs, sessions, provider>>

\* A CDN route, or a new domain, is parked; the other routes go on to DNS.
Prepared ==
  /\ sessionPc = "preflight" /\ answer = "ok"
  /\ \/ Sends("wait-cloudflare", "park")
     \/ /\ tx.direct /\ sessionPc' = "dns" /\ answer' = "none"
        /\ UNCHANGED <<commands, retried>>
  /\ UNCHANGED <<node, tx, entry, new, stage, dirs, said, sessions, provider>>

NotPrepared ==
  /\ sessionPc = "preflight" /\ answer = "failed" /\ Ends("BLOCKED_PRE_DNS")
  /\ UNCHANGED <<node, tx, dirs, sessions, provider>>

\* With a new domain the answer is not looked at.
Parked ==
  /\ sessionPc = "park" /\ answer # "none"
  /\ \/ Ends("PARKED")
     \/ answer = "failed" /\ Ends("error")
  /\ UNCHANGED <<node, tx, dirs, sessions, provider>>

DnsConverged ==
  /\ sessionPc = "dns" /\ dns = new /\ Sends("commit-direct", "commit")
  /\ UNCHANGED <<node, tx, entry, new, stage, dirs, said, sessions, provider>>

Quits ==
  /\ sessionPc = "dns" /\ Sends("abort-pre-dns", "abort")
  /\ UNCHANGED <<node, tx, entry, new, stage, dirs, said, sessions, provider>>

Aborted ==
  /\ sessionPc = "abort" /\ answer # "none" /\ Ends("stopped")
  /\ UNCHANGED <<node, tx, dirs, sessions, provider>>

\* The marker of a complete commit, and the identity read back.
IdentityReadBack == Reached /\ identity = new
CommitEvidence == answer = "ok" /\ Reached /\ identity = new

CommitAnswered ==
  /\ sessionPc = "commit" /\ answer # "none"
  /\ \/ CommitEvidence /\ sessionPc' = "mark" /\ answer' = "none"
        /\ UNCHANGED <<commands, entry, new, stage, retried, said>>
     \/ Ends("BLOCKED_POST_DNS")
  /\ UNCHANGED <<node, tx, dirs, sessions, provider>>

\* commitLocalReboundKey: the metadata, the rename, a last verification
\* through the new endpoint, and the old directory into the backups.
MarksStage ==
  /\ sessionPc = "mark" /\ stage' = "marked" /\ sessionPc' = "rename"
  /\ UNCHANGED <<node, tx, commands, entry, new, dirs, answer, retried, said,
                 sessions, provider>>

RenameIgnored == {dirs, dirs \cup {ManagedDir(new)}}
Renamed == {dirs \cup {ManagedDir(new)}}

RenamesStage ==
  /\ sessionPc = "rename" /\ dirs' \in Renamed
  /\ stage' = "none" /\ sessionPc' = "final"
  /\ UNCHANGED <<node, tx, commands, entry, new, answer, retried, said,
                 sessions, provider>>

FinalVerification ==
  /\ sessionPc = "final"
  /\ \/ Reached /\ accepted /\ sessionPc' = "archive"
        /\ UNCHANGED <<commands, entry, new, stage, answer, retried, said>>
     \/ Ends("BLOCKED_POST_DNS")
  /\ UNCHANGED <<node, tx, dirs, sessions, provider>>

\* A directory that cannot be moved stays, with a warning.
ArchivesOld ==
  /\ sessionPc = "archive" /\ dirs' \in {dirs, dirs \ {entry}}
  /\ Ends("COMPLETE")
  /\ UNCHANGED <<node, tx, sessions, provider>>

LocalStepFails ==
  /\ \/ sessionPc \in {"mark", "rename"} /\ Ends("BLOCKED_POST_DNS")
     \/ sessionPc = "verify" /\ Ends("error")
  /\ UNCHANGED <<node, tx, dirs, sessions, provider>>

\* The connection breaks: runCaptured sends the command a second time, or
\* the caller is told that it failed.
ConnectionBreaks ==
  /\ sessionPc \in {"preflight", "park", "commit", "abort"}
  /\ \/ /\ ~retried
        /\ \E op \in Ops :
             /\ op = CASE sessionPc = "preflight" -> "preflight"
                       [] sessionPc = "park" -> "wait-cloudflare"
                       [] sessionPc = "commit" -> "commit-direct"
                       [] OTHER -> "abort-pre-dns"
             /\ waiting' = Disown(waiting)
                  \cup {[op |-> op, old |-> entry.addr, new |-> new, mine |-> TRUE]}
        /\ retried' = TRUE /\ answer' = "none"
     \/ /\ answer' = "failed" /\ waiting' = Disown(waiting)
        /\ UNCHANGED retried
  /\ running' = DisownedRunning
  /\ UNCHANGED <<node, tx, sessionPc, entry, new, stage, dirs, said, sessions, provider>>

\* The program is killed: a stage directory that has its metadata is listed
\* among the managed keys from then on.
Killed ==
  /\ sessionPc # "idle" /\ Ends("nothing")
  /\ dirs' = IF stage = "marked" THEN dirs \cup {[kind |-> "stage", addr |-> new]}
                                 ELSE dirs
  /\ UNCHANGED <<node, tx, sessions, provider>>

-----------------------------------------------------------------------------
\* The provider gives the node another address; the user edits the record.
ProviderMoves(b) ==
  /\ moves < MaxMoves /\ b # at
  /\ at' = b /\ moves' = moves + 1
  /\ UNCHANGED <<node, tx, commands, session, answer, dns>>

DnsEdited(b) ==
  /\ moves < MaxMoves /\ b # dns
  /\ dns' = b /\ moves' = moves + 1
  /\ UNCHANGED <<node, tx, commands, session, answer, at>>

ScriptNext ==
  \/ \E r \in waiting : GetsLock(r)
  \/ PreflightChecks \/ PreflightWrites
  \/ CommitStarts \/ CommitPublic \/ CommitIdentity \/ CommitShares
  \/ CommitFiles \/ CommitHandoff \/ CommitCounts \/ CommitCompletes
  \/ CommitBlocks \/ WaitCloudflare \/ AbortPreDns \/ Stops

SessionNext ==
  \/ \E e \in dirs, b \in Addresses : Begin(e, b)
  \/ VerifyKey \/ InstallByPassword \/ FetchIdentity
  \/ Prepared \/ NotPrepared \/ Parked \/ DnsConverged \/ Quits \/ Aborted
  \/ CommitAnswered \/ MarksStage \/ RenamesStage \/ FinalVerification
  \/ ArchivesOld \/ LocalStepFails \/ ConnectionBreaks \/ Killed

RebindNext ==
  \/ ScriptNext \/ SessionNext
  \/ \E b \in Addresses : ProviderMoves(b) \/ DnsEdited(b)

RebindSpec == RebindInit /\ [][RebindNext]_rebindVars
-----------------------------------------------------------------------------
BTypeOK ==
  /\ at \in Addresses /\ dns \in Addresses /\ direct \in BOOLEAN
  /\ accepted \in BOOLEAN /\ identity \in Addresses /\ public \in Addresses
  /\ rewritten \subseteq Addresses /\ counted \subseteq Addresses
  /\ tx \in Transactions
  /\ running \in {Nobody} \cup [step : Steps, req : Requests]
  /\ waiting \subseteq Requests
  /\ sessionPc \in {"idle", "verify", "identity", "preflight", "park", "dns", "abort",
             "commit", "mark", "rename", "final", "archive"}
  /\ entry \in Directories /\ new \in Addresses
  /\ stage \in {"none", "copy", "marked"} /\ dirs \subseteq Directories
  /\ answer \in {"none", "ok", "failed"} /\ retried \in BOOLEAN
  /\ said \in {"nothing", "error", "BLOCKED_PRE_DNS", "BLOCKED_POST_DNS",
               "PARKED", "stopped", "COMPLETE"}
  /\ sessions \in 0..MaxSessions /\ moves \in 0..MaxMoves

\* A rebind recorded as complete left no trace of the old address in any
\* record or managed file of the node (27-ip-rebind.sh:356), whatever died,
\* was repeated or ran late before.
CompleteIsWhole ==
  tx.status = "COMPLETE" =>
    /\ identity = tx.new /\ public = tx.new
    /\ tx.old \notin rewritten \cup counted

\* While the recorded phase is PRE_DNS, and abort-pre-dns may therefore call
\* the rebind off (27-ip-rebind.sh:394), no record has been moved: those of
\* an unfinished commit are never taken for a rebind that can be aborted.
AbortableIsUntouched ==
  tx.phase = "PRE_DNS" =>
    identity = public /\ rewritten \subseteq {identity}
      /\ (tx.status # "IDLE" => identity = tx.old)

\* The local endpoint follows the node, never the other way: a managed
\* directory for a new address appears only when the node has recorded the
\* address as complete (ip_rebind.go:402).
EndpointFollowsNode ==
  [][\A a \in Addresses :
       ManagedDir(a) \in dirs' \ dirs =>
         identity = a /\ tx.status = "COMPLETE" /\ tx.new = a]_rebindVars

\* The key of the node is never left without a directory that names an
\* address the node has recorded as its own, so that the next rebind can
\* start from it once a session has said that it is complete.
CompleteHasKey ==
  said = "COMPLETE" => ManagedDir(identity) \in dirs
=============================================================================
