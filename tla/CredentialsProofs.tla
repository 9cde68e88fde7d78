-------------------------- MODULE CredentialsProofs --------------------------
(***************************************************************************)
(* Proofs about Credentials, for every bound on the pairs that are made and *)
(* on the archive: types, and that what the operator is told to save really *)
(* logs in.  A script is a concatenation of pieces, so the proofs follow it *)
(* piece by piece: what a piece does to a login (Safe, Will), and where its *)
(* steps stand in the whole (OnCourse).                                    *)
(***************************************************************************)
EXTENDS Credentials, Integers, SequenceTheorems, WellFoundedInduction, TLAPS

-----------------------------------------------------------------------------
(* The scripts as sequences of steps.                                      *)

PlainOps ==
  {"seed", "truncate", "restore", "restore strictly", "change vps", "change panel",
   "check panel", "name the account", "install panel", "installer's handoff",
   "installer's store", "validate panel", "reapply", "form complete", "rest"}
FieldOps == {"handoff", "store"}
ScriptSteps ==
  [op : {"archive"} \cup PlainOps \cup FieldOps, field : {<<>>} \cup Fields]

\* A step that writes a field has one.
WritesFields(s) ==
  \A i \in 1..Len(s) : s[i].op \in {"handoff", "store"} => s[i].field \in Fields
\* The handoff is archived once at most.
ArchivesOnce(s) ==
  \A i, j \in 1..Len(s) : s[i].op = "archive" /\ s[j].op = "archive" => i = j
Archives(s) == \E i \in 1..Len(s) : s[i].op = "archive"

LEMMA StepTyped ==
  /\ \A op \in {"archive"} \cup PlainOps : Do(op) \in ScriptSteps /\ Do(op).op = op
  /\ \A op \in FieldOps, k \in Kinds, h \in Halves :
       /\ Sets(op, k, h) \in ScriptSteps /\ Sets(op, k, h).op = op
       /\ Sets(op, k, h).field = <<k, h>>
  BY DEF Do, Sets, ScriptSteps, Fields, FieldOps

LEMMA Joined ==
  ASSUME NEW s \in Seq(ScriptSteps), NEW t \in Seq(ScriptSteps)
  PROVE  /\ s \o t \in Seq(ScriptSteps) /\ Len(s \o t) = Len(s) + Len(t)
         /\ Len(s) \in Nat /\ Len(t) \in Nat
         /\ \A i \in 1..Len(s) : (s \o t)[i] = s[i]
         /\ \A i \in 1..Len(t) : (s \o t)[Len(s) + i] = t[i]
         /\ \A i \in 1..(Len(s) + Len(t)) : \/ i \in 1..Len(s)
                                            \/ \E j \in 1..Len(t) : i = Len(s) + j
<1>1. Len(s) \in Nat /\ Len(t) \in Nat
  BY LenProperties
<1>2. /\ s \o t \in Seq(ScriptSteps) /\ Len(s \o t) = Len(s) + Len(t)
      /\ \A i \in 1 .. Len(s) + Len(t) : (s \o t)[i] =
           IF i <= Len(s) THEN s[i] ELSE t[i - Len(s)]
  BY ConcatProperties
<1>3. ASSUME NEW i \in 1..Len(s) PROVE (s \o t)[i] = s[i]
  BY <1>1, <1>2
<1>4. ASSUME NEW i \in 1..Len(t) PROVE (s \o t)[Len(s) + i] = t[i]
  <2>1. Len(s) + i \in 1..(Len(s) + Len(t)) /\ ~(Len(s) + i <= Len(s)) /\ Len(s) + i - Len(s) = i
    BY <1>1
  <2> QED
    BY <1>2, <2>1
<1>5. ASSUME NEW i \in 1..(Len(s) + Len(t)), i \notin 1..Len(s)
      PROVE  \E j \in 1..Len(t) : i = Len(s) + j
  <2>1. i - Len(s) \in 1..Len(t) /\ i = Len(s) + (i - Len(s))
    BY <1>1, <1>5
  <2> QED
    BY <2>1
<1> QED
  BY <1>1, <1>2, <1>3, <1>4, <1>5

\* Such scripts, with no archiving, and their concatenation.
Scripts == {s \in Seq(ScriptSteps) : WritesFields(s)}
Quiet == {s \in Scripts : ~Archives(s)}

LEMMA QuietJoined == \A s, t \in Quiet : s \o t \in Quiet
<1> SUFFICES ASSUME NEW s \in Quiet, NEW t \in Quiet PROVE s \o t \in Quiet
  OBVIOUS
<1> USE Joined DEF Quiet, Scripts
<1>1. WritesFields(s \o t)
  BY DEF WritesFields
<1>2. ~Archives(s \o t)
  BY DEF Archives
<1> QED
  BY <1>1, <1>2

\* The scripts are put together from single steps and the recording of a pair.
One(op) == <<Do(op)>>

LEMMA OneQuiet == \A op \in PlainOps : One(op) \in Quiet
<1> SUFFICES ASSUME NEW op \in PlainOps PROVE One(op) \in Quiet
  OBVIOUS
<1>1. Do(op) \in ScriptSteps /\ Do(op).op \notin {"archive", "handoff", "store"}
  BY StepTyped DEF PlainOps
<1>2. One(op) \in Seq(ScriptSteps) /\ Len(One(op)) = 1 /\ One(op)[1] = Do(op)
  BY <1>1 DEF One
<1>3. WritesFields(One(op)) /\ ~Archives(One(op))
  <2>1. \A i \in 1..Len(One(op)) : One(op)[i] = Do(op)
    BY <1>2
  <2> QED
    BY <1>1, <2>1 DEF WritesFields, Archives
<1> QED
  BY <1>2, <1>3 DEF Quiet, Scripts

LEMMA PiecesQuiet ==
  /\ <<>> \in Quiet /\ RotateVPS \in Quiet /\ RotatePanel \in Quiet
  /\ \A fresh, strict \in BOOLEAN : ExportPanel(fresh, strict) \in Quiet
<1>1. <<>> \in Quiet
  BY DEF Quiet, Scripts, WritesFields, Archives
<1>2. \A k \in Kinds : Recorded(k) \in Quiet
  <2> SUFFICES ASSUME NEW k \in Kinds PROVE Recorded(k) \in Quiet
    OBVIOUS
  <2> DEFINE a == Sets("handoff", k, "user")
             b == Sets("handoff", k, "password")
             c == Sets("store", k, "user")
             d == Sets("store", k, "password")
  <2>1. \A x \in {a, b, c, d} : x \in ScriptSteps /\ x.field \in Fields /\ x.op # "archive"
    <3>1. \A h \in Halves, op \in FieldOps :
            /\ Sets(op, k, h) \in ScriptSteps /\ Sets(op, k, h).field \in Fields
            /\ Sets(op, k, h).op # "archive"
      <4> SUFFICES ASSUME NEW h \in Halves, NEW op \in FieldOps
                   PROVE  /\ Sets(op, k, h) \in ScriptSteps /\ Sets(op, k, h).field \in Fields
                          /\ Sets(op, k, h).op # "archive"
        OBVIOUS
      <4>1. /\ Sets(op, k, h) \in ScriptSteps /\ Sets(op, k, h).op = op
            /\ Sets(op, k, h).field = <<k, h>>
        BY StepTyped
      <4>2. <<k, h>> \in Fields
        BY DEF Fields
      <4> QED
        BY <4>1, <4>2 DEF FieldOps
    <3> QED
      BY <3>1 DEF Halves, FieldOps
  <2>2. Recorded(k) = <<a, b, c, d>>
    BY DEF Recorded
  <2> HIDE DEF a, b, c, d
  <2> QED
    BY <2>1, <2>2 DEF Quiet, Scripts, WritesFields, Archives
<1>3. One("change vps") \o Recorded("vps") \in Quiet
  BY <1>2, OneQuiet, QuietJoined DEF Kinds, PlainOps
<1>4. (One("change panel") \o Recorded("panel")) \o One("check panel") \in Quiet
  BY <1>2, OneQuiet, QuietJoined DEF Kinds, PlainOps
<1>5. ASSUME NEW fresh \in BOOLEAN, NEW strict \in BOOLEAN
      PROVE  ExportPanel(fresh, strict) \in Quiet
  <2> DEFINE a == IF fresh THEN One("installer's handoff") ELSE <<>>
             b == One("seed")
             c == IF fresh THEN One("installer's store") ELSE <<>>
             d == One(IF strict THEN "restore strictly" ELSE "restore")
  <2>1. a \in Quiet /\ b \in Quiet /\ c \in Quiet /\ d \in Quiet
    BY <1>1, OneQuiet DEF PlainOps
  <2>2. ExportPanel(fresh, strict) = ((a \o b) \o c) \o d
    BY Zenon DEF ExportPanel, One
  <2> HIDE DEF a, b, c, d
  <2> QED
    BY <2>1, <2>2, QuietJoined
<1> QED
  BY <1>1, <1>3, <1>4, <1>5 DEF RotateVPS, RotatePanel, One

LEMMA ArchivingJoined ==
  ASSUME NEW s \in Scripts, ArchivesOnce(s), NEW t \in Quiet
  PROVE  s \o t \in Scripts /\ ArchivesOnce(s \o t)
<1> USE Joined DEF Quiet, Scripts
<1>1. WritesFields(s \o t)
  BY DEF WritesFields
<1>2. ASSUME NEW i \in 1..Len(s \o t), (s \o t)[i].op = "archive"
      PROVE  i \in 1..Len(s) /\ s[i].op = "archive"
  <2>1. CASE i \in 1..Len(s)
    BY <1>2, <2>1
  <2>2. ASSUME NEW j \in 1..Len(t), i = Len(s) + j PROVE FALSE
    BY <1>2, <2>2 DEF Archives
  <2> QED
    BY <2>1, <2>2
<1>3. ArchivesOnce(s \o t)
  BY <1>2 DEF ArchivesOnce
<1> QED
  BY <1>1, <1>3

LEMMA BeginArchives ==
  ASSUME NEW strict \in BOOLEAN
  PROVE  BeginRun(strict) \in Scripts /\ ArchivesOnce(BeginRun(strict))
<1> DEFINE a == Do("seed")
           b == Do("archive")
           c == Do("truncate")
           d == Do(IF strict THEN "restore strictly" ELSE "restore")
<1>1. /\ \A x \in {a, c, d} : x \in ScriptSteps /\ x.op \notin {"archive", "handoff", "store"}
      /\ b \in ScriptSteps /\ b.op = "archive"
  <2>1. \A op \in PlainOps : Do(op) \in ScriptSteps /\ Do(op).op = op
    BY StepTyped
  <2>2. \A op \in PlainOps : op \notin {"archive", "handoff", "store"}
    BY DEF PlainOps
  <2>3. /\ "seed" \in PlainOps /\ "truncate" \in PlainOps
        /\ (IF strict THEN "restore strictly" ELSE "restore") \in PlainOps
    BY DEF PlainOps
  <2>4. b \in ScriptSteps /\ b.op = "archive"
    BY StepTyped
  <2> QED
    BY <2>1, <2>2, <2>3, <2>4
<1>2. BeginRun(strict) = <<a, b, c, d>>
  BY DEF BeginRun
<1> HIDE DEF a, b, c, d
<1> DEFINE s == BeginRun(strict)
<1>3. s \in Seq(ScriptSteps) /\ Len(s) = 4 /\ s[1] = a /\ s[2] = b /\ s[3] = c /\ s[4] = d
  BY <1>1, <1>2
<1> HIDE DEF s
<1>4. \A i \in 1..4 : s[i].op \notin {"handoff", "store"} /\ (s[i].op = "archive" => i = 2)
  BY <1>1, <1>3
<1>5. WritesFields(s) /\ ArchivesOnce(s)
  BY <1>3, <1>4 DEF WritesFields, ArchivesOnce
<1> QED
  BY <1>3, <1>5 DEF Scripts, s

\* The scripts of the menus.
RotationScript(k) == BeginRun(FALSE) \o (IF k = "vps" THEN RotateVPS ELSE RotatePanel)

LEMMA RotationTyped == ASSUME NEW k \in Kinds
                       PROVE  RotationScript(k) \in Scripts /\ ArchivesOnce(RotationScript(k))
<1>1. (IF k = "vps" THEN RotateVPS ELSE RotatePanel) \in Quiet
  BY PiecesQuiet
<1> QED
  BY <1>1, BeginArchives, ArchivingJoined DEF RotationScript

\* The wizard in three parts: until the login of the panel is proved, the VPS
\* login, and the rest.
Fronted(plan, fresh) ==
  BeginRun(TRUE) \o One("name the account")
  \o (IF fresh THEN One("install panel") ELSE <<>>)
  \o (IF plan.panel = "change" THEN RotatePanel ELSE <<>>)
  \o ExportPanel(fresh, TRUE)
Proving == <<Do("seed"), Do("restore strictly"), Do("validate panel")>>
VPSLogin(plan) == IF plan.vps = "change" THEN RotateVPS ELSE One("reapply")
Ending == <<Do("form complete"), Do("rest")>>

LEMMA WizardParts ==
  ASSUME NEW plan, NEW fresh
  PROVE  Wizard(plan, fresh) =
    Fronted(plan, fresh) \o Proving \o VPSLogin(plan) \o Ending \o ExportPanel(fresh, FALSE)
  BY Zenon DEF Wizard, Fronted, Proving, VPSLogin, Ending, One

LEMMA ShortQuiet == Proving \in Quiet /\ Ending \in Quiet /\ \A plan : VPSLogin(plan) \in Quiet
<1>1. \A op \in PlainOps :
        Do(op) \in ScriptSteps /\ Do(op).op \notin {"archive", "handoff", "store"}
  BY StepTyped DEF PlainOps
<1>2. Proving \in Quiet
  <2> DEFINE a == Do("seed")
             b == Do("restore strictly")
             c == Do("validate panel")
  <2>1. \A x \in {a, b, c} : x \in ScriptSteps /\ x.op \notin {"archive", "handoff", "store"}
    BY <1>1 DEF PlainOps
  <2>2. Proving = <<a, b, c>>
    BY DEF Proving
  <2> HIDE DEF a, b, c
  <2> QED
    BY <2>1, <2>2 DEF Quiet, Scripts, WritesFields, Archives
<1>3. Ending \in Quiet
  <2> DEFINE a == Do("form complete")
             b == Do("rest")
  <2>1. \A x \in {a, b} : x \in ScriptSteps /\ x.op \notin {"archive", "handoff", "store"}
    BY <1>1 DEF PlainOps
  <2>2. Ending = <<a, b>>
    BY DEF Ending
  <2> HIDE DEF a, b
  <2> QED
    BY <2>1, <2>2 DEF Quiet, Scripts, WritesFields, Archives
<1>4. One("reapply") \in Quiet
  BY OneQuiet DEF PlainOps
<1> QED
  BY <1>2, <1>3, <1>4, PiecesQuiet DEF VPSLogin

LEMMA FrontedTyped ==
  ASSUME NEW plan, NEW fresh \in BOOLEAN
  PROVE  Fronted(plan, fresh) \in Scripts /\ ArchivesOnce(Fronted(plan, fresh))
<1> DEFINE a == IF fresh THEN One("install panel") ELSE <<>>
           b == IF plan.panel = "change" THEN RotatePanel ELSE <<>>
           n == One("name the account")
           e == ExportPanel(fresh, TRUE)
<1>1. a \in Quiet /\ b \in Quiet /\ n \in Quiet /\ e \in Quiet
  BY OneQuiet, PiecesQuiet DEF PlainOps
<1>2. Fronted(plan, fresh) = (((BeginRun(TRUE) \o n) \o a) \o b) \o e
  BY Zenon DEF Fronted
<1> HIDE DEF a, b, n, e
<1> DEFINE p == BeginRun(TRUE) \o n
           q == p \o a
           r == q \o b
<1>3. p \in Scripts /\ ArchivesOnce(p)
  BY <1>1, BeginArchives, ArchivingJoined
<1>4. q \in Scripts /\ ArchivesOnce(q)
  BY <1>1, <1>3, ArchivingJoined
<1>5. r \in Scripts /\ ArchivesOnce(r)
  BY <1>1, <1>4, ArchivingJoined
<1> HIDE DEF r
<1>6. r \o e \in Scripts /\ ArchivesOnce(r \o e)
  BY <1>1, <1>5, ArchivingJoined
<1> QED
  BY <1>2, <1>6 DEF r

LEMMA WizardTyped ==
  ASSUME NEW plan, NEW fresh \in BOOLEAN
  PROVE  Wizard(plan, fresh) \in Scripts /\ ArchivesOnce(Wizard(plan, fresh))
<1> DEFINE p == Fronted(plan, fresh)
           v == VPSLogin(plan)
           x == ExportPanel(fresh, FALSE)
<1>1. v \in Quiet /\ x \in Quiet /\ Proving \in Quiet /\ Ending \in Quiet
  BY ShortQuiet, PiecesQuiet
<1>2. p \in Scripts /\ ArchivesOnce(p)
  BY FrontedTyped
<1>3. Wizard(plan, fresh) = (((p \o Proving) \o v) \o Ending) \o x
  BY WizardParts
<1> HIDE DEF p, v, x
<1> DEFINE q == p \o Proving
           r == q \o v
           s == r \o Ending
<1>4. q \in Scripts /\ ArchivesOnce(q)
  BY <1>1, <1>2, ArchivingJoined
<1>5. r \in Scripts /\ ArchivesOnce(r)
  BY <1>1, <1>4, ArchivingJoined
<1>6. s \in Scripts /\ ArchivesOnce(s)
  BY <1>1, <1>5, ArchivingJoined
<1> HIDE DEF s
<1>7. s \o x \in Scripts /\ ArchivesOnce(s \o x)
  BY <1>1, <1>6, ArchivingJoined
<1> QED
  BY <1>3, <1>7 DEF s

LEMMA OneStepLess ==
  ASSUME NEW s \in Seq(ScriptSteps), s # <<>>
  PROVE  /\ Len(s) \in Nat \ {0} /\ Head(s) = s[1] /\ s[1] \in ScriptSteps
         /\ Tail(s) \in Seq(ScriptSteps) /\ Len(Tail(s)) = Len(s) - 1
         /\ \A i \in 1..(Len(s) - 1) : Tail(s)[i] = s[i + 1] /\ i + 1 \in 1..Len(s)
  OBVIOUS

LEMMA TailTyped ==
  ASSUME NEW s \in Scripts, s # <<>>
  PROVE  /\ Tail(s) \in Scripts /\ (ArchivesOnce(s) => ArchivesOnce(Tail(s)))
         /\ Archives(Tail(s)) => Archives(s)
         /\ Head(s).op = "archive" /\ ArchivesOnce(s) => ~Archives(Tail(s))
         /\ Head(s).op \in {"handoff", "store"} => Head(s).field \in Fields
<1> USE OneStepLess DEF Scripts
<1>1. WritesFields(Tail(s))
  BY DEF WritesFields
<1>2. ArchivesOnce(s) => ArchivesOnce(Tail(s))
  BY DEF ArchivesOnce
<1>3. Archives(Tail(s)) => Archives(s)
  BY DEF Archives
<1>4. ASSUME Head(s).op = "archive", ArchivesOnce(s), NEW i \in 1..(Len(s) - 1),
             Tail(s)[i].op = "archive"
      PROVE  FALSE
  <2>1. s[i + 1].op = "archive" /\ s[1].op = "archive" /\ i + 1 \in 1..Len(s) /\ 1 \in 1..Len(s)
    BY <1>4
  <2> QED
    BY <1>4, <2>1 DEF ArchivesOnce
<1>5. Head(s).op \in {"handoff", "store"} => Head(s).field \in Fields
  BY DEF WritesFields
<1> QED
  BY <1>1, <1>2, <1>3, <1>4, <1>5 DEF Archives

LEMMA Greatest ==
  ASSUME NEW n \in Nat, NEW S, S \subseteq 1..n, S # {}
  PROVE  \E m \in S : \A j \in S : j <= m
<1> DEFINE T == {n - i : i \in S}
           R == OpToRel(<, Nat)
<1>1. T \subseteq Nat /\ T # {}
  <2>1. \A i \in 1..n : n - i \in Nat
    OBVIOUS
  <2>2. \A x \in T : \E i \in S : x = n - i
    OBVIOUS
  <2>3. \A x \in T : x \in Nat
    BY <2>1, <2>2
  <2>4. PICK i \in S : TRUE
    OBVIOUS
  <2>5. n - i \in T
    BY <2>4
  <2> QED
    BY <2>3, <2>5
<1>2. \A x, y \in Nat : <<y, x>> \in R <=> y < x
  BY DEF OpToRel
<1>3. IsWellFoundedOn(R, Nat)
  BY NatLessThanWellFounded
<1> HIDE DEF R
<1>4. PICK x \in T : \A y \in T : <<y, x>> \notin R
  BY <1>1, <1>3, WFMin
<1>5. PICK m \in S : x = n - m
  BY <1>4
<1>6. \A j \in S : n - j \in T /\ n - j \in Nat
  BY <1>1
<1>7. \A j \in S : ~(n - j < n - m)
  BY <1>1, <1>2, <1>4, <1>5, <1>6
<1> QED
  BY <1>7

-----------------------------------------------------------------------------
(* Reading the files of the credentials.                                   *)

Usables == PairNumbers \cup {Nothing}
Archived == {a \in Seq(Files) : Len(a) <= MaxRuns}

LEMMA NumbersUsable ==
  0 \in PairNumbers /\ 1 \in PairNumbers /\ \A p \in PairNumbers : p \in Nat /\ p # Nothing
  BY CredentialsAssumption DEF PairNumbers

\* The greatest of some places of a sequence of files is one of them.
LEMMA Chosen ==
  ASSUME NEW n \in Nat, NEW S, S \subseteq 1..n, S # {}
  PROVE  /\ (CHOOSE i \in S : \A j \in S : j <= i) \in S
         /\ \A j \in S : j <= CHOOSE i \in S : \A k \in S : k <= i
<1>1. PICK m \in S : \A j \in S : j <= m
  BY Greatest
<1> QED
  BY <1>1

LEMMA LastUsableIs ==
  ASSUME NEW fs \in Seq(Files), NEW f \in Fields
  PROVE  /\ LastUsable(fs, f) \in Usables
         /\ Len(fs) > 0 /\ fs[Len(fs)][f] # Nothing => LastUsable(fs, f) = fs[Len(fs)][f]
<1> DEFINE usable == {i \in 1..Len(fs) : fs[i][f] # Nothing}
           i0 == CHOOSE i \in usable : \A j \in usable : j <= i
<1>1. LastUsable(fs, f) = IF usable = {} THEN Nothing ELSE fs[i0][f]
  BY DEF LastUsable
<1>2. Len(fs) \in Nat /\ \A i \in 1..Len(fs) : fs[i] \in Files
  BY LenProperties, ElementOfSeq
<1>3. ASSUME usable # {} PROVE i0 \in usable /\ \A j \in usable : j <= i0
  BY <1>2, <1>3, Chosen
<1> HIDE DEF i0
<1>4. LastUsable(fs, f) \in Usables
  BY <1>1, <1>2, <1>3 DEF Files, Usables
<1>5. ASSUME Len(fs) > 0, fs[Len(fs)][f] # Nothing PROVE LastUsable(fs, f) = fs[Len(fs)][f]
  <2>1. Len(fs) \in usable
    BY <1>2, <1>5
  <2>2. i0 = Len(fs)
    BY <1>2, <1>3, <2>1
  <2> QED
    BY <1>1, <2>1, <2>2
<1> QED
  BY <1>4, <1>5

LEMMA FilesJoined ==
  ASSUME NEW s \in Seq(Files), NEW t \in Seq(Files)
  PROVE  s \o t \in Seq(Files) /\ Len(s \o t) = Len(s) + Len(t)
  BY ConcatProperties

LEMMA CandidatesTyped ==
  ASSUME archive \in Seq(Files), older \in Files, handoff \in Files
  PROVE  Candidates \in Seq(Files)
  BY FilesJoined DEF Candidates

LEMMA EmittedEnds ==
  ASSUME archive \in Seq(Files), older \in Files, handoff \in Files, protected \in Files
  PROVE  /\ Emitted \in Seq(Files) /\ Len(Emitted) \in Nat /\ Len(Emitted) > 0
         /\ Emitted[Len(Emitted)] = protected
<1> DEFINE s == <<older>> \o archive
           t == <<handoff, protected>>
<1>1. s \in Seq(Files) /\ Len(s) \in Nat
  BY FilesJoined, LenProperties
<1>2. t \in Seq(Files) /\ Len(t) = 2 /\ t[2] = protected
  OBVIOUS
<1> HIDE DEF s, t
<1>3. /\ s \o t \in Seq(Files) /\ Len(s \o t) = Len(s) + 2
      /\ (s \o t)[Len(s) + 2] = t[2]
  <2>1. \A i \in 1 .. Len(s) + Len(t) : (s \o t)[i] = IF i <= Len(s) THEN s[i] ELSE t[i - Len(s)]
    BY <1>1, <1>2, ConcatProperties
  <2>2. Len(s) + 2 \in 1..(Len(s) + Len(t)) /\ ~(Len(s) + 2 <= Len(s)) /\ Len(s) + 2 - Len(s) = 2
    BY <1>1, <1>2
  <2>3. (s \o t)[Len(s) + 2] = t[2]
    BY <2>1, <2>2
  <2>4. s \o t \in Seq(Files) /\ Len(s \o t) = Len(s) + Len(t)
    BY <1>1, <1>2, FilesJoined
  <2> QED
    BY <1>2, <2>3, <2>4
<1>4. Emitted = s \o t
  BY DEF Emitted, s, t
<1> QED
  BY <1>1, <1>2, <1>3, <1>4

LEMMA FilledTyped ==
  ASSUME NEW file \in Files, NEW source \in Files
  PROVE  /\ Filled(file, source) \in Files
         /\ \A f \in Fields : file[f] # Nothing => Filled(file, source)[f] = file[f]
  BY DEF Filled, Files

LEMMA BlankTyped == Blank \in Files
  BY DEF Blank, Files

LEMMA NewestTyped ==
  ASSUME archive \in Seq(Files), older \in Files, handoff \in Files, NEW k
  PROVE  NewestWhole(k) \in Files
<1> DEFINE whole == {i \in 1..Len(Candidates) : Whole(Candidates[i], k)}
           i0 == CHOOSE i \in whole : \A j \in whole : j <= i
<1>1. NewestWhole(k) = IF whole = {} THEN Blank ELSE Candidates[i0]
  BY DEF NewestWhole
<1>2. Candidates \in Seq(Files)
  BY CandidatesTyped
<1>3. Len(Candidates) \in Nat /\ \A i \in 1..Len(Candidates) : Candidates[i] \in Files
  BY <1>2, LenProperties, ElementOfSeq
<1>4. ASSUME whole # {} PROVE i0 \in whole
  BY <1>3, <1>4, Chosen
<1> HIDE DEF i0
<1> QED
  BY <1>1, <1>3, <1>4, BlankTyped

\* Seeding the protected store fills what is empty, and nothing else.
LEMMA SeededKeeps ==
  ASSUME archive \in Seq(Files), older \in Files, handoff \in Files, protected \in Files
  PROVE  /\ Seeded \in Files
         /\ \A f \in Fields : protected[f] # Nothing => Seeded[f] = protected[f]
<1>1. ASSUME NEW k
      PROVE  /\ SeedPair(k) \in Files
             /\ \A f \in Fields : protected[f] # Nothing => SeedPair(k)[f] = protected[f]
  <2> DEFINE source == IF Whole(older, k) THEN older ELSE Blank
             last == [f \in Fields |-> LastUsable(Candidates, f)]
             anchored == Filled(protected, source)
             whole == Filled(anchored, NewestWhole(k))
             pair == Filled(whole, last)
  <2>1. source \in Files
    BY BlankTyped
  <2>2. last \in Files
    BY CandidatesTyped, LastUsableIs DEF Files, Usables
  <2>3. NewestWhole(k) \in Files
    BY NewestTyped
  <2>4. SeedPair(k) = IF Whole(pair, k) THEN pair ELSE protected
    BY DEF SeedPair
  <2> HIDE DEF source, last
  <2>5. /\ anchored \in Files
        /\ \A f \in Fields : protected[f] # Nothing => anchored[f] = protected[f]
    BY <2>1, FilledTyped
  <2> HIDE DEF anchored
  <2>6. whole \in Files /\ \A f \in Fields : protected[f] # Nothing => whole[f] = protected[f]
    BY <2>3, <2>5, FilledTyped
  <2> HIDE DEF whole
  <2>7. pair \in Files /\ \A f \in Fields : protected[f] # Nothing => pair[f] = protected[f]
    BY <2>2, <2>6, FilledTyped
  <2> HIDE DEF pair
  <2> QED
    BY <2>4, <2>7
<1> QED
  BY <1>1 DEF Seeded, Files

LEMMA WithPairTyped ==
  ASSUME NEW file \in Files, NEW k \in Kinds, NEW p \in Usables
  PROVE  WithPair(file, k, p) \in Files
  BY NumbersUsable DEF WithPair, Written, Files, Usables, Fields

LEMMA RetainedTyped ==
  ASSUME archive \in Seq(Files), older \in Files, handoff \in Files, protected \in Files,
         NEW f \in Fields
  PROVE  Retained(f) \in Usables
  BY CandidatesTyped, LastUsableIs DEF Retained, Files, Usables

LEMMA ExportedTyped ==
  ASSUME archive \in Seq(Files), older \in Files, handoff \in Files, protected \in Files
  PROVE  /\ Exported \in Files
         /\ \A f \in Fields : protected[f] # Nothing => Exported[f] = protected[f]
  BY EmittedEnds, LastUsableIs DEF Exported, Files, Usables

-----------------------------------------------------------------------------
(* Types.                                                                  *)

Snapshots ==
  [inForce : [Kinds -> Usables], installer : Usables, handoff : Files,
   archive : Archived, protected : Files]
NodeTyped ==
  /\ inForce \in [Kinds -> Usables] /\ inForce["vps"] \in PairNumbers
  /\ issued \in PairNumbers /\ installer \in Usables
FilesTyped ==
  /\ handoff \in Files /\ protected \in Files /\ older \in Files /\ form \in Files
  /\ archive \in Archived
\* There is room in the archive for the handoff a script has still to archive.
ScriptTyped ==
  /\ script \in Scripts /\ ArchivesOnce(script)
  /\ Archives(script) => Len(archive) < MaxRuns
RequestTyped ==
  /\ outcome \in {"none", "running", "failed", "killed", "shown", "rolled back"}
  /\ menu \in {"none", "show", "construct", "vps", "panel"}
SavedTyped ==
  saved = Nothing \/ (saved \in Snapshots /\ saved.inForce["vps"] \in PairNumbers)
CredentialsTyped ==
  NodeTyped /\ FilesTyped /\ ScriptTyped /\ RequestTyped /\ SavedTyped

LEMMA ArchivedIs ==
  CredentialsTyped => archive \in Seq(Files) /\ Len(archive) \in Nat /\ Len(archive) <= MaxRuns
  BY LenProperties DEF CredentialsTyped, FilesTyped, Archived

LEMMA NextPair ==
  ASSUME NEW n \in PairNumbers, n < MaxPairs PROVE n + 1 \in PairNumbers /\ n + 1 \in Usables
<1>1. n + 1 \in PairNumbers
  BY CredentialsAssumption DEF PairNumbers
<1> QED
  BY <1>1 DEF Usables

LEMMA EmptyScript == <<>> \in Scripts /\ ArchivesOnce(<<>>) /\ ~Archives(<<>>)
  BY DEF Scripts, WritesFields, ArchivesOnce, Archives

LEMMA CredentialsStart == CredentialsInit => CredentialsTyped
<1> SUFFICES ASSUME CredentialsInit PROVE CredentialsTyped
  OBVIOUS
<1> USE NumbersUsable, CredentialsAssumption DEF CredentialsInit
<1>1. NodeTyped
  BY DEF NodeTyped, Kinds, Usables
<1>2. older \in Files
  BY DEF Files, Written, Usables, Fields
<1>3. FilesTyped
  BY <1>2, BlankTyped DEF FilesTyped, Archived
<1>4. ScriptTyped
  BY EmptyScript DEF ScriptTyped
<1> QED
  BY <1>1, <1>3, <1>4 DEF RequestTyped, SavedTyped, CredentialsTyped

\* What every step of a script leaves alone, and what it leaves of the script.
Stepped ==
  /\ script # <<>> /\ script' = Tail(script)
  /\ UNCHANGED <<older, menu, saved, outcome, form>>

LEMMA SteppedTyped ==
  ASSUME CredentialsTyped, Stepped, NodeTyped', handoff' \in Files, protected' \in Files,
         UNCHANGED archive \/ (Head(script).op = "archive" /\ archive' \in Archived)
  PROVE  CredentialsTyped'
<1> USE DEF CredentialsTyped, Stepped
<1>1. FilesTyped'
  BY DEF FilesTyped
<1>2. script \in Scripts /\ ArchivesOnce(script)
  BY DEF ScriptTyped
<1>3. /\ Tail(script) \in Scripts /\ ArchivesOnce(Tail(script))
      /\ Archives(Tail(script)) => Archives(script)
      /\ Head(script).op = "archive" => ~Archives(Tail(script))
  BY <1>2, TailTyped
<1>4. ScriptTyped'
  BY <1>3 DEF ScriptTyped
<1>5. RequestTyped' /\ SavedTyped'
  BY DEF RequestTyped, SavedTyped
<1> QED
  BY <1>1, <1>4, <1>5

LEMMA ScriptStepTyped == ASSUME CredentialsTyped, ScriptStep PROVE CredentialsTyped'
<1> USE NumbersUsable
<1>a. /\ archive \in Seq(Files) /\ older \in Files /\ handoff \in Files /\ protected \in Files
      /\ archive \in Archived /\ NodeTyped
  BY ArchivedIs DEF CredentialsTyped, FilesTyped
<1>n. ASSUME UNCHANGED <<inForce, issued, installer>> PROVE NodeTyped'
  BY <1>a, <1>n DEF NodeTyped
<1>s. Advances /\ ScriptRuns /\ script # <<>> => Stepped
  BY DEF Advances, Stepped, request
<1>t. ASSUME Stepped, NodeTyped', handoff' \in Files, protected' \in Files, UNCHANGED archive
      PROVE  CredentialsTyped'
  BY <1>t, SteppedTyped
<1>1. CASE SeedStore
  BY <1>1, <1>a, <1>n, <1>s, <1>t, SeededKeeps DEF SeedStore, At
<1>2. CASE ArchiveHandoff
  <2>1. Head(script).op = "archive" /\ Stepped
    BY <1>2, <1>s DEF ArchiveHandoff, At
  <2>2. Len(archive) < MaxRuns
    <3>1. script \in Seq(ScriptSteps) /\ Archives(script) => Len(archive) < MaxRuns
      BY DEF CredentialsTyped, ScriptTyped, Scripts
    <3>2. Archives(script)
      BY <2>1, <3>1, OneStepLess DEF Stepped, Archives, CredentialsTyped, ScriptTyped,
         Scripts
    <3> QED
      BY <3>1, <3>2 DEF CredentialsTyped, ScriptTyped, Scripts
  <2>3. archive' \in Archived
    <3>1. Append(archive, handoff) \in Archived
      BY <1>a, <2>2, AppendProperties, LenProperties, CredentialsAssumption DEF Archived
    <3> QED
      BY <1>2, <1>a, <3>1 DEF ArchiveHandoff
  <2> QED
    BY <1>2, <1>a, <1>n, <2>1, <2>3, SteppedTyped DEF ArchiveHandoff
<1>3. CASE TruncateHandoff
  BY <1>3, <1>a, <1>n, <1>s, <1>t, BlankTyped DEF TruncateHandoff, At
<1>4. CASE RestoreHandoff
  BY <1>4, <1>a, <1>n, <1>s, <1>t, FilledTyped DEF RestoreHandoff, At, Restored
<1>5. CASE SetField
  <2> DEFINE f == Head(script).field
             value == Written(f[1], inForce[f[1]], f[2])
  <2>1. Stepped /\ f \in Fields
    BY <1>5, <1>s, TailTyped DEF SetField, At, CredentialsTyped, ScriptTyped
  <2>2. value \in Usables
    BY <1>a, <2>1 DEF Written, NodeTyped, Fields, Usables
  <2>3. \/ handoff' = [handoff EXCEPT ![f] = value] /\ UNCHANGED protected
        \/ protected' = [protected EXCEPT ![f] = value] /\ UNCHANGED handoff
    BY <1>5 DEF SetField
  <2> HIDE DEF f, value
  <2>4. handoff' \in Files /\ protected' \in Files
    BY <1>a, <2>1, <2>2, <2>3 DEF Files, Usables
  <2> QED
    BY <1>5, <1>n, <1>t, <2>1, <2>4 DEF SetField
<1>6. CASE NameAccount
  <2>1. [handoff EXCEPT ![<<"vps", "user">>] = 0] \in Files
    BY <1>a DEF Files
  <2> QED
    BY <1>6, <1>a, <1>n, <1>s, <1>t, <2>1 DEF NameAccount, At
<1>7. ASSUME NEW k \in Kinds, ChangeLogin(k) PROVE CredentialsTyped'
  <2>1. issued' \in PairNumbers /\ issued' \in Usables
    BY <1>7, <1>a, NextPair DEF ChangeLogin, NodeTyped
  <2>2. NodeTyped'
    BY <1>7, <1>a, <2>1 DEF ChangeLogin, NodeTyped, Kinds
  <2>3. Stepped /\ UNCHANGED files
    BY <1>7, <1>s DEF ChangeLogin, At
  <2> QED
    BY <1>a, <1>t, <2>2, <2>3 DEF files
<1>8. CASE CheckPanel
  BY <1>8, <1>a, <1>n, <1>s, <1>t DEF CheckPanel, At, files
<1>9. CASE InstallPanel
  <2>1. issued' \in PairNumbers /\ issued' \in Usables
    BY <1>9, <1>a, NextPair DEF InstallPanel, NodeTyped
  <2>2. NodeTyped'
    BY <1>9, <1>a, <2>1 DEF InstallPanel, NodeTyped, Kinds
  <2> QED
    BY <1>9, <1>a, <1>s, <1>t, <2>2 DEF InstallPanel, At, files
<1>10. CASE InstallersHandoff
  <2>1. WithPair(handoff, "panel", installer) \in Files
    BY <1>a, WithPairTyped DEF NodeTyped, Kinds
  <2> QED
    BY <1>10, <1>a, <1>n, <1>s, <1>t, <2>1 DEF InstallersHandoff, At
<1>11. CASE InstallersStore
  <2>1. [f \in Fields |-> IF f[1] = "panel" THEN handoff[f] ELSE protected[f]] \in Files
    BY <1>a DEF Files
  <2> QED
    BY <1>11, <1>a, <1>n, <1>s, <1>t, <2>1 DEF InstallersStore, At
<1>12. CASE ValidatePanel
  <2>1. [f \in Fields |-> IF f[1] = "panel" THEN Retained(f) ELSE protected[f]] \in Files
    BY <1>a, RetainedTyped DEF Files, Usables
  <2> QED
    BY <1>12, <1>a, <1>n, <1>s, <1>t, <2>1 DEF ValidatePanel, At
<1>13. CASE Reapply
  <2> DEFINE p == protected[<<"vps", "password">>]
  <2>1. p \in PairNumbers /\ p \in Usables
    BY <1>13, <1>a DEF Reapply, MayReapply, Files, Fields, Kinds, Halves, Usables
  <2>2. WithPair(handoff, "vps", p) \in Files
    BY <1>a, <2>1, WithPairTyped DEF Kinds
  <2>3. NodeTyped'
    BY <1>13, <1>a, <2>1 DEF Reapply, Reapplied, NodeTyped, Kinds
  <2> QED
    BY <1>13, <1>a, <1>s, <1>t, <2>2, <2>3 DEF Reapply, At
<1>14. CASE CheckForm \/ RestOfWizard
  BY <1>14, <1>a, <1>n, <1>s, <1>t DEF CheckForm, RestOfWizard, At, files
<1> QED
  BY <1>1, <1>2, <1>3, <1>4, <1>5, <1>6, <1>7, <1>8, <1>9, <1>10, <1>11, <1>12, <1>13, <1>14
     DEF ScriptStep, Kinds

LEMMA CredentialsTypedStep ==
  ASSUME CredentialsTyped, [CredentialsNext]_credentialVars PROVE CredentialsTyped'
<1> USE DEF CredentialsTyped
<1>a. ASSUME UNCHANGED <<inForce, issued, installer>> PROVE NodeTyped'
  BY <1>a DEF NodeTyped
<1>b. ASSUME UNCHANGED <<handoff, archive, protected, older, form>> PROVE FilesTyped'
  BY <1>b DEF FilesTyped
<1>c. ASSUME script' = script \/ script' = <<>>, UNCHANGED archive PROVE ScriptTyped'
  BY <1>c, EmptyScript DEF ScriptTyped
<1>d. ASSUME UNCHANGED saved PROVE SavedTyped'
  BY <1>d DEF SavedTyped
<1>e. ASSUME NEW s, s \in Scripts, ArchivesOnce(s), Len(archive) < MaxRuns,
             script' = s, UNCHANGED archive
      PROVE  ScriptTyped'
  BY <1>e DEF ScriptTyped
<1>1. CASE ScriptStep
  BY <1>1, ScriptStepTyped
<1>2. CASE ScriptRefuses \/ ScriptFails \/ ProgramKilledHere \/ ReturnsToMenu
  <2>1. RequestTyped'
    BY <1>2 DEF ScriptRefuses, ScriptFails, ProgramKilledHere, ReturnsToMenu, RequestTyped
  <2>2. UNCHANGED <<inForce, issued, installer, handoff, archive, protected, older, form, saved>>
    BY <1>2 DEF ScriptRefuses, ScriptFails, ProgramKilledHere, ReturnsToMenu, files
  <2>3. script' = script \/ script' = <<>>
    BY <1>2 DEF ScriptRefuses, ScriptFails, ProgramKilledHere, ReturnsToMenu
  <2> QED
    BY <1>a, <1>b, <1>c, <1>d, <2>1, <2>2, <2>3
<1>3. ASSUME NEW k \in Kinds, StartRotation(k) PROVE CredentialsTyped'
  <2>1. script' = RotationScript(k) /\ Len(archive) < MaxRuns /\ UNCHANGED archive
    BY <1>3 DEF StartRotation, RotationScript, Enough, files
  <2>2. ScriptTyped'
    BY <1>e, <2>1, RotationTyped
  <2>3. RequestTyped'
    BY <1>3 DEF StartRotation, RequestTyped, Kinds
  <2>4. UNCHANGED <<inForce, issued, installer, handoff, archive, protected, older, form, saved>>
    BY <1>3 DEF StartRotation, files
  <2> QED
    BY <1>a, <1>b, <1>d, <2>2, <2>3, <2>4
<1>4. CASE StartConstruction
  <2> DEFINE fresh == inForce["panel"] = Nothing
  <2>1. PICK plan : script' = Wizard(plan, fresh)
    BY <1>4 DEF StartConstruction
  <2>2. Len(archive) < MaxRuns /\ UNCHANGED archive
    BY <1>4 DEF StartConstruction, Enough, files
  <2>3. Wizard(plan, fresh) \in Scripts /\ ArchivesOnce(Wizard(plan, fresh))
    BY WizardTyped
  <2>4. ScriptTyped'
    BY <1>e, <2>1, <2>2, <2>3
  <2>5. RequestTyped'
    BY <1>4 DEF StartConstruction, RequestTyped
  <2>6. saved' = Snapshot
    BY <1>4 DEF StartConstruction
  <2>7. /\ Snapshot \in Snapshots /\ Snapshot.inForce["vps"] \in PairNumbers
    BY DEF Snapshot, Snapshots, NodeTyped, FilesTyped
  <2>8. SavedTyped'
    BY <2>6, <2>7 DEF SavedTyped
  <2>9. UNCHANGED <<inForce, issued, installer, handoff, archive, protected, older, form>>
    BY <1>4 DEF StartConstruction, files
  <2> QED
    BY <1>a, <1>b, <2>4, <2>5, <2>8, <2>9
<1>5. CASE ShowHandoff
  <2>1. RequestTyped' /\ script' = <<>>
    BY <1>5 DEF ShowHandoff, RequestTyped
  <2>2. UNCHANGED <<inForce, issued, installer, handoff, archive, protected, older, form, saved>>
    BY <1>5 DEF ShowHandoff, files
  <2> QED
    BY <1>a, <1>b, <1>c, <1>d, <2>1, <2>2
<1>6. CASE ShowForm
  <2>1. Exported \in Files
    BY ArchivedIs, ExportedTyped DEF FilesTyped
  <2>2. FilesTyped'
    BY <1>6, <2>1 DEF ShowForm, FilesTyped, files
  <2>3. RequestTyped'
    BY <1>6 DEF ShowForm, RequestTyped
  <2>4. UNCHANGED <<inForce, issued, installer, archive, script, saved>>
    BY <1>6 DEF ShowForm, files
  <2> QED
    BY <1>a, <1>c, <1>d, <2>2, <2>3, <2>4
<1>7. CASE CommitsConstruction
  <2>1. RequestTyped' /\ SavedTyped'
    BY <1>7 DEF CommitsConstruction, RequestTyped, SavedTyped
  <2>2. UNCHANGED <<inForce, issued, installer, handoff, archive, protected, older, form, script>>
    BY <1>7 DEF CommitsConstruction, files
  <2> QED
    BY <1>a, <1>b, <1>c, <2>1, <2>2
<1>8. CASE UndoConstruction
  <2>1. saved \in Snapshots /\ saved.inForce["vps"] \in PairNumbers
    BY <1>8 DEF UndoConstruction, SavedTyped
  <2>2. NodeTyped'
    BY <1>8, <2>1 DEF UndoConstruction, RolledBack, NodeTyped, Snapshots, Kinds
  <2>3. FilesTyped'
    BY <1>8, <2>1 DEF UndoConstruction, FilesTyped, Snapshots
  <2>4. ScriptTyped'
    BY <1>8, <2>1, EmptyScript DEF UndoConstruction, ScriptTyped
  <2>5. RequestTyped' /\ SavedTyped'
    BY <1>8 DEF UndoConstruction, RequestTyped, SavedTyped
  <2> QED
    BY <2>2, <2>3, <2>4, <2>5
<1>9. CASE UNCHANGED credentialVars
  <2>1. RequestTyped' /\ SavedTyped'
    BY <1>9 DEF credentialVars, RequestTyped, SavedTyped
  <2> QED
    BY <1>9, <1>a, <1>b, <1>c, <2>1 DEF credentialVars
<1> QED
  BY <1>1, <1>2, <1>3, <1>4, <1>5, <1>6, <1>7, <1>8, <1>9 DEF CredentialsNext, Kinds

\* The pairs in force and in the files are pairs, and the archive keeps its
\* bound, whatever scripts were cut, failed or rolled back.
THEOREM CredentialsTypeCorrect == CredentialsSpec => []NTypeOK
<1>1. CredentialsTyped => NTypeOK
  BY ArchivedIs DEF CredentialsTyped, NodeTyped, FilesTyped, RequestTyped, NTypeOK,
     Usables, Kinds
<1> QED
  BY <1>1, CredentialsStart, CredentialsTypedStep, PTL DEF CredentialsSpec

-----------------------------------------------------------------------------
(* What the form says.                                                     *)

\* The step of a script that its head names.
LEMMA StepOp ==
  /\ SeedStore => Head(script).op = "seed"
  /\ ArchiveHandoff => Head(script).op = "archive"
  /\ TruncateHandoff => Head(script).op = "truncate"
  /\ RestoreHandoff => Head(script).op \in {"restore", "restore strictly"}
  /\ SetField => Head(script).op \in {"handoff", "store"}
  /\ NameAccount => Head(script).op = "name the account"
  /\ ChangeLogin("vps") => Head(script).op = "change vps"
  /\ ChangeLogin("panel") => Head(script).op = "change panel"
  /\ CheckPanel => Head(script).op = "check panel"
  /\ InstallPanel => Head(script).op = "install panel"
  /\ InstallersHandoff => Head(script).op = "installer's handoff"
  /\ InstallersStore => Head(script).op = "installer's store"
  /\ ValidatePanel => Head(script).op = "validate panel"
  /\ Reapply => Head(script).op = "reapply"
  /\ CheckForm => Head(script).op = "form complete"
  /\ RestOfWizard => Head(script).op = "rest"
<1> USE DEF At
<1>1. /\ SeedStore => Head(script).op = "seed"
      /\ ArchiveHandoff => Head(script).op = "archive"
      /\ TruncateHandoff => Head(script).op = "truncate"
      /\ RestoreHandoff => Head(script).op \in {"restore", "restore strictly"}
  BY DEF SeedStore, ArchiveHandoff, TruncateHandoff, RestoreHandoff
<1>2. /\ SetField => Head(script).op \in {"handoff", "store"}
      /\ NameAccount => Head(script).op = "name the account"
      /\ ChangeLogin("vps") => Head(script).op = "change vps"
      /\ ChangeLogin("panel") => Head(script).op = "change panel"
  BY DEF SetField, NameAccount, ChangeLogin
<1>3. /\ CheckPanel => Head(script).op = "check panel"
      /\ InstallPanel => Head(script).op = "install panel"
      /\ InstallersHandoff => Head(script).op = "installer's handoff"
      /\ InstallersStore => Head(script).op = "installer's store"
  BY DEF CheckPanel, InstallPanel, InstallersHandoff, InstallersStore
<1>4. /\ ValidatePanel => Head(script).op = "validate panel"
      /\ Reapply => Head(script).op = "reapply"
      /\ CheckForm => Head(script).op = "form complete"
      /\ RestOfWizard => Head(script).op = "rest"
  BY DEF ValidatePanel, Reapply, CheckForm, RestOfWizard
<1> QED
  BY <1>1, <1>2, <1>3, <1>4

\* A half of a login is stored; the steps that store it, and those that make
\* what is stored stale.
Stored(k, h) ==
  inForce[k] # Nothing /\ protected[<<k, h>>] = Written(k, inForce[k], h)
Makes(step, k, h) ==
  \/ step.op = "store" /\ step.field = <<k, h>>
  \/ k = "panel" /\ step.op = "validate panel"
  \/ k = "vps" /\ step.op = "reapply"
Spoils(step, k) ==
  \/ k = "vps" /\ step.op = "change vps"
  \/ k = "panel" /\ step.op \in {"change panel", "install panel", "installer's store"}
Safe(k, s) == \A i \in 1..Len(s) : ~Spoils(s[i], k)
Will(k, h, s) ==
  \E i \in 1..Len(s) : Makes(s[i], k, h) /\ \A j \in 1..Len(s) : i < j => ~Spoils(s[j], k)

\* In a script that goes to its end, what the form is read from is stored by a
\* step to come, or is stored already and stays so.
FormReady(k) ==
  /\ inForce[k] # Nothing
  /\ \A h \in Halves : Will(k, h, script) \/ (Stored(k, h) /\ Safe(k, script))

LEMMA SafeJoined ==
  ASSUME NEW s \in Seq(ScriptSteps), NEW t \in Seq(ScriptSteps), NEW k, Safe(k, s), Safe(k, t)
  PROVE  Safe(k, s \o t)
  BY Joined DEF Safe

LEMMA WillJoined ==
  ASSUME NEW s \in Seq(ScriptSteps), NEW t \in Seq(ScriptSteps), NEW k, NEW h
  PROVE  /\ Will(k, h, t) => Will(k, h, s \o t)
         /\ Will(k, h, s) /\ Safe(k, t) => Will(k, h, s \o t)
<1> DEFINE n == Len(s)
           m == Len(t)
           u == s \o t
<1>1. /\ n \in Nat /\ m \in Nat /\ Len(u) = n + m
      /\ \A i \in 1..n : u[i] = s[i]
      /\ \A i \in 1..m : u[n + i] = t[i]
      /\ \A i \in 1..(n + m) : i \in 1..n \/ \E j \in 1..m : i = n + j
  BY Joined
<1> HIDE DEF n, m, u
<1>2. ASSUME Will(k, h, t) PROVE Will(k, h, u)
  <2>1. PICK i \in 1..m : Makes(t[i], k, h) /\ \A j \in 1..m : i < j => ~Spoils(t[j], k)
    BY <1>2 DEF Will, m
  <2>2. n + i \in 1..(n + m) /\ Makes(u[n + i], k, h)
    BY <1>1, <2>1
  <2>3. ASSUME NEW j \in 1..(n + m), n + i < j PROVE ~Spoils(u[j], k)
    <3>1. PICK l \in 1..m : j = n + l
      BY <1>1, <2>3
    <3>2. i < l
      BY <1>1, <2>3, <3>1
    <3> QED
      BY <1>1, <2>1, <3>1, <3>2
  <2> QED
    BY <1>1, <2>2, <2>3 DEF Will
<1>3. ASSUME Will(k, h, s), Safe(k, t) PROVE Will(k, h, u)
  <2>1. PICK i \in 1..n : Makes(s[i], k, h) /\ \A j \in 1..n : i < j => ~Spoils(s[j], k)
    BY <1>3 DEF Will, n
  <2>2. i \in 1..(n + m) /\ Makes(u[i], k, h)
    BY <1>1, <2>1
  <2>3. \A j \in 1..m : ~Spoils(t[j], k)
    BY <1>3 DEF Safe, m
  <2>4. ASSUME NEW j \in 1..(n + m), i < j PROVE ~Spoils(u[j], k)
    BY <1>1, <2>1, <2>3, <2>4
  <2> QED
    BY <1>1, <2>2, <2>4 DEF Will
<1> QED
  BY <1>2, <1>3 DEF u

LEMMA OneSafe ==
  ASSUME NEW k, NEW op \in PlainOps, ~Spoils(Do(op), k) PROVE Safe(k, One(op))
  BY DEF Safe, One

LEMMA OneMakes ==
  ASSUME NEW k, NEW h, NEW op \in PlainOps, Makes(Do(op), k, h) PROVE Will(k, h, One(op))
<1>1. Len(One(op)) = 1 /\ One(op)[1] = Do(op)
  BY DEF One
<1> QED
  BY <1>1 DEF Will

LEMMA RecordedStores ==
  ASSUME NEW k \in Kinds
  PROVE  /\ Recorded(k) \in Seq(ScriptSteps) /\ Len(Recorded(k)) = 4
         /\ \A i \in 1..2 : Recorded(k)[i].op = "handoff"
         /\ \A i \in 3..4 : Recorded(k)[i].op = "store"
         /\ \A l \in Kinds : Safe(l, Recorded(k))
         /\ \A h \in Halves : Will(k, h, Recorded(k))
<1> DEFINE a == Sets("handoff", k, "user")
           b == Sets("handoff", k, "password")
           c == Sets("store", k, "user")
           d == Sets("store", k, "password")
           s == Recorded(k)
<1>1. /\ a \in ScriptSteps /\ b \in ScriptSteps /\ c \in ScriptSteps /\ d \in ScriptSteps
      /\ a.op = "handoff" /\ b.op = "handoff" /\ c.op = "store" /\ d.op = "store"
      /\ c.field = <<k, "user">> /\ d.field = <<k, "password">>
  BY StepTyped DEF FieldOps, Halves
<1>2. s = <<a, b, c, d>>
  BY DEF Recorded
<1> HIDE DEF a, b, c, d, s
<1>3. s \in Seq(ScriptSteps) /\ Len(s) = 4 /\ s[1] = a /\ s[2] = b /\ s[3] = c /\ s[4] = d
  BY <1>1, <1>2
<1>4. \A i \in 1..4 : s[i].op \in {"handoff", "store"}
  BY <1>1, <1>3
<1>5. \A l \in Kinds : Safe(l, s)
  BY <1>3, <1>4 DEF Safe, Spoils
<1>6. Makes(s[3], k, "user") /\ Makes(s[4], k, "password")
  BY <1>1, <1>3 DEF Makes
<1>7. \A j \in 1..4 : ~Spoils(s[j], k)
  BY <1>3, <1>5 DEF Safe
<1>8. \A h \in Halves : Will(k, h, s)
  BY <1>3, <1>6, <1>7 DEF Will, Halves
<1>9. (\A i \in 1..2 : s[i].op = "handoff") /\ (\A i \in 3..4 : s[i].op = "store")
  BY <1>1, <1>3
<1> QED
  BY <1>3, <1>5, <1>8, <1>9 DEF s

LEMMA RotationHolds ==
  ASSUME NEW k \in Kinds, NEW h \in Halves
  PROVE  /\ Will(k, h, IF k = "vps" THEN RotateVPS ELSE RotatePanel)
         /\ Will(k, h, RotationScript(k))
<1>1. \A op \in PlainOps : One(op) \in Seq(ScriptSteps) /\ Do(op).op = op
  BY OneQuiet, StepTyped DEF Quiet, Scripts
<1>2. Will("vps", h, RotateVPS)
  <2>1. RotateVPS = One("change vps") \o Recorded("vps")
    BY DEF RotateVPS, One
  <2> QED
    BY <1>1, <2>1, RecordedStores, WillJoined DEF Kinds, PlainOps
<1>3. Will("panel", h, RotatePanel)
  <2> DEFINE s == One("change panel") \o Recorded("panel")
  <2>1. RotatePanel = s \o One("check panel")
    BY DEF RotatePanel, One
  <2>2. s \in Seq(ScriptSteps) /\ Will("panel", h, s)
    BY <1>1, RecordedStores, WillJoined, Joined DEF Kinds, PlainOps
  <2>3. Safe("panel", One("check panel"))
    BY <1>1, OneSafe DEF PlainOps, Spoils
  <2> HIDE DEF s
  <2> QED
    BY <1>1, <2>1, <2>2, <2>3, WillJoined DEF PlainOps
<1>4. Will(k, h, IF k = "vps" THEN RotateVPS ELSE RotatePanel)
  BY <1>2, <1>3 DEF Kinds
<1>5. /\ (IF k = "vps" THEN RotateVPS ELSE RotatePanel) \in Seq(ScriptSteps)
      /\ BeginRun(FALSE) \in Seq(ScriptSteps)
  BY PiecesQuiet, BeginArchives DEF Quiet, Scripts
<1>6. Will(k, h, RotationScript(k))
  BY <1>4, <1>5, WillJoined DEF RotationScript
<1> QED
  BY <1>4, <1>6

LEMMA RestSafe ==
  /\ \A k \in Kinds : Safe(k, Ending) /\ Safe(k, ExportPanel(FALSE, FALSE))
  /\ \A plan : Safe("panel", VPSLogin(plan))
<1>1. \A op \in PlainOps : One(op) \in Seq(ScriptSteps) /\ Do(op).op = op
  BY OneQuiet, StepTyped DEF Quiet, Scripts
<1>2. ASSUME NEW k \in Kinds PROVE Safe(k, Ending)
  <2>1. /\ Len(Ending) = 2 /\ Ending[1].op = "form complete" /\ Ending[2].op = "rest"
    BY DEF Ending, Do
  <2>2. ASSUME NEW i \in 1..2 PROVE Ending[i].op \in {"form complete", "rest"}
    <3>1. i = 1 \/ i = 2
      OBVIOUS
    <3> QED
      BY <2>1, <3>1
  <2> QED
    BY <2>1, <2>2 DEF Safe, Spoils
<1>3. ASSUME NEW k \in Kinds PROVE Safe(k, ExportPanel(FALSE, FALSE))
  <2>1. ExportPanel(FALSE, FALSE) = ((<<>> \o One("seed")) \o <<>>) \o One("restore")
    BY Zenon DEF ExportPanel, One
  <2>2. Safe(k, <<>>) /\ <<>> \in Seq(ScriptSteps)
    BY DEF Safe
  <2>3. Safe(k, One("seed")) /\ Safe(k, One("restore"))
    BY <1>1, OneSafe DEF PlainOps, Spoils
  <2> DEFINE a == <<>> \o One("seed")
             b == a \o <<>>
  <2>4. a \in Seq(ScriptSteps) /\ Safe(k, a)
    BY <1>1, <2>2, <2>3, SafeJoined, Joined DEF PlainOps
  <2>5. b \in Seq(ScriptSteps) /\ Safe(k, b)
    BY <2>2, <2>4, SafeJoined, Joined
  <2> HIDE DEF b
  <2>6. Safe(k, b \o One("restore"))
    BY <1>1, <2>3, <2>5, SafeJoined DEF PlainOps
  <2> QED
    BY <2>1, <2>6 DEF b
<1>4. ASSUME NEW plan PROVE Safe("panel", VPSLogin(plan))
  <2>1. RotateVPS = One("change vps") \o Recorded("vps")
    BY DEF RotateVPS, One
  <2>2. Safe("panel", One("change vps")) /\ Safe("panel", One("reapply"))
    BY <1>1, OneSafe DEF PlainOps, Spoils
  <2>3. Safe("panel", RotateVPS)
    BY <1>1, <2>1, <2>2, SafeJoined, RecordedStores DEF PlainOps, Kinds
  <2> QED
    BY <2>2, <2>3 DEF VPSLogin
<1> QED
  BY <1>2, <1>3, <1>4

\* The wizard proves the login of the panel, and then stores that of the VPS
\* or sets it from the store.
LEMMA WizardHolds ==
  ASSUME NEW plan, NEW k \in Kinds, NEW h \in Halves
  PROVE  Will(k, h, Wizard(plan, FALSE))
<1> DEFINE p == Fronted(plan, FALSE)
           v == VPSLogin(plan)
           x == ExportPanel(FALSE, FALSE)
           q == p \o Proving
           r == q \o v
           s == r \o Ending
<1>1. /\ p \in Seq(ScriptSteps) /\ v \in Seq(ScriptSteps) /\ x \in Seq(ScriptSteps)
      /\ Proving \in Seq(ScriptSteps) /\ Ending \in Seq(ScriptSteps)
  BY FrontedTyped, ShortQuiet, PiecesQuiet DEF Quiet, Scripts
<1>2. Wizard(plan, FALSE) = s \o x
  BY WizardParts
<1>3. Will("panel", h, Proving)
  <2>1. Len(Proving) = 3 /\ Proving[3].op = "validate panel"
    BY DEF Proving, Do
  <2>2. 3 \in 1..3 /\ \A j \in 1..3 : ~(3 < j)
    OBVIOUS
  <2>3. Makes(Proving[3], "panel", h)
    BY <2>1 DEF Makes
  <2> QED
    BY <2>1, <2>2, <2>3 DEF Will
<1>4. Will("vps", h, v)
  <2>1. Do("reapply").op = "reapply" /\ "reapply" \in PlainOps
    BY StepTyped DEF PlainOps
  <2>2. Will("vps", h, One("reapply"))
    BY <2>1, OneMakes DEF Makes
  <2> QED
    BY <2>2, RotationHolds DEF VPSLogin, Kinds
<1>5. Safe("panel", v) /\ \A l \in Kinds : Safe(l, Ending) /\ Safe(l, x)
  BY RestSafe
<1> HIDE DEF p, v, x
<1>6. q \in Seq(ScriptSteps) /\ Will("panel", h, q)
  BY <1>1, <1>3, WillJoined, Joined
<1> HIDE DEF q
<1>7. /\ r \in Seq(ScriptSteps) /\ Will("panel", h, r) /\ Will("vps", h, r)
  BY <1>1, <1>4, <1>5, <1>6, WillJoined, Joined
<1> HIDE DEF r
<1>8. s \in Seq(ScriptSteps) /\ Will(k, h, s)
  BY <1>1, <1>5, <1>7, WillJoined, Joined DEF Kinds
<1> HIDE DEF s
<1>9. Will(k, h, s \o x)
  BY <1>1, <1>5, <1>8, WillJoined
<1> QED
  BY <1>2, <1>9

\* One step of a script: what it stores, and what it leaves stored.
LEMMA StepStores ==
  ASSUME CredentialsTyped, ScriptStep, NEW k \in Kinds, NEW h \in Halves, inForce[k] # Nothing
  PROVE  /\ inForce'[k] # Nothing
         /\ Makes(Head(script), k, h) => Stored(k, h)'
         /\ Stored(k, h) /\ ~Spoils(Head(script), k) => Stored(k, h)'
<1> USE NumbersUsable
<1> DEFINE Good ==
      /\ inForce'[k] # Nothing
      /\ Makes(Head(script), k, h) => Stored(k, h)'
      /\ Stored(k, h) /\ ~Spoils(Head(script), k) => Stored(k, h)'
<1>a. /\ inForce \in [Kinds -> Usables] /\ handoff \in Files /\ protected \in Files
      /\ archive \in Seq(Files) /\ older \in Files /\ <<k, h>> \in Fields
  BY ArchivedIs DEF CredentialsTyped, NodeTyped, FilesTyped, Fields
<1>b. Written(k, inForce[k], h) # Nothing
  BY DEF Written
<1>m. Head(script).op \notin {"store", "validate panel", "reapply"} => ~Makes(Head(script), k, h)
  BY DEF Makes
<1>q. ASSUME ~Makes(Head(script), k, h), UNCHANGED <<inForce, protected>> PROVE Good
  BY <1>q DEF Stored
<1>1. CASE SeedStore
  <2>1. Stored(k, h) => protected'[<<k, h>>] = protected[<<k, h>>]
    BY <1>1, <1>a, <1>b, SeededKeeps DEF SeedStore, Stored
  <2>2. inForce' = inForce
    BY <1>1 DEF SeedStore
  <2> QED
    BY <1>1, <1>m, <2>1, <2>2, StepOp DEF Stored
<1>2. CASE ArchiveHandoff \/ TruncateHandoff \/ RestoreHandoff \/ NameAccount \/ InstallersHandoff
  <2>1. UNCHANGED <<inForce, protected>>
    BY <1>2 DEF ArchiveHandoff, TruncateHandoff, RestoreHandoff, NameAccount,
       InstallersHandoff
  <2>2. Head(script).op \notin {"store", "validate panel", "reapply"}
    BY <1>2, StepOp
  <2> QED
    BY <1>m, <1>q, <2>1, <2>2
<1>3. CASE CheckPanel \/ CheckForm \/ RestOfWizard
  <2>1. UNCHANGED <<inForce, protected>>
    BY <1>3 DEF CheckPanel, CheckForm, RestOfWizard, files
  <2>2. Head(script).op \notin {"store", "validate panel", "reapply"}
    BY <1>3, StepOp
  <2> QED
    BY <1>m, <1>q, <2>1, <2>2
<1>4. CASE SetField
  <2> DEFINE f == Head(script).field
             value == Written(f[1], inForce[f[1]], f[2])
  <2>1. inForce' = inForce
    BY <1>4 DEF SetField
  <2>2. CASE Head(script).op = "handoff"
    <3>1. UNCHANGED protected
      BY <1>4, <2>2 DEF SetField
    <3> QED
      BY <1>m, <1>q, <2>1, <2>2, <3>1
  <2>3. CASE Head(script).op # "handoff"
    <3>1. Head(script).op = "store" /\ protected' = [protected EXCEPT ![f] = value]
      BY <1>4, <2>3, StepOp DEF SetField
    <3>2. f = <<k, h>> => value = Written(k, inForce[k], h)
      OBVIOUS
    <3> HIDE DEF f, value
    <3>3. protected'[<<k, h>>] = IF f = <<k, h>> THEN value ELSE protected[<<k, h>>]
      BY <1>a, <3>1 DEF Files
    <3>4. Makes(Head(script), k, h) => f = <<k, h>>
      BY <3>1 DEF Makes, f
    <3>5. protected'[<<k, h>>] = protected[<<k, h>>] \/
          protected'[<<k, h>>] = Written(k, inForce[k], h)
      BY <3>2, <3>3
    <3>6. Makes(Head(script), k, h) => protected'[<<k, h>>] = Written(k, inForce[k], h)
      BY <3>2, <3>3, <3>4
    <3> QED
      BY <2>1, <3>5, <3>6 DEF Stored, Written
  <2> QED
    BY <2>2, <2>3
<1>5. ASSUME NEW l \in Kinds, ChangeLogin(l) PROVE Good
  <2>1. inForce' = [inForce EXCEPT ![l] = issued + 1] /\ protected' = protected
    BY <1>5 DEF ChangeLogin, files
  <2>2. issued + 1 # Nothing
    BY <1>5, CredentialsAssumption DEF CredentialsTyped, NodeTyped, PairNumbers
  <2>3. Head(script).op = IF l = "vps" THEN "change vps" ELSE "change panel"
    BY <1>5, StepOp DEF Kinds
  <2>4. l = k => Spoils(Head(script), k)
    BY <2>3 DEF Spoils, Kinds
  <2>5. l # k => inForce'[k] = inForce[k]
    BY <1>a, <2>1
  <2>6. inForce'[k] # Nothing
    BY <1>a, <2>1, <2>2
  <2>7. ~Makes(Head(script), k, h)
    BY <1>m, <2>3
  <2>8. ASSUME Stored(k, h), ~Spoils(Head(script), k) PROVE Stored(k, h)'
    BY <2>1, <2>4, <2>5, <2>6, <2>8 DEF Stored, Written
  <2> QED
    BY <2>6, <2>7, <2>8
<1>6. CASE InstallPanel
  <2>1. inForce' = [inForce EXCEPT !["panel"] = issued + 1] /\ protected' = protected
    BY <1>6 DEF InstallPanel, files
  <2>2. issued + 1 # Nothing
    BY <1>6, CredentialsAssumption DEF CredentialsTyped, NodeTyped, PairNumbers
  <2>3. Head(script).op = "install panel"
    BY <1>6, StepOp
  <2>4. k = "panel" => Spoils(Head(script), k)
    BY <2>3 DEF Spoils
  <2>5. k # "panel" => inForce'[k] = inForce[k]
    BY <1>a, <2>1
  <2>6. inForce'[k] # Nothing
    BY <1>a, <2>1, <2>2
  <2>7. ~Makes(Head(script), k, h)
    BY <1>m, <2>3
  <2>8. ASSUME Stored(k, h), ~Spoils(Head(script), k) PROVE Stored(k, h)'
    BY <2>1, <2>4, <2>5, <2>6, <2>8 DEF Stored, Written
  <2> QED
    BY <2>6, <2>7, <2>8
<1>7. CASE InstallersStore
  <2>1. Head(script).op = "installer's store" /\ inForce' = inForce
    BY <1>7, StepOp DEF InstallersStore
  <2>2. k = "panel" => Spoils(Head(script), k)
    BY <2>1 DEF Spoils
  <2>3. k # "panel" => protected'[<<k, h>>] = protected[<<k, h>>]
    BY <1>7, <1>a DEF InstallersStore
  <2>4. ~Makes(Head(script), k, h)
    BY <1>m, <2>1
  <2> QED
    BY <2>1, <2>2, <2>3, <2>4 DEF Stored
<1>8. CASE ValidatePanel
  <2>1. Head(script).op = "validate panel" /\ inForce' = inForce /\ PanelProved
    BY <1>8, StepOp DEF ValidatePanel
  <2>2. protected'[<<k, h>>] = IF k = "panel" THEN Retained(<<k, h>>) ELSE protected[<<k, h>>]
    BY <1>8, <1>a DEF ValidatePanel
  <2>3. k = "panel" => Retained(<<k, h>>) = Written(k, inForce[k], h)
    BY <1>a, <2>1 DEF PanelProved, LogsIn
  <2>4. k = "vps" => ~Makes(Head(script), k, h)
    BY <2>1 DEF Makes
  <2> QED
    BY <2>1, <2>2, <2>3, <2>4 DEF Stored, Kinds, Written
<1>9. CASE Reapply
  <2> DEFINE p == protected[<<"vps", "password">>]
  <2>1. Head(script).op = "reapply" /\ inForce' = [inForce EXCEPT !["vps"] = p]
    BY <1>9, StepOp DEF Reapply, Reapplied
  <2>2. protected' = protected /\ p # Nothing /\ protected[<<"vps", "user">>] = 0
    BY <1>9 DEF Reapply, MayReapply
  <2>3. k = "vps" => inForce'[k] = p
    BY <1>a, <2>1
  <2>4. k # "vps" => inForce'[k] = inForce[k]
    BY <1>a, <2>1
  <2>5. k = "vps" => Stored(k, h)'
    BY <2>2, <2>3 DEF Stored, Written, Halves
  <2>6. k # "vps" => ~Makes(Head(script), k, h)
    BY <2>1 DEF Makes
  <2>7. k # "vps" /\ Stored(k, h) => Stored(k, h)'
    BY <2>2, <2>4 DEF Stored, Written
  <2> QED
    BY <2>2, <2>3, <2>4, <2>5, <2>6, <2>7
<1> QED
  BY <1>1, <1>2, <1>3, <1>4, <1>5, <1>6, <1>7, <1>8, <1>9 DEF ScriptStep, Kinds

LEMMA StepSteps == ScriptStep => Stepped /\ ScriptRuns
<1> USE DEF Advances, Stepped, request, At
<1>1. SeedStore \/ ArchiveHandoff \/ TruncateHandoff \/ RestoreHandoff => Stepped /\ ScriptRuns
  BY DEF SeedStore, ArchiveHandoff, TruncateHandoff, RestoreHandoff
<1>2. SetField \/ NameAccount \/ ChangeLogin("vps") \/ ChangeLogin("panel")
      => Stepped /\ ScriptRuns
  BY DEF SetField, NameAccount, ChangeLogin
<1>3. CheckPanel \/ InstallPanel \/ InstallersHandoff \/ InstallersStore => Stepped /\ ScriptRuns
  BY DEF CheckPanel, InstallPanel, InstallersHandoff, InstallersStore
<1>4. ValidatePanel \/ Reapply \/ CheckForm \/ RestOfWizard => Stepped /\ ScriptRuns
  BY DEF ValidatePanel, Reapply, CheckForm, RestOfWizard
<1> QED
  BY <1>1, <1>2, <1>3, <1>4 DEF ScriptStep

LEMMA StepHolds ==
  ASSUME CredentialsTyped, ScriptStep, NEW k \in Kinds, FormReady(k) PROVE FormReady(k)'
<1>1. /\ script \in Seq(ScriptSteps) /\ script # <<>> /\ script' = Tail(script)
      /\ inForce[k] # Nothing
  BY StepSteps DEF CredentialsTyped, ScriptTyped, Scripts, Stepped, FormReady
<1> DEFINE n == Len(script)
           t == Tail(script)
<1>2. /\ n \in Nat \ {0} /\ Head(script) = script[1] /\ Len(t) = n - 1
      /\ \A i \in 1..(n - 1) : t[i] = script[i + 1] /\ i + 1 \in 1..n
  BY <1>1, OneStepLess
<1> HIDE DEF n, t
<1>3. ASSUME NEW h \in Halves PROVE Will(k, h, t) \/ (Stored(k, h)' /\ Safe(k, t))
  <2>1. CASE Will(k, h, script)
    <3>1. PICK i \in 1..n : /\ Makes(script[i], k, h)
                            /\ \A j \in 1..n : i < j => ~Spoils(script[j], k)
      BY <2>1 DEF Will, n
    <3>2. CASE i = 1
      <4>1. \A j \in 1..(n - 1) : ~Spoils(t[j], k)
        BY <1>2, <3>1, <3>2
      <4> QED
        BY <1>1, <1>2, <3>1, <3>2, <4>1, StepStores DEF Safe
    <3>3. CASE i # 1
      <4>1. i - 1 \in 1..(n - 1) /\ t[i - 1] = script[i]
        BY <1>2, <3>3
      <4>2. \A j \in 1..(n - 1) : i - 1 < j => ~Spoils(t[j], k)
        BY <1>2, <3>1
      <4> QED
        BY <1>2, <3>1, <4>1, <4>2 DEF Will
    <3> QED
      BY <3>2, <3>3
  <2>2. CASE Stored(k, h) /\ Safe(k, script)
    <3>1. ~Spoils(Head(script), k) /\ \A j \in 1..(n - 1) : ~Spoils(t[j], k)
      BY <1>2, <2>2 DEF Safe, n
    <3> QED
      BY <1>1, <1>2, <2>2, <3>1, StepStores DEF Safe
  <2> QED
    BY <2>1, <2>2 DEF FormReady
<1>4. inForce'[k] # Nothing
  BY <1>1, StepStores DEF Halves
<1>5. script' = t
  BY <1>1 DEF t
<1> QED
  BY <1>3, <1>4, <1>5 DEF FormReady

-----------------------------------------------------------------------------
(* On a node without a panel the wizard ends at its own check              *)
(* of the panel login, if not before.  It installs a panel, changes its    *)
(* login, and then puts the installer's pair back in front, in the handoff *)
(* and in the store.                                                       *)

FreshCourse ==
  <<"install panel", "change panel", "handoff", "handoff", "store", "store",
    "check panel", "installer's handoff", "seed", "installer's store",
    "restore strictly", "seed", "restore strictly", "validate panel">>
\* The course begins after the first c steps of a script, or began -c steps ago.
OnCourse(s, c) ==
  /\ c \in Int /\ c + 14 \in 1..Len(s)
  /\ \A i \in 1..14 : c + i >= 1 => s[c + i].op = FreshCourse[i]
PanelPassword == <<"panel", "password">>
InstallersPair(c) ==
  /\ c <= -1 => installer \in PairNumbers /\ installer <= issued
  /\ c <= -2 => installer # inForce["panel"]
  /\ c \in {-8, -9} => handoff[PanelPassword] = installer
  /\ c <= -10 => protected[PanelPassword] = installer
NeverProves == \E c \in Int : OnCourse(script, c) /\ InstallersPair(c)
FreshConstruction == menu = "construct" /\ saved.inForce["panel"] = Nothing

LEMMA CourseIs ==
  /\ FreshCourse[1] = "install panel" /\ FreshCourse[2] = "change panel"
  /\ \A i \in {3, 4, 5, 6, 7} : FreshCourse[i] \in {"handoff", "store", "check panel"}
  /\ FreshCourse[8] = "installer's handoff" /\ FreshCourse[9] = "seed"
  /\ FreshCourse[10] = "installer's store" /\ FreshCourse[11] = "restore strictly"
  /\ FreshCourse[12] = "seed" /\ FreshCourse[13] = "restore strictly"
  /\ FreshCourse[14] = "validate panel"
  BY DEF FreshCourse

LEMMA CourseGoesOn ==
  ASSUME NEW s \in Seq(ScriptSteps), NEW c, OnCourse(s, c), c # -13
  PROVE  /\ s # <<>> /\ OnCourse(Tail(s), c - 1)
         /\ \A i \in 1..14 : c + i = 1 => Head(s).op = FreshCourse[i]
<1>1. c \in Int /\ c + 14 \in 1..Len(s) /\ Len(s) \in Nat /\ c >= -12
  BY LenProperties DEF OnCourse
<1>2. s # <<>>
  BY <1>1
<1>3. /\ Head(s) = s[1] /\ Len(Tail(s)) = Len(s) - 1
      /\ \A i \in 1..(Len(s) - 1) : Tail(s)[i] = s[i + 1]
  BY <1>2, OneStepLess
<1>4. ASSUME NEW i \in 1..14, c - 1 + i >= 1 PROVE Tail(s)[c - 1 + i].op = FreshCourse[i]
  <2>1. c - 1 + i \in 1..(Len(s) - 1) /\ c + i >= 1 /\ c - 1 + i + 1 = c + i
    BY <1>1, <1>4
  <2> QED
    BY <1>3, <2>1 DEF OnCourse
<1>5. c - 1 \in Int /\ c - 1 + 14 \in 1..Len(Tail(s))
  BY <1>1, <1>3
<1>6. ASSUME NEW i \in 1..14, c + i = 1 PROVE Head(s).op = FreshCourse[i]
  <2>1. c + i >= 1
    BY <1>6
  <2>2. s[c + i].op = FreshCourse[i]
    BY <2>1 DEF OnCourse
  <2> QED
    BY <1>3, <1>6, <2>2
<1> QED
  BY <1>2, <1>4, <1>5, <1>6 DEF OnCourse

LEMMA CourseEnds ==
  ASSUME NEW s \in Seq(ScriptSteps), OnCourse(s, -13)
  PROVE  s # <<>> /\ Head(s).op = "validate panel"
<1>1. -13 + 14 = 1 /\ 1 \in 1..Len(s) /\ Len(s) \in Nat
  BY LenProperties DEF OnCourse
<1>2. s # <<>>
  BY <1>1
<1>3. s[-13 + 14].op = FreshCourse[14] /\ FreshCourse[14] = "validate panel"
  <2>1. 14 \in 1..14 /\ -13 + 14 >= 1
    OBVIOUS
  <2> QED
    BY <2>1, CourseIs DEF OnCourse
<1> QED
  BY <1>1, <1>2, <1>3, OneStepLess

\* With the installer's pair stored and another one in force, no login is proved.
LEMMA NotProved ==
  ASSUME CredentialsTyped, installer \in PairNumbers, installer # inForce["panel"],
         protected[PanelPassword] = installer
  PROVE  ~PanelProved
<1>1. PanelPassword \in Fields /\ Retained(PanelPassword) = installer
  BY NumbersUsable DEF Retained, PanelPassword, Fields, Kinds, Halves
<1>2. [f \in Fields |-> Retained(f)][PanelPassword] = installer
  BY <1>1
<1> QED
  BY <1>2 DEF PanelProved, LogsIn, Written, PanelPassword, Halves

LEMMA CourseStep ==
  ASSUME CredentialsTyped, ScriptStep, NeverProves PROVE NeverProves'
<1> USE NumbersUsable
<1> DEFINE op == Head(script).op
<1>1. PICK c \in Int : OnCourse(script, c) /\ InstallersPair(c)
  BY DEF NeverProves
<1>a. /\ script \in Seq(ScriptSteps) /\ script' = Tail(script)
      /\ inForce \in [Kinds -> Usables] /\ handoff \in Files /\ protected \in Files
      /\ archive \in Seq(Files) /\ older \in Files /\ PanelPassword \in Fields
      /\ issued \in PairNumbers
  BY ArchivedIs, StepSteps
     DEF CredentialsTyped, ScriptTyped, Scripts, NodeTyped, FilesTyped, Stepped,
         PanelPassword, Fields, Kinds, Halves
<1>2. c # -13
  <2> SUFFICES ASSUME c = -13 PROVE FALSE
    OBVIOUS
  <2>1. Head(script).op = "validate panel"
    BY <1>1, <1>a, CourseEnds
  <2>2. PanelProved
    BY <2>1, StepOp DEF ScriptStep, ValidatePanel
  <2>3. ~PanelProved
    BY <1>1, NotProved DEF InstallersPair
  <2> QED
    BY <2>2, <2>3
<1>3. OnCourse(script', c - 1) /\ \A i \in 1..14 : c + i = 1 => op = FreshCourse[i]
  BY <1>1, <1>2, <1>a, CourseGoesOn
<1>o. /\ c = 0 => op = FreshCourse[1]
      /\ c = -1 => op = FreshCourse[2]
      /\ c = -2 => op = FreshCourse[3]
      /\ c = -3 => op = FreshCourse[4]
      /\ c = -4 => op = FreshCourse[5]
      /\ c = -5 => op = FreshCourse[6]
      /\ c = -6 => op = FreshCourse[7]
      /\ c = -7 => op = FreshCourse[8]
      /\ c = -8 => op = FreshCourse[9]
      /\ c = -9 => op = FreshCourse[10]
      /\ c = -10 => op = FreshCourse[11]
      /\ c = -11 => op = FreshCourse[12]
      /\ c = -12 => op = FreshCourse[13]
  BY <1>3
<1>4. c >= -12
  BY <1>1, <1>2 DEF OnCourse
<1> SUFFICES InstallersPair(c - 1)'
  <2> DEFINE d == c - 1
  <2>1. d \in Int /\ OnCourse(script', d)
    BY <1>3
  <2> HIDE DEF d
  <2>2. InstallersPair(d)' => NeverProves'
    BY <2>1 DEF NeverProves, OnCourse
  <2> QED
    BY <2>2 DEF d
<1>5. CASE c >= 1
  BY <1>5 DEF InstallersPair
<1>6. CASE c = 0
  <2>1. op = "install panel"
    BY <1>o, <1>6, CourseIs
  <2>2. installer' = issued' /\ issued' \in PairNumbers
    BY <1>a, <2>1, StepOp, NextPair DEF ScriptStep, InstallPanel
  <2> QED
    BY <1>6, <2>2 DEF InstallersPair, PairNumbers
<1>7. CASE c = -1
  <2>1. op = "change panel"
    BY <1>o, <1>7, CourseIs
  <2>2. ChangeLogin("panel")
    BY <2>1, StepOp DEF ScriptStep
  <2>3. issued' = issued + 1 /\ inForce'["panel"] = issued + 1 /\ installer' = installer
    BY <1>a, <2>2 DEF ChangeLogin, Kinds
  <2>4. installer \in PairNumbers /\ installer <= issued
    BY <1>1, <1>7 DEF InstallersPair
  <2>5. installer <= issued + 1 /\ installer # issued + 1
    BY <1>a, <2>4 DEF PairNumbers
  <2> QED
    BY <1>7, <2>3, <2>4, <2>5 DEF InstallersPair
<1>8. CASE c \in {-2, -3, -4, -5, -6}
  <2>1. op \in {"handoff", "store", "check panel"}
    BY <1>o, <1>8, CourseIs
  <2>2. SetField \/ CheckPanel
    BY <2>1, StepOp DEF ScriptStep
  <2>3. UNCHANGED <<inForce, issued, installer>>
    BY <2>2 DEF SetField, CheckPanel
  <2> QED
    BY <1>1, <1>8, <2>3 DEF InstallersPair
<1>9. CASE c = -7
  <2>1. op = "installer's handoff"
    BY <1>o, <1>9, CourseIs
  <2>2. InstallersHandoff
    BY <2>1, StepOp DEF ScriptStep
  <2>3. /\ UNCHANGED <<inForce, issued, installer>>
        /\ handoff'[PanelPassword] = installer
    BY <1>a, <2>2 DEF InstallersHandoff, WithPair, Written, PanelPassword
  <2> QED
    BY <1>1, <1>9, <2>3 DEF InstallersPair
<1>10. CASE c = -8
  <2>1. op = "seed"
    BY <1>o, <1>10, CourseIs
  <2>2. SeedStore
    BY <2>1, StepOp DEF ScriptStep
  <2>3. UNCHANGED <<inForce, issued, installer, handoff>>
    BY <2>2 DEF SeedStore
  <2> QED
    BY <1>1, <1>10, <2>3 DEF InstallersPair
<1>11. CASE c = -9
  <2>1. op = "installer's store"
    BY <1>o, <1>11, CourseIs
  <2>2. InstallersStore
    BY <2>1, StepOp DEF ScriptStep
  <2>3. /\ UNCHANGED <<inForce, issued, installer>>
        /\ protected'[PanelPassword] = handoff[PanelPassword]
    BY <1>a, <2>2 DEF InstallersStore, PanelPassword
  <2> QED
    BY <1>1, <1>11, <2>3 DEF InstallersPair
<1>12. CASE c \in {-10, -12}
  <2>1. op = "restore strictly"
    BY <1>o, <1>12, CourseIs
  <2>2. RestoreHandoff
    BY <2>1, StepOp DEF ScriptStep
  <2>3. UNCHANGED <<inForce, issued, installer, protected>>
    BY <2>2 DEF RestoreHandoff
  <2> QED
    BY <1>1, <1>12, <2>3 DEF InstallersPair
<1>13. CASE c = -11
  <2>1. op = "seed"
    BY <1>o, <1>13, CourseIs
  <2>2. SeedStore
    BY <2>1, StepOp DEF ScriptStep
  <2>3. installer \in PairNumbers /\ protected[PanelPassword] = installer
    BY <1>1, <1>13 DEF InstallersPair
  <2>4. /\ UNCHANGED <<inForce, issued, installer>>
        /\ protected'[PanelPassword] = protected[PanelPassword]
    BY <1>a, <2>2, <2>3, SeededKeeps DEF SeedStore
  <2> QED
    BY <1>1, <1>13, <2>3, <2>4 DEF InstallersPair
<1> QED
  BY <1>4, <1>5, <1>6, <1>7, <1>8, <1>9, <1>10, <1>11, <1>12, <1>13

LEMMA Appended ==
  ASSUME NEW s \in Seq(ScriptSteps), NEW t \in Seq(ScriptSteps)
  PROVE  /\ s \o t \in Seq(ScriptSteps) /\ Len(s \o t) = Len(s) + Len(t)
         /\ \A i \in 1..(Len(s) + Len(t)) :
              (s \o t)[i] = IF i <= Len(s) THEN s[i] ELSE t[i - Len(s)]
  BY ConcatProperties

LEMMA RotatePanelIs ==
  /\ RotatePanel \in Seq(ScriptSteps) /\ Len(RotatePanel) = 6
  /\ RotatePanel[1].op = "change panel"
  /\ RotatePanel[2].op = "handoff" /\ RotatePanel[3].op = "handoff"
  /\ RotatePanel[4].op = "store" /\ RotatePanel[5].op = "store"
  /\ RotatePanel[6].op = "check panel"
<1> DEFINE r == Recorded("panel")
           a == One("change panel")
           z == One("check panel")
           q == a \o r
<1>1. \A op \in PlainOps : One(op) \in Seq(ScriptSteps) /\ Len(One(op)) = 1 /\ One(op)[1].op = op
  BY OneQuiet, StepTyped DEF Quiet, Scripts, One
<1>2. r \in Seq(ScriptSteps) /\ Len(r) = 4
  BY RecordedStores DEF Kinds
<1>2a. r[1].op = "handoff" /\ r[2].op = "handoff" /\ r[3].op = "store" /\ r[4].op = "store"
  BY RecordedStores DEF Kinds
<1>3. a \in Seq(ScriptSteps) /\ Len(a) = 1 /\ z \in Seq(ScriptSteps) /\ Len(z) = 1
  BY <1>1 DEF PlainOps
<1>3a. a[1].op = "change panel" /\ z[1].op = "check panel"
  BY <1>1 DEF PlainOps
<1>4. RotatePanel = q \o z
  BY DEF RotatePanel, One
<1> HIDE DEF r, a, z
<1>5a. /\ q \in Seq(ScriptSteps) /\ Len(q) = Len(a) + Len(r)
      /\ \A i \in 1..(Len(a) + Len(r)) :
           q[i] = IF i <= Len(a) THEN a[i] ELSE r[i - Len(a)]
  BY <1>2, <1>3, Appended
<1> HIDE DEF q
<1>5. /\ q \in Seq(ScriptSteps) /\ Len(q) = 5
      /\ \A i \in 1..5 : q[i] = IF i <= 1 THEN a[i] ELSE r[i - 1]
  BY <1>2, <1>3, <1>5a
<1>6. q[1] = a[1] /\ q[2] = r[1] /\ q[3] = r[2] /\ q[4] = r[3] /\ q[5] = r[4]
  BY <1>5
<1> DEFINE p == q \o z
<1>7a. /\ p \in Seq(ScriptSteps) /\ Len(p) = Len(q) + Len(z)
      /\ \A i \in 1..(Len(q) + Len(z)) :
           p[i] = IF i <= Len(q) THEN q[i] ELSE z[i - Len(q)]
  BY <1>3, <1>5, Appended
<1> HIDE DEF p
<1>7. /\ p \in Seq(ScriptSteps) /\ Len(p) = 6
      /\ \A i \in 1..6 : p[i] = IF i <= 5 THEN q[i] ELSE z[i - 5]
  BY <1>3, <1>5, <1>7a
<1>8. /\ p[1] = q[1] /\ p[2] = q[2] /\ p[3] = q[3] /\ p[4] = q[4] /\ p[5] = q[5]
      /\ p[6] = z[1]
  BY <1>7
<1>9. RotatePanel = p
  BY <1>4 DEF p
<1> QED
  BY <1>2a, <1>3a, <1>6, <1>7, <1>8, <1>9

LEMMA ExportFreshIs ==
  LET e == ExportPanel(TRUE, TRUE)
  IN /\ e \in Seq(ScriptSteps) /\ Len(e) = 4 /\ e[1].op = "installer's handoff"
     /\ e[2].op = "seed" /\ e[3].op = "installer's store" /\ e[4].op = "restore strictly"
<1> DEFINE a == Do("installer's handoff")
           b == Do("seed")
           c == Do("installer's store")
           d == Do("restore strictly")
           e == ExportPanel(TRUE, TRUE)
<1>1. /\ a.op = "installer's handoff" /\ b.op = "seed" /\ c.op = "installer's store"
      /\ d.op = "restore strictly"
  BY DEF Do
<1>s. a \in ScriptSteps /\ b \in ScriptSteps /\ c \in ScriptSteps /\ d \in ScriptSteps
  BY StepTyped DEF PlainOps
<1>2. e \in Seq(ScriptSteps)
  BY PiecesQuiet DEF Quiet, Scripts
<1>3. e = ((<<a>> \o <<b>>) \o <<c>>) \o <<d>>
  BY Zenon DEF ExportPanel
<1> HIDE DEF a, b, c, d, e
<1> DEFINE x == <<a>> \o <<b>>
           y == x \o <<c>>
           z == y \o <<d>>
<1>4. /\ <<a>> \in Seq(ScriptSteps) /\ <<b>> \in Seq(ScriptSteps)
      /\ <<c>> \in Seq(ScriptSteps) /\ <<d>> \in Seq(ScriptSteps)
  BY <1>s
<1>5. x \in Seq(ScriptSteps) /\ Len(x) = 2 /\ x[1] = a /\ x[2] = b
  <2>1. /\ x \in Seq(ScriptSteps) /\ Len(x) = Len(<<a>>) + Len(<<b>>)
        /\ \A i \in 1..(Len(<<a>>) + Len(<<b>>)) :
             x[i] = IF i <= Len(<<a>>) THEN <<a>>[i] ELSE <<b>>[i - Len(<<a>>)]
    BY <1>4, Appended
  <2> HIDE DEF x
  <2> QED
    BY <2>1
<1> HIDE DEF x
<1>6. y \in Seq(ScriptSteps) /\ Len(y) = 3 /\ y[1] = x[1] /\ y[2] = x[2] /\ y[3] = c
  <2>1. /\ y \in Seq(ScriptSteps) /\ Len(y) = Len(x) + Len(<<c>>)
        /\ \A i \in 1..(Len(x) + Len(<<c>>)) :
             y[i] = IF i <= Len(x) THEN x[i] ELSE <<c>>[i - Len(x)]
    BY <1>4, <1>5, Appended
  <2> HIDE DEF y
  <2> QED
    BY <1>5, <2>1
<1> HIDE DEF y
<1>7. /\ Len(z) = 4 /\ z[1] = y[1] /\ z[2] = y[2] /\ z[3] = y[3] /\ z[4] = d
  <2>1. /\ z \in Seq(ScriptSteps) /\ Len(z) = Len(y) + Len(<<d>>)
        /\ \A i \in 1..(Len(y) + Len(<<d>>)) :
             z[i] = IF i <= Len(y) THEN y[i] ELSE <<d>>[i - Len(y)]
    BY <1>4, <1>6, Appended
  <2> HIDE DEF z
  <2> QED
    BY <1>6, <2>1
<1>8. e = z
  BY <1>3 DEF y, x
<1> HIDE DEF z
<1> QED
  BY <1>1, <1>2, <1>5, <1>6, <1>7, <1>8 DEF e

\* The wizard of a fresh node has the course after its first five steps.
LEMMA FreshWizardOnCourse ==
  ASSUME NEW plan, plan.panel = "change"
  PROVE  OnCourse(Wizard(plan, TRUE), 5)
<1> DEFINE b == BeginRun(TRUE)
           n == One("name the account")
           a == One("install panel")
           r == RotatePanel
           e == ExportPanel(TRUE, TRUE)
           p == Proving
           v == VPSLogin(plan)
           z == Ending
           x == ExportPanel(TRUE, FALSE)
           s1 == b \o n
           s2 == s1 \o a
           s3 == s2 \o r
           s4 == s3 \o e
           s5 == s4 \o p
           s6 == s5 \o v
           s7 == s6 \o z
           w == s7 \o x
<1>1. \A op \in PlainOps : One(op) \in Seq(ScriptSteps) /\ Len(One(op)) = 1 /\ One(op)[1].op = op
  BY OneQuiet, StepTyped DEF Quiet, Scripts, One
<1>2. Wizard(plan, TRUE) = w
  <2>1. Fronted(plan, TRUE) = s4
    BY Zenon DEF Fronted
  <2> QED
    BY <2>1, WizardParts
<1>3. b \in Seq(ScriptSteps) /\ Len(b) = 4
  <2>1. Len(b) = 4
    BY DEF BeginRun
  <2> QED
    BY <2>1, BeginArchives DEF Scripts
<1>4. /\ r \in Seq(ScriptSteps) /\ Len(r) = 6 /\ e \in Seq(ScriptSteps) /\ Len(e) = 4
  BY RotatePanelIs, ExportFreshIs
<1>5. p \in Seq(ScriptSteps) /\ Len(p) = 3
  BY ShortQuiet DEF Quiet, Scripts, Proving
<1>5a. p[1].op = "seed" /\ p[2].op = "restore strictly" /\ p[3].op = "validate panel"
  BY DEF Proving, Do
<1>6. /\ v \in Seq(ScriptSteps) /\ x \in Seq(ScriptSteps) /\ z \in Seq(ScriptSteps)
      /\ Len(v) \in Nat /\ Len(x) \in Nat /\ Len(z) \in Nat
  BY ShortQuiet, PiecesQuiet, LenProperties DEF Quiet, Scripts
<1>7. n \in Seq(ScriptSteps) /\ Len(n) = 1 /\ a \in Seq(ScriptSteps) /\ Len(a) = 1
  BY <1>1 DEF PlainOps
<1>7a. a[1].op = "install panel"
  BY <1>1 DEF PlainOps
<1> HIDE DEF b, n, a, r, e, p, v, z, x
<1>8a. /\ s1 \in Seq(ScriptSteps) /\ Len(s1) = Len(b) + Len(n)
      /\ \A i \in 1..(Len(b) + Len(n)) :
           s1[i] = IF i <= Len(b) THEN b[i] ELSE n[i - Len(b)]
  BY <1>3, <1>7, Appended
<1> HIDE DEF s1
<1>8. s1 \in Seq(ScriptSteps) /\ Len(s1) = 5
  BY <1>3, <1>7, <1>8a
<1>9a. /\ s2 \in Seq(ScriptSteps) /\ Len(s2) = Len(s1) + Len(a)
      /\ \A i \in 1..(Len(s1) + Len(a)) :
           s2[i] = IF i <= Len(s1) THEN s1[i] ELSE a[i - Len(s1)]
  BY <1>7, <1>8, Appended
<1> HIDE DEF s2
<1>9. /\ s2 \in Seq(ScriptSteps) /\ Len(s2) = 6
      /\ \A i \in 1..6 : s2[i] = IF i <= 5 THEN s1[i] ELSE a[i - 5]
  BY <1>7, <1>8, <1>9a
<1>10a. /\ s3 \in Seq(ScriptSteps) /\ Len(s3) = Len(s2) + Len(r)
      /\ \A i \in 1..(Len(s2) + Len(r)) :
           s3[i] = IF i <= Len(s2) THEN s2[i] ELSE r[i - Len(s2)]
  BY <1>4, <1>9, Appended
<1> HIDE DEF s3
<1>10. /\ s3 \in Seq(ScriptSteps) /\ Len(s3) = 12
       /\ \A i \in 1..12 : s3[i] = IF i <= 6 THEN s2[i] ELSE r[i - 6]
  BY <1>4, <1>9, <1>10a
<1>11a. /\ s4 \in Seq(ScriptSteps) /\ Len(s4) = Len(s3) + Len(e)
      /\ \A i \in 1..(Len(s3) + Len(e)) :
           s4[i] = IF i <= Len(s3) THEN s3[i] ELSE e[i - Len(s3)]
  BY <1>4, <1>10, Appended
<1> HIDE DEF s4
<1>11. /\ s4 \in Seq(ScriptSteps) /\ Len(s4) = 16
       /\ \A i \in 1..16 : s4[i] = IF i <= 12 THEN s3[i] ELSE e[i - 12]
  BY <1>4, <1>10, <1>11a
<1>12a. /\ s5 \in Seq(ScriptSteps) /\ Len(s5) = Len(s4) + Len(p)
      /\ \A i \in 1..(Len(s4) + Len(p)) :
           s5[i] = IF i <= Len(s4) THEN s4[i] ELSE p[i - Len(s4)]
  BY <1>5, <1>11, Appended
<1> HIDE DEF s5
<1>12. /\ s5 \in Seq(ScriptSteps) /\ Len(s5) = 19
       /\ \A i \in 1..19 : s5[i] = IF i <= 16 THEN s4[i] ELSE p[i - 16]
  BY <1>5, <1>11, <1>12a
<1>13a. /\ s6 \in Seq(ScriptSteps) /\ Len(s6) = Len(s5) + Len(v)
      /\ \A i \in 1..(Len(s5) + Len(v)) :
           s6[i] = IF i <= Len(s5) THEN s5[i] ELSE v[i - Len(s5)]
  BY <1>6, <1>12, Appended
<1> HIDE DEF s6
<1>13. /\ s6 \in Seq(ScriptSteps) /\ Len(s6) \in Nat /\ Len(s6) >= 19
       /\ \A i \in 1..19 : s6[i] = s5[i]
  <2>1. Len(s6) = Len(s5) + Len(v) /\ Len(s5) \in Nat /\ Len(s5) >= 19 /\ Len(v) \in Nat
    BY <1>6, <1>12, <1>13a
  <2>2. s6 \in Seq(ScriptSteps) /\ Len(s6) \in Nat /\ Len(s6) >= 19
    BY <1>13a, <2>1
  <2>3. ASSUME NEW i \in 1..19 PROVE s6[i] = s5[i]
    <3>1. i \in 1..(Len(s5) + Len(v)) /\ i <= Len(s5)
      BY <2>1
    <3> QED
      BY <1>13a, <3>1
  <2> QED
    BY <2>2, <2>3
<1>14a. /\ s7 \in Seq(ScriptSteps) /\ Len(s7) = Len(s6) + Len(z)
      /\ \A i \in 1..(Len(s6) + Len(z)) :
           s7[i] = IF i <= Len(s6) THEN s6[i] ELSE z[i - Len(s6)]
  BY <1>6, <1>13, Appended
<1> HIDE DEF s7
<1>14. /\ s7 \in Seq(ScriptSteps) /\ Len(s7) \in Nat /\ Len(s7) >= 19
       /\ \A i \in 1..19 : s7[i] = s6[i]
  <2>1. Len(s7) = Len(s6) + Len(z) /\ Len(s6) \in Nat /\ Len(s6) >= 19 /\ Len(z) \in Nat
    BY <1>6, <1>13, <1>14a
  <2>2. s7 \in Seq(ScriptSteps) /\ Len(s7) \in Nat /\ Len(s7) >= 19
    BY <1>14a, <2>1
  <2>3. ASSUME NEW i \in 1..19 PROVE s7[i] = s6[i]
    <3>1. i \in 1..(Len(s6) + Len(z)) /\ i <= Len(s6)
      BY <2>1
    <3> QED
      BY <1>14a, <3>1
  <2> QED
    BY <2>2, <2>3
<1>15a. /\ w \in Seq(ScriptSteps) /\ Len(w) = Len(s7) + Len(x)
      /\ \A i \in 1..(Len(s7) + Len(x)) :
           w[i] = IF i <= Len(s7) THEN s7[i] ELSE x[i - Len(s7)]
  BY <1>6, <1>14, Appended
<1> HIDE DEF w
<1>15. /\ w \in Seq(ScriptSteps) /\ Len(w) \in Nat /\ Len(w) >= 19
       /\ \A i \in 1..19 : w[i] = s7[i]
  <2>1. Len(w) = Len(s7) + Len(x) /\ Len(s7) \in Nat /\ Len(s7) >= 19 /\ Len(x) \in Nat
    BY <1>6, <1>14, <1>15a
  <2>2. w \in Seq(ScriptSteps) /\ Len(w) \in Nat /\ Len(w) >= 19
    BY <1>15a, <2>1
  <2>3. ASSUME NEW i \in 1..19 PROVE w[i] = s7[i]
    <3>1. i \in 1..(Len(s7) + Len(x)) /\ i <= Len(s7)
      BY <2>1
    <3> QED
      BY <1>15a, <3>1
  <2> QED
    BY <2>2, <2>3
<1>16. \A i \in 1..19 : w[i] = s5[i]
  BY <1>13, <1>14, <1>15
<1>17. /\ w[6] = a[1] /\ w[7] = r[1] /\ w[8] = r[2] /\ w[9] = r[3] /\ w[10] = r[4]
       /\ w[11] = r[5] /\ w[12] = r[6] /\ w[13] = e[1] /\ w[14] = e[2] /\ w[15] = e[3]
       /\ w[16] = e[4] /\ w[17] = p[1] /\ w[18] = p[2] /\ w[19] = p[3]
  <2>1. s3[6] = a[1] /\ s3[7] = r[1] /\ s3[8] = r[2] /\ s3[9] = r[3]
    BY <1>9, <1>10
  <2>2. s3[10] = r[4] /\ s3[11] = r[5] /\ s3[12] = r[6]
    BY <1>10
  <2>3. /\ \A i \in 6..12 : w[i] = s3[i]
        /\ \A i \in 13..16 : w[i] = e[i - 12]
        /\ \A i \in 17..19 : w[i] = p[i - 16]
    <3>0. \A i \in 1..19 : s5[i] = IF i <= 16 THEN s4[i] ELSE p[i - 16]
      BY <1>12
    <3>1. ASSUME NEW i \in 1..16 PROVE w[i] = s4[i]
      <4>1. i \in 1..19 /\ i <= 16
        OBVIOUS
      <4> QED
        BY <3>0, <4>1, <1>16
    <3>2. ASSUME NEW i \in 17..19 PROVE w[i] = p[i - 16]
      <4>1. i \in 1..19 /\ ~(i <= 16)
        OBVIOUS
      <4> QED
        BY <3>0, <4>1, <1>16
    <3>3. \A i \in 6..12 : w[i] = s3[i]
      BY <1>11, <3>1
    <3>4. \A i \in 13..16 : w[i] = e[i - 12]
      BY <1>11, <3>1
    <3> QED
      BY <3>2, <3>3, <3>4
  <2>4. w[13] = e[1] /\ w[14] = e[2] /\ w[15] = e[3] /\ w[16] = e[4]
    BY <2>3
  <2>5. w[17] = p[1] /\ w[18] = p[2] /\ w[19] = p[3]
    BY <2>3
  <2>6. w[6] = s3[6] /\ w[7] = s3[7] /\ w[8] = s3[8] /\ w[9] = s3[9]
    BY <2>3
  <2>7. w[10] = s3[10] /\ w[11] = s3[11] /\ w[12] = s3[12]
    BY <2>3
  <2> QED
    BY <2>1, <2>2, <2>4, <2>5, <2>6, <2>7
<1>18. /\ w[6].op = FreshCourse[1] /\ w[7].op = FreshCourse[2] /\ w[8].op = FreshCourse[3]
       /\ w[9].op = FreshCourse[4] /\ w[10].op = FreshCourse[5] /\ w[11].op = FreshCourse[6]
       /\ w[12].op = FreshCourse[7]
  BY <1>7a, <1>17, RotatePanelIs DEF FreshCourse, r
<1>19. /\ w[13].op = FreshCourse[8] /\ w[14].op = FreshCourse[9] /\ w[15].op = FreshCourse[10]
       /\ w[16].op = FreshCourse[11] /\ w[17].op = FreshCourse[12]
       /\ w[18].op = FreshCourse[13] /\ w[19].op = FreshCourse[14]
  BY <1>5a, <1>17, ExportFreshIs DEF FreshCourse, e
<1>20. ASSUME NEW i \in 1..14 PROVE w[5 + i].op = FreshCourse[i]
  <2>1. i \in 1..7 \/ i \in 8..14
    OBVIOUS
  <2>2. CASE i \in 1..7
    <3>1. i = 1 \/ i = 2 \/ i = 3 \/ i = 4 \/ i = 5 \/ i = 6 \/ i = 7
      BY <2>2
    <3> QED
      BY <1>18, <3>1
  <2>3. CASE i \in 8..14
    <3>1. i = 8 \/ i = 9 \/ i = 10 \/ i = 11 \/ i = 12 \/ i = 13 \/ i = 14
      BY <2>3
    <3> QED
      BY <1>19, <3>1
  <2> QED
    BY <2>1, <2>2, <2>3
<1>21. 5 \in Int /\ 5 + 14 \in 1..Len(w)
  BY <1>15
<1> QED
  BY <1>2, <1>20, <1>21 DEF OnCourse

-----------------------------------------------------------------------------
(* The theorem about the form.                                             *)

FormInv ==
  /\ ScriptRuns => IF FreshConstruction THEN NeverProves
                   ELSE \A k \in Established : FormReady(k)
  /\ FormLogsIn

LEMMA FormStart == CredentialsInit => FormInv
  BY DEF CredentialsInit, FormInv, ScriptRuns, FormLogsIn

LEMMA FormStep ==
  ASSUME CredentialsTyped, FormInv, [CredentialsNext]_credentialVars PROVE FormInv'
<1> USE DEF FormInv
<1>a. Established \subseteq Kinds
  BY DEF Established, Kinds
<1>b. ASSUME outcome' \notin {"running", "shown"} PROVE FormInv'
  BY <1>b DEF ScriptRuns, FormLogsIn
<1>c. ASSUME menu' \in {"none", "show"}, outcome' # "running" PROVE FormInv'
  <2>1. Established' = {}
    BY <1>c DEF Established, Kinds
  <2> QED
    BY <1>c, <2>1 DEF ScriptRuns, FormLogsIn
<1>1. CASE ScriptStep
  <2>1. Stepped /\ outcome = "running"
    BY <1>1, StepSteps DEF ScriptRuns
  <2>2. /\ outcome' = "running" /\ Established' = Established
        /\ (FreshConstruction' <=> FreshConstruction)
    BY <2>1 DEF Stepped, Established, FreshConstruction
  <2>3. CASE FreshConstruction
    <3>1. NeverProves'
      BY <1>1, <2>1, <2>3, CourseStep DEF ScriptRuns
    <3> QED
      BY <2>2, <2>3, <3>1 DEF ScriptRuns, FormLogsIn
  <2>4. CASE ~FreshConstruction
    <3>1. ASSUME NEW k \in Established PROVE FormReady(k)'
      BY <1>1, <1>a, <2>1, <2>4, StepHolds DEF ScriptRuns
    <3>2. \A k \in Established' : FormReady(k)'
      BY <2>2, <3>1
    <3> QED
      BY <2>2, <2>4, <3>2 DEF ScriptRuns, FormLogsIn
  <2> QED
    BY <2>3, <2>4
<1>2. CASE ScriptRefuses \/ ScriptFails \/ ProgramKilledHere \/ UndoConstruction
  BY <1>2, <1>b DEF ScriptRefuses, ScriptFails, ProgramKilledHere, UndoConstruction
<1>3. CASE CommitsConstruction \/ ReturnsToMenu
  BY <1>3, <1>c DEF CommitsConstruction, ReturnsToMenu
<1>4. ASSUME NEW k \in Kinds, StartRotation(k) PROVE FormInv'
  <2>1. menu' = k /\ outcome' = "running" /\ inForce[k] # Nothing /\ inForce' = inForce
    BY <1>4 DEF StartRotation
  <2>2. script' = RotationScript(k)
    BY <1>4 DEF StartRotation, RotationScript
  <2>3. Established' = {k} /\ ~FreshConstruction'
    BY <2>1 DEF Established, Kinds, FreshConstruction
  <2>4. \A h \in Halves : Will(k, h, script')
    BY <2>2, RotationHolds
  <2>5. FormReady(k)'
    BY <2>1, <2>4 DEF FormReady
  <2> QED
    BY <2>1, <2>3, <2>5 DEF ScriptRuns, FormLogsIn
<1>5. CASE ShowHandoff
  <2>1. Established' = {} /\ ~FreshConstruction' /\ outcome' = "running"
    BY <1>5 DEF ShowHandoff, Established, Kinds, FreshConstruction
  <2> QED
    BY <2>1 DEF ScriptRuns, FormLogsIn
<1>6. CASE StartConstruction
  <2> DEFINE fresh == inForce["panel"] = Nothing
  <2>1. PICK plan \in Plans(fresh) : script' = Wizard(plan, fresh)
    BY <1>6 DEF StartConstruction
  <2>2. menu' = "construct" /\ outcome' = "running" /\ inForce' = inForce /\ saved' = Snapshot
    BY <1>6 DEF StartConstruction
  <2>3. saved'.inForce["panel"] = inForce["panel"]
    BY <2>2 DEF Snapshot
  <2>4. FreshConstruction' <=> fresh
    BY <2>2, <2>3 DEF FreshConstruction
  <2>5. CASE fresh
    <3>1. plan.panel = "change"
      BY <2>5 DEF Plans, Kinds
    <3>2. OnCourse(script', 5)
      BY <2>1, <2>5, <3>1, FreshWizardOnCourse
    <3>3. InstallersPair(5)'
      BY DEF InstallersPair
    <3>4. NeverProves'
      BY <3>2, <3>3 DEF NeverProves, OnCourse
    <3> QED
      BY <2>2, <2>4, <2>5, <3>4 DEF ScriptRuns, FormLogsIn
  <2>6. CASE ~fresh
    <3>1. script' = Wizard(plan, FALSE)
      BY <2>1, <2>6
    <3>2. \A k \in Kinds, h \in Halves : Will(k, h, script')
      BY <3>1, WizardHolds
    <3>3. \A k \in Kinds : inForce'[k] # Nothing
      BY <2>2, <2>6, NumbersUsable DEF CredentialsTyped, NodeTyped, Kinds
    <3>4. \A k \in Kinds : FormReady(k)'
      BY <3>2, <3>3 DEF FormReady
    <3>5. Established' = Kinds
      BY <2>2 DEF Established
    <3> QED
      BY <2>2, <2>4, <2>6, <3>4, <3>5 DEF ScriptRuns, FormLogsIn
  <2> QED
    BY <2>5, <2>6
<1>7. CASE ShowForm
  <2>1. /\ ScriptRuns /\ script = <<>> /\ outcome' # "running"
        /\ UNCHANGED <<inForce, menu, saved, protected>>
        /\ outcome' = "shown" => form' = Exported
    BY <1>7 DEF ShowForm, files
  <2>2. ~FreshConstruction
    <3> SUFFICES ASSUME FreshConstruction PROVE FALSE
      OBVIOUS
    <3>1. PICK c \in Int : OnCourse(script, c)
      BY <2>1 DEF NeverProves
    <3> QED
      BY <2>1, <3>1 DEF OnCourse
  <2>3. ASSUME NEW k \in Established, outcome' = "shown" PROVE LogsIn(form, k)'
    <3>1. FormReady(k)
      BY <2>1, <2>2
    <3>2. ASSUME NEW h \in Halves PROVE form'[<<k, h>>] = Written(k, inForce[k], h)
      <4>1. Stored(k, h)
        BY <2>1, <3>1 DEF FormReady, Will
      <4>2. <<k, h>> \in Fields /\ protected[<<k, h>>] # Nothing
        BY <1>a, <4>1, NumbersUsable DEF Fields, Stored, Written
      <4>3. Exported[<<k, h>>] = protected[<<k, h>>]
        BY <4>2, ArchivedIs, ExportedTyped DEF CredentialsTyped, FilesTyped
      <4> QED
        BY <2>1, <2>3, <4>1, <4>3 DEF Stored
    <3> QED
      BY <2>1, <3>1, <3>2 DEF LogsIn, FormReady
  <2>4. Established' = Established
    BY <2>1 DEF Established
  <2> QED
    BY <2>1, <2>3, <2>4 DEF ScriptRuns, FormLogsIn
<1>8. CASE UNCHANGED credentialVars
  <2>1. (Established' = Established) /\ (FreshConstruction' <=> FreshConstruction)
        /\ (NeverProves' <=> NeverProves) /\ (ScriptRuns' <=> ScriptRuns)
    BY <1>8 DEF credentialVars, Established, FreshConstruction, NeverProves, InstallersPair,
                ScriptRuns
  <2>2. \A k \in Kinds : FormReady(k)' <=> FormReady(k)
    BY <1>8 DEF credentialVars, FormReady, Stored
  <2>3. FormLogsIn'
    BY <1>8, <2>1 DEF credentialVars, FormLogsIn, LogsIn
  <2> QED
    BY <1>a, <2>1, <2>2, <2>3
<1> QED
  BY <1>1, <1>2, <1>3, <1>4, <1>5, <1>6, <1>7, <1>8 DEF CredentialsNext, Kinds

\* The pair that the operator is told to save for a login the menu has changed
\* or proved is the one in force, whatever runs were cut, failed or rolled back.
THEOREM FormTrue == CredentialsSpec => []FormLogsIn
<1>1. FormInv => FormLogsIn
  BY DEF FormInv
<1> QED
  BY <1>1, CredentialsStart, CredentialsTypedStep, FormStart, FormStep,
     PTL DEF CredentialsSpec
=============================================================================
