---------------------------- MODULE UpgradeProofs ----------------------------
(***************************************************************************)
(* Proofs about Upgrade for any releases, builds, number of runs and of    *)
(* faults, as long as versions go up with the history.                     *)
(***************************************************************************)
EXTENDS Upgrade, TLAPS

-----------------------------------------------------------------------------
(* Names and files.                                                         *)
LEMMA NormalizeTagIdempotent ==
  ASSUME NEW t \in Name
  PROVE  /\ NormalizeTag(t) \in Name
         /\ NormalizeTag(NormalizeTag(t)) = NormalizeTag(t)
BY DEF NormalizeTag, Name

LEMMA CanonicalIsNormal ==
  ASSUME NEW t \in Name, IsCanonical(t)
  PROVE  NormalizeTag(t) = t
BY DEF IsCanonical, NormalizeTag, Name

LEMMA ReleaseTyped ==
  ASSUME NEW t \in Tag
  PROVE  /\ t \in Name /\ t # None
         /\ Release[t].version \in Versions
         /\ Release[t].age \in Nat /\ Release[t].mine \in BOOLEAN
BY ReleaseAssumption, NoneAssumption DEF Versions

LEMMA BuiltTyped ==
  ASSUME TypeOK, NEW p \in Run, found[p] \in Tag, NEW flushed \in BOOLEAN
  PROVE  /\ Built(p, flushed) \in File
         /\ [Built(p, flushed) EXCEPT !.whole = FALSE] \in File
         /\ Built(p, flushed).whole = archive[p]
BY ReleaseTyped DEF Built, File, TypeOK

LEMMA TypedNames ==
  ASSUME NEW o \in Options, o.tag # None
  PROVE  o.tag \in Name /\ Wanted(o) \in Name /\ Wanted(o) # None
BY ReleaseAssumption, NoneAssumption, NormalizeTagIdempotent DEF Options, Wanted

-----------------------------------------------------------------------------
(* What the invariant says of one run, and what of the rest of the state    *)
(* it depends on.                                                           *)
Ordered(p) ==
  /\ p \in Active => (opts[p].tag = None => IsRelease(opts[p].current))
  /\ pc[p] \in {"checksums", "archive", "stage", "write", "verify", "rename", "installed"} =>
       Resolved(p)
  /\ pc[p] \in {"stage", "write", "verify", "rename"} => archive[p]
  /\ pc[p] \in {"verify", "rename"} => staged[p] = Built(p, TRUE)
  /\ pc[p] \in {"rename", "installed"} => Fits(found[p])
  /\ pc[p] \notin {"write", "verify", "rename", "remove", "killed"} => staged[p] = NoFile

Sent(p) == IF token[p] THEN 1 ELSE 0

Bounded(p) ==
  /\ pc[p] = "idle" => rejected[p] + Sent(p) <= 0
  /\ pc[p] = "resolve" => rejected[p] + Sent(p) <= 1
  /\ rejected[p] + Sent(p) <= 2
  /\ pc[p] \in {"idle", "resolve", "checksums", "archive", "stage", "write"} => tries[p] = 0
  /\ pc[p] = "verify" => tries[p] < ExecAttempts

Explained(p) ==
  pc[p] \in {"remove", "failed"} /\ faults = 0 =>
    tries[p] = ExecAttempts \/ (found[p] # None /\ ~ Fits(found[p]))

InPlace(p) == p \in Active /\ alone[p] => opts[p].current = installed.version

RunOK(p) == Ordered(p) /\ Bounded(p) /\ Explained(p) /\ InPlace(p)

LEMMA InvariantByRun ==
  ASSUME TypeOK
  PROVE  UpgradeInvariant <=> EveryEntryRuns /\ \A p \in Run : RunOK(p)
<1>1. RetriesAreBounded <=> \A p \in Run : Bounded(p)
  BY DEF RetriesAreBounded, Bounded, Sent, TypeOK
<1>2. StepsAreInOrder <=> \A p \in Run : Ordered(p)
  BY DEF StepsAreInOrder, Ordered
<1>3. FailuresHaveAReason <=> \A p \in Run : Explained(p)
  BY DEF FailuresHaveAReason, Explained
<1>4. StillInPlace <=> \A p \in Run : InPlace(p)
  BY DEF StillInPlace, InPlace, Active
<1> QED BY <1>1, <1>2, <1>3, <1>4 DEF UpgradeInvariant, RunOK

(* What a step leaves alone of run p.                                       *)
SameRun(p) ==
  /\ pc'[p] = pc[p] /\ opts'[p] = opts[p] /\ found'[p] = found[p]
  /\ token'[p] = token[p] /\ archive'[p] = archive[p] /\ staged'[p] = staged[p]
  /\ tries'[p] = tries[p] /\ rejected'[p] = rejected[p]

LEMMA RunFrame ==
  ASSUME TypeOK, TypeOK', NEW p \in Run, RunOK(p), SameRun(p), faults <= faults',
         alone'[p] => alone[p] /\ installed'.version = installed.version
  PROVE  RunOK(p)'
<1>1. p \in Active' <=> p \in Active
  BY DEF Active, SameRun
<1>2. Resolved(p)' <=> Resolved(p)
  BY DEF Resolved, SameRun
<1>3. Built(p, TRUE)' = Built(p, TRUE)
  BY DEF Built, SameRun
<1>4. Ordered(p)'
  BY <1>1, <1>2, <1>3 DEF RunOK, Ordered, SameRun
<1>5. Bounded(p)'
  BY DEF RunOK, Bounded, Sent, SameRun
<1>6. Explained(p)'
  BY DEF RunOK, Explained, SameRun, TypeOK
<1>7. InPlace(p)'
  BY <1>1 DEF RunOK, InPlace, SameRun
<1> QED BY <1>4, <1>5, <1>6, <1>7 DEF RunOK

-----------------------------------------------------------------------------
(* Type correctness, action by action.                                      *)
LEMMA CallRunTyped ==
  ASSUME TypeOK, NEW p \in Run, CallRun(p)
  PROVE  TypeOK'
<1>1. PICK o \in Options : Begin(p, o)
  BY DEF CallRun
<1>2. o.token \in BOOLEAN
  BY DEF Options
<1> QED BY <1>1, <1>2 DEF Begin, TypeOK, Goto, Ended, server

LEMMA DownloadTyped ==
  ASSUME TypeOK, NEW p \in Run, RunOK(p),
         \/ TokenRejected(p) \/ ResolveRelease(p) \/ DownloadChecksums(p)
         \/ DownloadArchive(p)
  PROVE  TypeOK'
<1> USE DEF Goto, server, request
<1>1. CASE TokenRejected(p)
  <2>1. rejected[p] <= 1
    BY <1>1 DEF TokenRejected, RunOK, Bounded, Sent, TypeOK
  <2> DEFINE n == rejected[p] + 1
  <2>2. n \in 0 .. 2
    BY <2>1 DEF TypeOK
  <2>3. rejected' = [rejected EXCEPT ![p] = n]
    BY <1>1 DEF TokenRejected
  <2> HIDE DEF n
  <2> QED BY <1>1, <2>2, <2>3 DEF TokenRejected, TypeOK
<1>2. CASE ResolveRelease(p)
  <2>1. opts[p].token \in BOOLEAN
    BY DEF TypeOK, Options
  <2>2. found' \in [Run -> Tag \cup {None}]
    BY <1>2 DEF ResolveRelease, TypeOK
  <2>3. token' \in [Run -> BOOLEAN]
    BY <1>2, <2>1 DEF ResolveRelease, TypeOK
  <2>4. faults' \in 0 .. MaxFaults
    BY <1>2, NumberAssumption DEF ResolveRelease, Fault, TypeOK
  <2>5. pc' \in [Run -> Ended \cup {"idle", "resolve", "checksums", "archive",
               "stage", "write", "verify", "rename", "remove"}]
    BY <1>2 DEF ResolveRelease, NextStep, Ended, TypeOK
  <2> QED BY <1>2, <2>2, <2>3, <2>4, <2>5 DEF ResolveRelease, TypeOK
<1>3. CASE DownloadChecksums(p)
  BY <1>3 DEF DownloadChecksums, Ended, TypeOK
<1>4. CASE DownloadArchive(p)
  <2>1. faults' \in 0 .. MaxFaults
    BY <1>4, NumberAssumption DEF DownloadArchive, Fault, TypeOK
  <2> QED BY <1>4, <2>1 DEF DownloadArchive, Ended, TypeOK
<1> QED BY <1>1, <1>2, <1>3, <1>4

LEMMA ReplaceTyped ==
  ASSUME TypeOK, NEW p \in Run, RunOK(p),
         \/ CreateStaged(p) \/ WriteStaged(p) \/ RunBusy(p) \/ RunStaged(p)
         \/ Rename(p) \/ RemoveStaged(p)
  PROVE  TypeOK'
<1> USE DEF Goto, server, request
<1>1. CASE CreateStaged(p)
  <2>1. found[p] \in Tag
    BY <1>1 DEF CreateStaged, RunOK, Ordered, Resolved
  <2>2. [Built(p, FALSE) EXCEPT !.whole = FALSE] \in File
    BY <2>1, BuiltTyped
  <2> QED BY <1>1, <2>2 DEF CreateStaged, TypeOK
<1>2. CASE WriteStaged(p)
  <2>1. found[p] \in Tag
    BY <1>2 DEF WriteStaged, RunOK, Ordered, Resolved
  <2>2. Built(p, TRUE) \in File
    BY <2>1, BuiltTyped
  <2> QED BY <1>2, <2>2 DEF WriteStaged, TypeOK
<1>3. CASE RunBusy(p)
  <2> DEFINE n == tries[p] + 1
  <2>1. n \in 0 .. ExecAttempts
    BY <1>3, NumberAssumption DEF RunBusy, RunOK, Bounded, TypeOK
  <2>2. tries' = [tries EXCEPT ![p] = n]
    BY <1>3 DEF RunBusy
  <2> HIDE DEF n
  <2> QED BY <1>3, <2>1, <2>2 DEF RunBusy, TypeOK
<1>4. CASE RunStaged(p)
  BY <1>4 DEF RunStaged, TypeOK
<1>5. CASE Rename(p)
  <2>1. found[p] \in Tag /\ staged[p] = Built(p, TRUE)
    BY <1>5 DEF Rename, RunOK, Ordered, Resolved
  <2>2. staged[p] \in File
    BY <2>1, BuiltTyped
  <2> QED BY <1>5, <2>2 DEF Rename, Ended, TypeOK
<1>6. CASE RemoveStaged(p)
  BY <1>6 DEF RemoveStaged, Ended, TypeOK
<1> QED BY <1>1, <1>2, <1>3, <1>4, <1>5, <1>6

LEMMA EnvironmentTyped ==
  ASSUME TypeOK,
         \/ \E p \in Run : CallFails(p)
         \/ PowerLoss \/ ForkExecs \/ GitHubChanges \/ AnotherInstalls
  PROVE  TypeOK'
<1> USE DEF server, request
<1>1. CASE \E p \in Run : CallFails(p)
  <2>1. PICK p \in Run : CallFails(p)
    BY <1>1
  <2>2. faults' \in 0 .. MaxFaults
    BY <2>1, NumberAssumption DEF CallFails, Fault, TypeOK
  <2> QED BY <2>1, <2>2 DEF CallFails, Goto, Ended, TypeOK
<1>2. CASE PowerLoss
  <2>1. faults' \in 0 .. MaxFaults
    BY <1>2, NumberAssumption DEF PowerLoss, Fault, TypeOK
  <2>2. PICK file \in shadow \cup {installed} :
          installed' = [file EXCEPT !.whole = @ /\ file.flushed]
    BY <1>2 DEF PowerLoss
  <2>3. file \in File
    BY <2>2 DEF TypeOK
  <2>4. installed' \in File
    BY <2>2, <2>3 DEF File
  <2> QED BY <1>2, <2>1, <2>4 DEF PowerLoss, Ended, TypeOK
<1>3. CASE ForkExecs
  BY <1>3 DEF ForkExecs, TypeOK
<1>4. CASE GitHubChanges
  BY <1>4 DEF GitHubChanges, TypeOK
<1>5. CASE AnotherInstalls
  <2>1. PICK v \in Tag : installed' = [installed EXCEPT !.version = Release[v].version,
                                                        !.age = Release[v].age]
    BY <1>5 DEF AnotherInstalls, TypeOK
  <2>2. installed' \in File
    BY <2>1, ReleaseTyped DEF File, TypeOK
  <2> QED BY <1>5, <2>2 DEF AnotherInstalls, TypeOK
<1> QED BY <1>1, <1>2, <1>3, <1>4, <1>5

-----------------------------------------------------------------------------
(* The steps of run p keep what the invariant says of it.                   *)
LEMMA BeginKeeps ==
  ASSUME TypeOK, TypeOK', NEW p \in Run, RunOK(p), CallRun(p)
  PROVE  RunOK(p)'
<1>1. PICK o \in Options : o.current = installed.version /\ Begin(p, o)
  BY DEF CallRun
<1>2. pc[p] = "idle" /\ opts'[p] = o /\ alone'[p]
  BY <1>1 DEF Begin, TypeOK
<1>3. \/ pc'[p] = "refused"
      \/ pc'[p] = "resolve" /\ (o.tag = None => IsRelease(o.current))
  BY <1>1 DEF Begin, Goto, TypeOK
<1>4. Ordered(p)'
  BY <1>1, <1>2, <1>3 DEF RunOK, Ordered, Begin, Active, Ended
<1>5. Bounded(p)'
  BY <1>1, <1>2, <1>3 DEF RunOK, Bounded, Sent, Begin, TypeOK
<1>6. Explained(p)'
  BY <1>3 DEF Explained
<1>7. InPlace(p)'
  BY <1>1, <1>2 DEF InPlace, Begin
<1> QED BY <1>4, <1>5, <1>6, <1>7 DEF RunOK

LEMMA TokenRejectedKeeps ==
  ASSUME TypeOK, TypeOK', NEW p \in Run, RunOK(p), TokenRejected(p)
  PROVE  RunOK(p)'
<1>1. /\ pc[p] \in {"resolve", "checksums", "archive"}
      /\ pc' = pc /\ p \in Active /\ p \in Active'
  BY DEF TokenRejected, Active, Ended
<1>2. Ordered(p)'
  <2>1. Resolved(p)' <=> Resolved(p)
    BY DEF Resolved, TokenRejected
  <2> QED BY <1>1, <2>1 DEF RunOK, Ordered, TokenRejected
<1>3. Bounded(p)'
  <2>1. token[p] /\ token'[p] = FALSE /\ rejected'[p] = rejected[p] + 1
    BY DEF TokenRejected, TypeOK
  <2> QED BY <1>1, <2>1 DEF RunOK, Bounded, Sent, TokenRejected, TypeOK
<1>4. Explained(p)'
  BY <1>1 DEF Explained
<1>5. InPlace(p)'
  BY <1>1 DEF RunOK, InPlace, TokenRejected
<1> QED BY <1>2, <1>3, <1>4, <1>5 DEF RunOK

(* What resolveRelease lets through is what the user asked for.             *)
LEMMA NextStepResolves ==
  ASSUME TypeOK, NEW p \in Run, NEW v \in Tag, NextStep(p, v) = "checksums"
  PROVE  /\ AboveFloor(Floor, v)
         /\ IF opts[p].tag = None THEN IsNewer(opts[p].current, v)
            ELSE v = Wanted(opts[p])
<1>1. Wanted(opts[p]) \in {None, v} /\ AboveFloor(Floor, v)
  BY DEF NextStep
<1>2. opts[p].tag = None => IsNewer(opts[p].current, v)
  BY DEF NextStep
<1>3. opts[p].tag # None => Wanted(opts[p]) # None
  BY TypedNames DEF TypeOK
<1> QED BY <1>1, <1>2, <1>3

LEMMA ResolveKeeps ==
  ASSUME TypeOK, TypeOK', NEW p \in Run, RunOK(p), ResolveRelease(p)
  PROVE  RunOK(p)'
<1>1. pc[p] = "resolve" /\ p \in Active
  BY DEF ResolveRelease, Active, Ended
<1>2. CASE pc'[p] = "missing" /\ UNCHANGED token
  BY <1>1, <1>2 DEF ResolveRelease, RunOK, Ordered, Bounded, Sent, Explained, InPlace,
     Active, Ended, TypeOK
<1>3. CASE \E v \in published : /\ found' = [found EXCEPT ![p] = v]
                                /\ token' = [token EXCEPT ![p] = opts[p].token]
                                /\ Goto(p, NextStep(p, v))
  <2>1. PICK v \in published : /\ found' = [found EXCEPT ![p] = v]
                               /\ token' = [token EXCEPT ![p] = opts[p].token]
                               /\ Goto(p, NextStep(p, v))
    BY <1>3
  <2>2. v \in Tag /\ found'[p] = v /\ pc'[p] = NextStep(p, v)
    BY <2>1 DEF Goto, TypeOK
  <2>3. pc'[p] \in {"refused", "nothing", "checksums"}
    BY <2>2 DEF NextStep
  <2>4. pc'[p] = "checksums" => Resolved(p)'
    BY <2>2, NextStepResolves DEF ResolveRelease, Resolved
  <2>5. Ordered(p)'
    BY <1>1, <2>3, <2>4 DEF ResolveRelease, RunOK, Ordered
  <2>6. Bounded(p)'
    BY <1>1, <2>3 DEF ResolveRelease, RunOK, Bounded, Sent, TypeOK
  <2>7. Explained(p)' /\ InPlace(p)'
    BY <1>1, <2>3 DEF ResolveRelease, RunOK, Explained, InPlace
  <2> QED BY <2>5, <2>6, <2>7 DEF RunOK
<1> QED BY <1>2, <1>3 DEF ResolveRelease, Goto, TypeOK

LEMMA DownloadKeeps ==
  ASSUME TypeOK, TypeOK', NEW p \in Run, RunOK(p),
         DownloadChecksums(p) \/ DownloadArchive(p)
  PROVE  RunOK(p)'
<1>1. /\ pc[p] \in {"checksums", "archive"} /\ p \in Active
      /\ UNCHANGED <<opts, found, token, staged, tries, rejected, alone, installed>>
  BY DEF DownloadChecksums, DownloadArchive, Active, Ended, request
<1>2. /\ pc'[p] \in {"missing", "archive", "stage", "refused"}
      /\ pc'[p] = "stage" => archive'[p]
  BY DEF DownloadChecksums, DownloadArchive, Goto, TypeOK
<1>3. Resolved(p)'
  BY <1>1 DEF RunOK, Ordered, Resolved
<1>4. Ordered(p)'
  BY <1>1, <1>2, <1>3 DEF RunOK, Ordered
<1>5. Bounded(p)' /\ Explained(p)' /\ InPlace(p)'
  BY <1>1, <1>2 DEF RunOK, Bounded, Sent, Explained, InPlace, TypeOK
<1> QED BY <1>4, <1>5 DEF RunOK

LEMMA StageKeeps ==
  ASSUME TypeOK, TypeOK', NEW p \in Run, RunOK(p), CreateStaged(p) \/ WriteStaged(p)
  PROVE  RunOK(p)'
<1>1. /\ pc[p] \in {"stage", "write"} /\ p \in Active
      /\ UNCHANGED <<opts, found, token, archive, tries, rejected, alone, installed>>
  BY DEF CreateStaged, WriteStaged, Active, Ended, request
<1>2. \/ pc'[p] = "write"
      \/ pc'[p] = "verify" /\ staged'[p] = Built(p, TRUE)
  BY DEF CreateStaged, WriteStaged, Goto, TypeOK
<1>3. Resolved(p)' /\ Built(p, TRUE)' = Built(p, TRUE)
  BY <1>1 DEF RunOK, Ordered, Resolved, Built
<1>4. Ordered(p)'
  BY <1>1, <1>2, <1>3 DEF RunOK, Ordered
<1>5. Bounded(p)'
  <2>1. tries'[p] = 0 /\ 0 < ExecAttempts
    BY <1>1, NumberAssumption DEF RunOK, Bounded
  <2>2. rejected'[p] + Sent(p)' <= 2
    BY <1>1 DEF RunOK, Bounded, Sent
  <2> QED BY <1>2, <2>1, <2>2 DEF Bounded
<1>6. Explained(p)' /\ InPlace(p)'
  BY <1>1, <1>2 DEF RunOK, Explained, InPlace
<1> QED BY <1>4, <1>5, <1>6 DEF RunOK

LEMMA VerifyKeeps ==
  ASSUME TypeOK, TypeOK', NEW p \in Run, RunOK(p), RunBusy(p) \/ RunStaged(p)
  PROVE  RunOK(p)'
<1>1. /\ pc[p] = "verify" /\ p \in Active
      /\ UNCHANGED <<opts, found, token, archive, staged, rejected, alone, installed>>
  BY DEF RunBusy, RunStaged, Active, Ended, request
<1>2. /\ Resolved(p) /\ archive[p] /\ staged[p] = Built(p, TRUE)
      /\ Resolved(p)' /\ Built(p, TRUE)' = Built(p, TRUE)
  BY <1>1 DEF RunOK, Ordered, Resolved, Built
<1>3. CASE RunBusy(p)
  <2>1. /\ tries'[p] = tries[p] + 1
        /\ pc'[p] = IF tries'[p] = ExecAttempts THEN "remove" ELSE "verify"
    BY <1>3 DEF RunBusy, Goto, TypeOK
  <2>2. Ordered(p)'
    BY <1>1, <1>2, <2>1 DEF RunOK, Ordered
  <2>3. Bounded(p)'
    BY <1>1, <2>1, NumberAssumption DEF RunOK, Bounded, Sent, TypeOK
  <2>4. Explained(p)' /\ InPlace(p)'
    BY <1>1, <2>1 DEF RunOK, Explained, InPlace
  <2> QED BY <2>2, <2>3, <2>4 DEF RunOK
<1>4. CASE RunStaged(p)
  <2>1. /\ tries' = tries
        /\ \/ pc'[p] = "rename" /\ staged[p].mine /\ SameTag(staged[p].version, found[p])
           \/ pc'[p] = "remove" /\ ~ (staged[p].mine /\ SameTag(staged[p].version, found[p]))
    BY <1>4 DEF RunStaged, Goto, TypeOK
  <2>2. Fits(found[p]) <=> staged[p].mine /\ SameTag(staged[p].version, found[p])
    BY <1>2 DEF Fits, Built
  <2>3. found[p] # None
    BY <1>2, ReleaseTyped DEF Resolved
  <2>4. Ordered(p)'
    BY <1>1, <1>2, <2>1, <2>2 DEF RunOK, Ordered, Fits
  <2>5. Bounded(p)' /\ InPlace(p)'
    BY <1>1, <2>1 DEF RunOK, Bounded, Sent, InPlace
  <2>6. Explained(p)'
    BY <1>1, <2>1, <2>2, <2>3 DEF Explained, Fits
  <2> QED BY <2>4, <2>5, <2>6 DEF RunOK
<1> QED BY <1>3, <1>4

LEMMA EndKeeps ==
  ASSUME TypeOK, TypeOK', NEW p \in Run, RunOK(p), Rename(p) \/ RemoveStaged(p)
  PROVE  RunOK(p)'
<1>1. /\ UNCHANGED <<opts, found, token, archive, tries, rejected, faults>>
      /\ staged'[p] = NoFile
      /\ \/ pc[p] = "rename" /\ pc'[p] = "installed"
         \/ pc[p] = "remove" /\ pc'[p] = "failed"
  BY DEF Rename, RemoveStaged, Goto, TypeOK, request
<1>2. pc[p] = "rename" => Resolved(p)' /\ Fits(found[p])'
  BY <1>1 DEF RunOK, Ordered, Resolved, Fits
<1>3. p \notin Active'
  BY <1>1 DEF Active, Ended
<1>4. Ordered(p)'
  BY <1>1, <1>2, <1>3 DEF Ordered
<1>5. Bounded(p)' /\ Explained(p)' /\ InPlace(p)'
  BY <1>1, <1>3 DEF RunOK, Bounded, Sent, Explained, InPlace, Fits
<1> QED BY <1>4, <1>5 DEF RunOK

LEMMA FailKeeps ==
  ASSUME TypeOK, TypeOK', NEW p \in Run, RunOK(p), CallFails(p)
  PROVE  RunOK(p)'
<1>1. /\ UNCHANGED <<opts, found, token, archive, staged, tries, rejected, alone, installed>>
      /\ p \in Active /\ pc[p] # "idle" /\ faults' = faults + 1
      /\ pc'[p] = IF staged[p] = NoFile THEN "failed" ELSE "remove"
  BY DEF CallFails, Fault, Active, Goto, TypeOK, request
<1>2. Ordered(p)'
  BY <1>1 DEF RunOK, Ordered
<1>3. Bounded(p)'
  BY <1>1 DEF RunOK, Bounded, Sent, TypeOK
<1>4. Explained(p)'
  BY <1>1 DEF Explained, TypeOK
<1>5. InPlace(p)'
  BY <1>1 DEF RunOK, InPlace
<1> QED BY <1>2, <1>3, <1>4, <1>5 DEF RunOK

-----------------------------------------------------------------------------
(* The steps of a run leave the others alone.                               *)
LEMMA OthersKept ==
  ASSUME TypeOK, TypeOK', NEW p \in Run, CallRun(p) \/ Step(p) \/ CallFails(p),
         NEW q \in Run \ {p}, RunOK(q)
  PROVE  RunOK(q)'
<1> USE DEF Goto, request
<1>1. CASE CallRun(p)
  <2>1. SameRun(q) /\ UNCHANGED <<faults, installed>> /\ alone'[q] = alone[q]
    BY <1>1 DEF CallRun, Begin, SameRun, TypeOK
  <2> QED BY <2>1, RunFrame DEF TypeOK
<1>2. CASE Rename(p)
  <2>1. SameRun(q) /\ UNCHANGED faults /\ ~ alone'[q]
    BY <1>2 DEF Rename, SameRun, TypeOK
  <2> QED BY <2>1, RunFrame DEF TypeOK
<1>3. CASE CallFails(p) \/ (Step(p) /\ ~ Rename(p))
  <2>1. SameRun(q)
    BY <1>3 DEF CallFails, Step, TokenRejected, ResolveRelease, DownloadChecksums,
       DownloadArchive, CreateStaged, WriteStaged, RunBusy, RunStaged, RemoveStaged,
       SameRun, TypeOK
  <2>2. UNCHANGED <<alone, installed>>
    BY <1>3 DEF CallFails, Step, TokenRejected, ResolveRelease, DownloadChecksums,
       DownloadArchive, CreateStaged, WriteStaged, RunBusy, RunStaged, RemoveStaged
  <2>3. UNCHANGED faults \/ Fault
    BY <1>3 DEF CallFails, Step, TokenRejected, ResolveRelease, DownloadChecksums,
       DownloadArchive, CreateStaged, WriteStaged, RunBusy, RunStaged, RemoveStaged
  <2>4. faults <= faults'
    BY <2>3 DEF Fault, TypeOK
  <2> QED BY <2>1, <2>2, <2>4, RunFrame
<1> QED BY <1>1, <1>2, <1>3

LEMMA EnvironmentKeeps ==
  ASSUME TypeOK, TypeOK', NEW p \in Run, RunOK(p),
         PowerLoss \/ ForkExecs \/ GitHubChanges \/ AnotherInstalls
  PROVE  RunOK(p)'
<1>1. CASE PowerLoss
  <2>1. /\ UNCHANGED <<request, staged, tries, alone>> /\ p \notin Active'
        /\ pc'[p] = IF p \in Active THEN "killed" ELSE pc[p]
        /\ faults' = faults + 1
    BY <1>1 DEF PowerLoss, Active, Ended, Fault
  <2>2. Resolved(p)' <=> Resolved(p)
    BY <2>1 DEF Resolved, request
  <2>3. p \in Active => Ordered(p)'
    BY <2>1 DEF Ordered
  <2>4. p \notin Active => Ordered(p)'
    BY <2>1, <2>2 DEF RunOK, Ordered, Active, Ended, request
  <2>5. Bounded(p)'
    BY <2>1 DEF RunOK, Bounded, Sent, Active, request
  <2>6. Explained(p)' /\ InPlace(p)'
    BY <2>1 DEF Explained, InPlace, TypeOK
  <2> QED BY <2>3, <2>4, <2>5, <2>6 DEF RunOK
<1>2. CASE ForkExecs \/ GitHubChanges
  <2>1. SameRun(p) /\ UNCHANGED <<faults, alone, installed>>
    BY <1>2 DEF ForkExecs, GitHubChanges, SameRun, request
  <2> QED BY <2>1, RunFrame DEF TypeOK
<1>3. CASE AnotherInstalls
  <2>1. SameRun(p) /\ UNCHANGED faults /\ ~ alone'[p]
    BY <1>3 DEF AnotherInstalls, SameRun, request
  <2> QED BY <2>1, RunFrame DEF TypeOK
<1> QED BY <1>1, <1>2, <1>3

LEMMA RunsKept ==
  ASSUME TypeOK, TypeOK', \A p \in Run : RunOK(p), Next
  PROVE  \A p \in Run : RunOK(p)'
<1>1. CASE PowerLoss \/ ForkExecs \/ GitHubChanges \/ AnotherInstalls
  BY <1>1, EnvironmentKeeps
<1>2. ASSUME NEW p \in Run, CallRun(p) \/ Step(p) \/ CallFails(p)
      PROVE  \A q \in Run : RunOK(q)'
  <2>1. RunOK(p)'
    BY <1>2, BeginKeeps, TokenRejectedKeeps, ResolveKeeps, DownloadKeeps, StageKeeps,
       VerifyKeeps, EndKeeps, FailKeeps DEF Step
  <2>2. \A q \in Run \ {p} : RunOK(q)'
    BY <1>2, OthersKept
  <2> QED BY <2>1, <2>2
<1> QED BY <1>1, <1>2 DEF Next

-----------------------------------------------------------------------------
(* What is on PATH, and what a power loss may bring back to it.             *)
Good(file) ==
  /\ file.whole /\ file.mine /\ file.flushed
  /\ <<file.version, file.age>> \in Code

LEMMA RenamesAGoodFile ==
  ASSUME TypeOK, NEW p \in Run, RunOK(p), Rename(p)
  PROVE  /\ Good(staged[p])
         /\ Resolved(p) /\ Fits(found[p]) /\ installed' = Built(p, TRUE)
<1>1. /\ Resolved(p) /\ Fits(found[p]) /\ archive[p]
      /\ staged[p] = Built(p, TRUE) /\ installed' = staged[p]
  BY DEF Rename, RunOK, Ordered
<1>2. /\ staged[p].whole /\ staged[p].mine /\ staged[p].flushed
      /\ staged[p].version = Release[found[p]].version
      /\ staged[p].age = Release[found[p]].age
  BY <1>1 DEF Built, Fits
<1>3. <<Release[found[p]].version, Release[found[p]].age>> \in Code
  BY <1>1 DEF Code, Resolved
<1> QED BY <1>1, <1>2, <1>3 DEF Good

LEMMA EntriesKept ==
  ASSUME TypeOK, EveryEntryRuns, \A p \in Run : RunOK(p), Next
  PROVE  EveryEntryRuns'
<1>1. \A file \in shadow \cup {installed} : Good(file)
  BY DEF EveryEntryRuns, Good
<1>2. \A file \in shadow' \cup {installed'} : Good(file)
  <2>1. CASE UNCHANGED <<installed, shadow>>
    BY <1>1, <2>1
  <2>2. ASSUME NEW p \in Run, Rename(p)
        PROVE  \A file \in shadow' \cup {installed'} : Good(file)
    <3>1. Good(installed') /\ shadow' = shadow \cup {installed}
      BY <2>2, RenamesAGoodFile DEF Rename
    <3> QED BY <1>1, <3>1
  <2>3. CASE PowerLoss
    <3>1. PICK file \in shadow \cup {installed} :
            installed' = [file EXCEPT !.whole = @ /\ file.flushed]
      BY <2>3 DEF PowerLoss
    <3>2. Good(file) /\ file \in File
      BY <1>1, <3>1 DEF TypeOK
    <3>3. Good(installed')
      BY <3>1, <3>2 DEF Good, File
    <3> QED BY <2>3, <3>3 DEF PowerLoss
  <2>4. CASE AnotherInstalls
    <3>1. PICK v \in {t \in published : Fits(t) /\ AboveFloor(Floor, t)} :
            installed' = [installed EXCEPT !.version = Release[v].version,
                                           !.age = Release[v].age]
      BY <2>4 DEF AnotherInstalls
    <3>2. <<Release[v].version, Release[v].age>> \in Code
      BY <3>1 DEF Code, TypeOK
    <3>3. Good(installed')
      BY <1>1, <3>1, <3>2 DEF Good, File, TypeOK
    <3>4. shadow' = shadow \cup {installed}
      BY <2>4 DEF AnotherInstalls
    <3> QED BY <1>1, <3>3, <3>4
  <2>5. ASSUME NEW p \in Run, CallRun(p) \/ Step(p) \/ CallFails(p), ~ Rename(p)
        PROVE  UNCHANGED <<installed, shadow>>
    BY <2>5 DEF CallRun, Begin, CallFails, Step, TokenRejected, ResolveRelease,
       DownloadChecksums, DownloadArchive, CreateStaged, WriteStaged, RunBusy,
       RunStaged, RemoveStaged
  <2>6. CASE ForkExecs \/ GitHubChanges
    BY <2>1, <2>6 DEF ForkExecs, GitHubChanges
  <2> QED BY <2>1, <2>2, <2>3, <2>4, <2>5, <2>6 DEF Next
<1> QED BY <1>2 DEF EveryEntryRuns, Good

-----------------------------------------------------------------------------
LEMMA InitialRuns ==
  ASSUME Init
  PROVE  UpgradeInvariant
<1>1. PICK b \in Build :
        installed = [version |-> b[1], age |-> b[2],
                     mine |-> TRUE, whole |-> TRUE, flushed |-> TRUE]
  BY DEF Init
<1>2. b[1] \in Versions /\ b[2] \in Nat /\ b = <<b[1], b[2]>>
  BY ReleaseAssumption DEF Versions
<1>3. installed \in File /\ installed.version \in Versions
  BY <1>1, <1>2 DEF File
<1>4. TypeOK
  <2>1. [tag |-> None, check |-> FALSE, token |-> FALSE, current |-> installed.version]
          \in Options
    BY <1>3 DEF Options
  <2>2. opts \in [Run -> Options]
    BY <2>1 DEF Init
  <2>3. /\ published \in SUBSET Tag /\ latest \in published
        /\ valid \in BOOLEAN /\ busy \in BOOLEAN /\ shadow \in SUBSET File
    BY DEF Init
  <2>4. /\ pc \in [Run -> Ended \cup {"idle", "resolve", "checksums", "archive",
                     "stage", "write", "verify", "rename", "remove"}]
        /\ found \in [Run -> Tag \cup {None}] /\ staged \in [Run -> File \cup {NoFile}]
        /\ token \in [Run -> BOOLEAN] /\ archive \in [Run -> BOOLEAN]
        /\ alone \in [Run -> BOOLEAN]
    BY DEF Init
  <2>5. /\ tries \in [Run -> 0 .. ExecAttempts] /\ rejected \in [Run -> 0 .. 2]
        /\ faults \in 0 .. MaxFaults
    BY NumberAssumption DEF Init
  <2> QED BY <1>3, <2>2, <2>3, <2>4, <2>5 DEF TypeOK
<1>5. EveryEntryRuns
  <2>1. installed.version = b[1] /\ installed.age = b[2]
    BY <1>1
  <2>2. <<installed.version, installed.age>> \in Code
    BY <1>2, <2>1 DEF Code
  <2>3. installed.whole /\ installed.mine /\ installed.flushed
    BY <1>1
  <2>4. shadow = {}
    BY DEF Init
  <2> QED BY <2>2, <2>3, <2>4 DEF EveryEntryRuns
<1>6. ASSUME NEW p \in Run
      PROVE  RunOK(p)
  BY <1>6, NumberAssumption DEF Init, RunOK, Ordered, Bounded, Sent, Explained, InPlace,
     Active, Ended
<1> QED BY <1>4, <1>5, <1>6, InvariantByRun

LEMMA InvariantKept ==
  ASSUME UpgradeInvariant, [Next]_vars
  PROVE  UpgradeInvariant'
<1>1. TypeOK /\ EveryEntryRuns /\ \A p \in Run : RunOK(p)
  BY InvariantByRun DEF UpgradeInvariant
<1>2. CASE Next
  <2>1. TypeOK'
    BY <1>1, <1>2, CallRunTyped, DownloadTyped, ReplaceTyped, EnvironmentTyped
       DEF Next, Step
  <2>2. \A p \in Run : RunOK(p)'
    BY <1>1, <1>2, <2>1, RunsKept
  <2>3. EveryEntryRuns'
    BY <1>1, <1>2, EntriesKept
  <2>4. TypeOK' => (UpgradeInvariant <=> EveryEntryRuns /\ \A p \in Run : RunOK(p))'
    BY InvariantByRun, PTL
  <2> QED BY <2>1, <2>2, <2>3, <2>4
<1>3. CASE UNCHANGED vars
  BY <1>3 DEF vars, server, request, UpgradeInvariant, TypeOK, StepsAreInOrder,
     Resolved, Built, Active, RetriesAreBounded, FailuresHaveAReason, EveryEntryRuns,
     StillInPlace
<1> QED BY <1>2, <1>3

(* The invariant of upgrades holds whatever the network, the disk, GitHub   *)
(* and other upgrades do.                                                   *)
THEOREM UpgradesInvariant == Spec => []UpgradeInvariant
BY InitialRuns, InvariantKept, PTL DEF Spec

(* An interrupted upgrade cannot leave a half-written executable on PATH,   *)
(* nor one of the other role (upgrade.go:26).                               *)
THEOREM PathStaysRunnable == Spec => []PathIsRunnable
<1>1. UpgradeInvariant => PathIsRunnable
  BY DEF UpgradeInvariant, EveryEntryRuns, PathIsRunnable
<1> QED BY <1>1, UpgradesInvariant, PTL

(* What replace puts on PATH is the tag that was asked for, or a release    *)
(* newer than the one that runs, and never one below MinReleaseTag.         *)
THEOREM UpgradesInstallWhatWasAsked == Spec => []InstallsWhatWasAsked
<1>1. UpgradeInvariant => InstallsWhatWasAsked
  <2> SUFFICES ASSUME UpgradeInvariant, NEW p \in Run, pc[p] = "installed"
               PROVE  /\ AboveFloor(Floor, found[p]) /\ Fits(found[p])
                      /\ IF opts[p].tag = None THEN IsNewer(opts[p].current, found[p])
                         ELSE SameTag(found[p], opts[p].tag)
    BY DEF InstallsWhatWasAsked
  <2>1. Resolved(p) /\ Fits(found[p])
    BY DEF UpgradeInvariant, StepsAreInOrder
  <2>2. ASSUME opts[p].tag # None
        PROVE  SameTag(found[p], opts[p].tag)
    <3>1. opts[p] \in Options /\ opts[p].tag \in Name
      BY <2>2, TypedNames DEF UpgradeInvariant, TypeOK
    <3>2. found[p] = NormalizeTag(opts[p].tag)
      BY <2>1, <2>2 DEF Resolved, Wanted
    <3> QED BY <3>1, <3>2, NormalizeTagIdempotent DEF SameTag
  <2> QED BY <2>1, <2>2 DEF Resolved
<1> QED BY <1>1, UpgradesInvariant, PTL

(* A run that fails leaves nothing beside the binary, and one that succeeds *)
(* neither (install.go:118).                                                *)
THEOREM RunsLeaveNothingBehind == Spec => []NothingLeftBehind
<1>1. UpgradeInvariant => NothingLeftBehind
  BY DEF UpgradeInvariant, StepsAreInOrder, NothingLeftBehind, Ended
<1> QED BY <1>1, UpgradesInvariant, PTL

(* A token that GitHub rejects fails no upgrade (github.go:171-175).        *)
THEOREM StaleTokenFailsNothing == Spec => []TokenIsOptional
<1>1. UpgradeInvariant => TokenIsOptional
  BY DEF UpgradeInvariant, FailuresHaveAReason, TokenIsOptional
<1> QED BY <1>1, UpgradesInvariant, PTL

-----------------------------------------------------------------------------
(* Only replace's rename ends a run with its file on PATH.                  *)
LEMMA OnlyRenameInstalls ==
  ASSUME TypeOK, NEW p \in Run, Next, pc[p] = "rename", pc'[p] = "installed"
  PROVE  Rename(p)
<1>1. CASE PowerLoss \/ ForkExecs \/ GitHubChanges \/ AnotherInstalls
  BY <1>1 DEF PowerLoss, ForkExecs, GitHubChanges, AnotherInstalls, Active, Ended
<1>2. ASSUME NEW q \in Run, CallRun(q) \/ Step(q) \/ CallFails(q), q # p
      PROVE  FALSE
  BY <1>2 DEF CallRun, Begin, CallFails, Step, TokenRejected, ResolveRelease,
     DownloadChecksums, DownloadArchive, CreateStaged, WriteStaged, RunBusy,
     RunStaged, Rename, RemoveStaged, Goto, TypeOK
<1>3. CASE CallRun(p) \/ (Step(p) /\ ~ Rename(p)) \/ CallFails(p)
  BY <1>3 DEF CallRun, Begin, CallFails, Step, TokenRejected, ResolveRelease,
     DownloadChecksums, DownloadArchive, CreateStaged, WriteStaged, RunBusy,
     RunStaged, RemoveStaged, Goto, TypeOK
<1> QED BY <1>1, <1>2, <1>3 DEF Next

(* Without --tag no run goes back to older code (upgrade.go:122-124), as    *)
(* long as no other run replaced the binary in the meantime.                *)
THEOREM UpgradesNeverStepBack == Spec => NoStepBack
<1>1. UpgradeInvariant /\ [Next]_vars =>
        [\A p \in Run :
           pc[p] = "rename" /\ pc'[p] = "installed" /\ alone[p] /\ opts[p].tag = None =>
             installed'.age > installed.age]_vars
  <2> SUFFICES ASSUME UpgradeInvariant, Next, NEW p \in Run,
                      pc[p] = "rename", pc'[p] = "installed", alone[p], opts[p].tag = None
               PROVE  installed'.age > installed.age
    OBVIOUS
  <2>1. TypeOK /\ EveryEntryRuns /\ RunOK(p)
    BY InvariantByRun DEF UpgradeInvariant
  <2>2. Resolved(p) /\ Fits(found[p]) /\ installed' = Built(p, TRUE)
    BY <2>1, OnlyRenameInstalls, RenamesAGoodFile
  <2>3. p \in Active
    BY DEF Active, Ended
  <2>4. IsRelease(installed.version) /\ IsNewer(installed.version, found[p])
    BY <2>1, <2>2, <2>3 DEF RunOK, Ordered, InPlace, Resolved
  <2> DEFINE c == <<installed.version, installed.age>>
  <2>5. c \in Code /\ c[1] = installed.version /\ c[2] = installed.age
    BY <2>1 DEF EveryEntryRuns
  <2> HIDE DEF c
  <2>6. found[p] \in Tag /\ found[p] \in Name /\ AboveFloor(Floor, found[p])
    BY <2>2, ReleaseAssumption DEF Resolved
  <2>7. c[1] \in Name
    BY <2>1, <2>5, ReleaseAssumption DEF TypeOK, File, Versions
  <2>8. installed.age < Release[found[p]].age
    <3>1. c[1].tail \notin {"described", "dirty"} /\ Len(c[1].core) > 1
      BY <2>4, <2>5, <2>7 DEF IsRelease, IsReleaseTag, NormalizeTag, Name
    <3>2. Exceeds(found[p], NormalizeTag(c[1]))
      BY <2>4, <2>5, <2>6, CanonicalIsNormal DEF IsNewer, AboveFloor
    <3> QED BY <2>2, <2>5, <2>6, <3>1, <3>2, HistoryAssumption
  <2>9. Release[found[p]].age \in Nat /\ installed.age \in Nat
    BY <2>1, <2>6, ReleaseTyped DEF TypeOK, File
  <2> QED BY <2>2, <2>8, <2>9 DEF Built
<1> QED BY <1>1, UpgradesInvariant, PTL DEF Spec, NoStepBack
=============================================================================
