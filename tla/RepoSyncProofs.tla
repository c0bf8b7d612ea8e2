--------------------------- MODULE RepoSyncProofs ---------------------------
(***************************************************************************)
(* Proofs about RepoSync for any number of syncs, branches and changes.    *)
(***************************************************************************)
EXTENDS RepoSync, WellFoundedInduction, TLAPS

-----------------------------------------------------------------------------
(* The branch of an iteration is one that is still to be dealt with.        *)
LEMMA SmallestExists ==
  ASSUME NEW T, T \subseteq Nat, T # {}
  PROVE  \E x \in T : \A y \in T : x <= y
<1>1. PICK x \in T : \A y \in T : ~ (<<y, x>> \in OpToRel(<, Nat))
  BY NatLessThanWellFounded, WFMin
<1>2. \A y \in T : ~ (y < x)
  BY <1>1 DEF OpToRel
<1> QED BY <1>2

LEMMA NextBranchListed ==
  ASSUME TypeOK, NEW s \in Sync, todo[s] # {}
  PROVE  NextBranch(s) \in todo[s] /\ NextBranch(s) \in Tracking
<1>1. todo[s] \subseteq Tracking /\ todo[s] \subseteq Nat
  BY BranchAssumption DEF TypeOK
<1>2. \E b \in todo[s] : \A other \in todo[s] : b <= other
  BY <1>1, SmallestExists
<1>3. NextBranch(s) \in todo[s]
  BY <1>2, Zenon DEF NextBranch
<1> QED BY <1>1, <1>3

-----------------------------------------------------------------------------
(* Type correctness.                                                        *)
LEMMA ReportTyped ==
  ASSUME TypeOK, NEW s \in Sync, NEW b, NEW state \in States, Report(s, b, state)
  PROVE  /\ report' \in [Sync -> [Tracking -> States]]
         /\ todo' \in [Sync -> SUBSET Tracking]
BY DEF Report, TypeOK

LEMMA SilentTyped == Silent \in [Tracking -> States]
BY DEF Silent, States

(* A merge or a fetch moves a branch to a history.                          *)
LEMMA MoveTyped ==
  ASSUME TypeOK, NEW t \in {Gone} \cup History, t # Gone, NEW b \in Branch
  PROVE  /\ [local EXCEPT ![b] = t] \in [Branch -> History]
         /\ [local EXCEPT ![b] = @ \cup t] \in [Branch -> History]
BY DEF TypeOK, History

(* What the two commands of advance may do to the branches, whether git     *)
(* answers, is cut off or is killed.                                        *)
Moves(s, b) ==
  \/ /\ b = current[s] /\ head \in Branch /\ CanMerge(head, upstream[b])
     /\ local' = [local EXCEPT ![head] = @ \cup upstream[b]]
  \/ /\ b # current[s] /\ CanFetch(b, upstream[b])
     /\ local' = [local EXCEPT ![b] = upstream[b]]

LEMMA MovesForward ==
  ASSUME TypeOK, NEW s \in Sync, NEW b \in Tracking, Moves(s, b)
  PROVE  /\ local' \in [Branch -> History]
         /\ \A other \in Branch : local[other] \subseteq local'[other]
<1>1. b \in Branch /\ upstream[b] \in {Gone} \cup History /\ upstream[b] # Gone
  BY BranchAssumption DEF TypeOK, Moves, CanMerge, CanFetch
<1>2. local' \in [Branch -> History]
  <2>1. CASE b = current[s]
    <3>1. head \in Branch /\ local' = [local EXCEPT ![head] = @ \cup upstream[b]]
      BY <2>1 DEF Moves
    <3> QED BY <1>1, <3>1, MoveTyped
  <2>2. CASE b # current[s]
    <3>1. local' = [local EXCEPT ![b] = upstream[b]]
      BY <2>2 DEF Moves
    <3> QED BY <1>1, <3>1, MoveTyped
  <2> QED BY <2>1, <2>2
<1> QED BY <1>1, <1>2 DEF Moves, CanFetch, TypeOK

LEMMA CutOffMoves ==
  ASSUME TypeOK, SyncSoFar, NEW s \in Sync, pc[s] = "move", CutOff(s)
  PROVE  /\ UNCHANGED local \/ Moves(s, NextBranch(s))
         /\ local' \in [Branch -> History]
         /\ inTheWay' \in SUBSET Change
         /\ inTheWay \subseteq inTheWay'
<1>1. UNCHANGED local \/ Moves(s, NextBranch(s))
  BY DEF CutOff, Moves
<1>2. local' \in [Branch -> History]
  <2>1. CASE UNCHANGED local
    BY <2>1 DEF TypeOK
  <2>2. CASE Moves(s, NextBranch(s))
    <3>1. NextBranch(s) \in Tracking
      BY NextBranchListed DEF SyncSoFar
    <3> QED BY <2>2, <3>1, MovesForward
  <2> QED BY <1>1, <2>1, <2>2
<1>3. inTheWay' \in SUBSET Change /\ inTheWay \subseteq inTheWay'
  BY DEF CutOff, TypeOK
<1> QED BY <1>1, <1>2, <1>3

LEMMA FaultTyped == TypeOK /\ Fault => faults' \in 0 .. MaxFaults
BY FaultAssumption DEF Fault, TypeOK

LEMMA SyncTyped ==
  ASSUME TypeOK, SyncSoFar, NEW s \in Sync, SyncNext(s)
  PROVE  TypeOK'
<1> USE DEF Goto, Ended, history
<1>1. CASE CallSync(s)
  BY <1>1 DEF CallSync, TypeOK, repository
<1>2. CASE Fetch(s)
  BY <1>2 DEF Fetch, TypeOK
<1>3. CASE FetchFails(s)
  <2>1. upstream' \in [Tracking -> {Gone} \cup History]
    BY <1>3 DEF FetchFails, TypeOK
  <2>2. faults' \in 0 .. MaxFaults
    BY <1>3, FaultAssumption DEF FetchFails, Fault, TypeOK
  <2> QED BY <1>3, <2>1, <2>2 DEF FetchFails, TypeOK
<1>4. CASE IsDirty(s) \/ CurrentBranch(s) \/ Done(s)
  <2>1. CASE IsDirty(s)
    BY <2>1 DEF IsDirty, TypeOK, repository
  <2>2. CASE CurrentBranch(s)
    BY <2>2 DEF CurrentBranch, TypeOK, repository
  <2>3. CASE Done(s)
    BY <2>3 DEF Done, TypeOK, repository
  <2> QED BY <1>4, <2>1, <2>2, <2>3
<1>5. CASE TrackingBranches(s)
  BY <1>5 DEF TrackingBranches, TypeOK, repository
<1>6. CASE UpstreamGone(s)
  <2>1. /\ report' \in [Sync -> [Tracking -> States]]
        /\ todo' \in [Sync -> SUBSET Tracking]
    BY <1>6, ReportTyped DEF UpstreamGone, States
  <2> QED BY <1>6, <2>1 DEF UpstreamGone, TypeOK, repository
<1>7. CASE IsAncestor(s)
  <2>1. /\ report' \in [Sync -> [Tracking -> States]]
        /\ todo' \in [Sync -> SUBSET Tracking]
    <3>1. CASE Report(s, NextBranch(s), "uptodate")
      BY <3>1, ReportTyped DEF States
    <3>2. CASE report' = [report EXCEPT ![s] = Silent] /\ UNCHANGED todo
      BY <3>2, SilentTyped DEF TypeOK
    <3>3. CASE UNCHANGED <<todo, report>>
      BY <3>3 DEF TypeOK
    <3> QED BY <1>7, <3>1, <3>2, <3>3 DEF IsAncestor
  <2>2. pc' \in [Sync -> Ended \cup {"idle", "fetch", "status", "list", "head",
                                    "branch", "move"}]
    BY <1>7 DEF IsAncestor, TypeOK
  <2> QED BY <1>7, <2>1, <2>2 DEF IsAncestor, TypeOK, repository
<1>8. CASE Advance(s)
  <2> DEFINE b == NextBranch(s)
  <2>1. b \in Tracking
    BY <1>8, NextBranchListed DEF Advance, SyncSoFar
  <2>2. /\ Moves(s, b) \/ UNCHANGED local
        /\ Report(s, b, "advanced") \/ Report(s, b, "refused")
    BY <1>8 DEF Advance, Moves
  <2>3. local' \in [Branch -> History]
    BY <2>1, <2>2, MovesForward DEF TypeOK
  <2>4. /\ report' \in [Sync -> [Tracking -> States]]
        /\ todo' \in [Sync -> SUBSET Tracking]
    BY <2>2, ReportTyped DEF States
  <2> QED BY <1>8, <2>3, <2>4 DEF Advance, TypeOK
<1>9. CASE GitFails(s)
  <2>1. local' \in [Branch -> History] /\ inTheWay' \in SUBSET Change
    <3>1. CASE pc[s] = "move"
      BY <1>9, <3>1, CutOffMoves DEF GitFails
    <3>2. CASE pc[s] # "move"
      BY <1>9, <3>2 DEF GitFails, TypeOK
    <3> QED BY <3>1, <3>2
  <2>2. report' \in [Sync -> [Tracking -> States]]
    BY <1>9, SilentTyped DEF GitFails, TypeOK
  <2>3. faults' \in 0 .. MaxFaults
    BY <1>9, FaultTyped DEF GitFails
  <2> QED BY <1>9, <2>1, <2>2, <2>3 DEF GitFails, TypeOK
<1>10. CASE GitKilled(s)
  <2>1. faults' \in 0 .. MaxFaults
    BY <1>10, FaultTyped DEF GitKilled
  <2>2. CASE pc[s] = "head"
    <3>1. /\ pc' = [pc EXCEPT ![s] = "branch"]
          /\ current' = [current EXCEPT ![s] = Detached]
          /\ cut' = [cut EXCEPT ![s] = @ \cup ({head} \cap Branch)]
          /\ UNCHANGED <<local, inTheWay, report, todo>>
          /\ UNCHANGED <<remote, upstream, head, edits, elsewhere, gone, before, quiet>>
      BY <1>10, <2>2 DEF GitKilled
    <3>2. cut' \in [Sync -> SUBSET Branch]
      <4>1. cut[s] \cup ({head} \cap Branch) \in SUBSET Branch
        BY DEF TypeOK
      <4>2. cut \in [Sync -> SUBSET Branch]
        BY DEF TypeOK
      <4> QED BY <3>1, <4>1, <4>2
    <3> QED BY <2>1, <3>1, <3>2 DEF TypeOK
  <2>3. CASE pc[s] = "move"
    <3>1. NextBranch(s) \in Branch
      BY <2>3, NextBranchListed, BranchAssumption DEF SyncSoFar
    <3>2. local' \in [Branch -> History] /\ inTheWay' \in SUBSET Change
      BY <1>10, <2>3, CutOffMoves DEF GitKilled
    <3>3. /\ report' \in [Sync -> [Tracking -> States]]
          /\ todo' \in [Sync -> SUBSET Tracking]
      BY <1>10, <2>3, ReportTyped DEF GitKilled, States
    <3>4. cut' \in [Sync -> SUBSET Branch]
      <4>1. cut' = [cut EXCEPT ![s] = @ \cup {NextBranch(s)}]
        BY <1>10, <2>3 DEF GitKilled
      <4>2. cut[s] \cup {NextBranch(s)} \in SUBSET Branch
        BY <3>1 DEF TypeOK
      <4>3. cut \in [Sync -> SUBSET Branch]
        BY DEF TypeOK
      <4> QED BY <4>1, <4>2, <4>3
    <3>5. /\ pc' = [pc EXCEPT ![s] = "branch"] /\ UNCHANGED current
          /\ UNCHANGED <<remote, upstream, head, edits, elsewhere, gone, before, quiet>>
      BY <1>10, <2>3 DEF GitKilled
    <3> QED BY <2>1, <3>2, <3>3, <3>4, <3>5 DEF TypeOK
  <2> QED BY <1>10, <2>2, <2>3 DEF GitKilled
<1> QED
  BY <1>1, <1>2, <1>3, <1>4, <1>5, <1>6, <1>7, <1>8, <1>9, <1>10 DEF SyncNext

LEMMA OthersTyped ==
  ASSUME TypeOK, Edit \/ Commit \/ Checkout \/ RemoteMoves \/ AnotherGit \/ Obstruct
  PROVE  TypeOK'
<1> USE DEF Disturbed
<1>1. CASE Edit
  <2>1. edits' \in History
    BY <1>1 DEF Edit, History
  <2> QED BY <1>1, <2>1 DEF Edit, TypeOK
<1>2. CASE Commit
  <2>1. local' \in [Branch -> History] /\ edits' \in History
    BY <1>2 DEF Commit, TypeOK, History
  <2> QED BY <1>2, <2>1 DEF Commit, TypeOK
<1>3. CASE Checkout
  BY <1>3 DEF Checkout, TypeOK
<1>4. CASE RemoteMoves
  <2>1. remote' \in [Tracking -> {Gone} \cup History]
    <3>1. PICK b \in Tracking :
            \/ /\ remote[b] # Gone
               /\ \E c \in Change \ Known : remote' = [remote EXCEPT ![b] = @ \cup {c}]
            \/ remote' = [remote EXCEPT ![b] = {}]
            \/ remote' = [remote EXCEPT ![b] = Gone]
      BY <1>4 DEF RemoteMoves
    <3>2. CASE remote[b] # Gone /\ \E c \in Change \ Known :
                 remote' = [remote EXCEPT ![b] = @ \cup {c}]
      <4>1. remote[b] \in History
        BY <3>2 DEF TypeOK
      <4> QED BY <3>2, <4>1 DEF TypeOK, History
    <3> QED BY <3>1, <3>2 DEF TypeOK, History
  <2> QED BY <1>4, <2>1 DEF RemoteMoves, TypeOK
<1>5. CASE AnotherGit
  <2>1. upstream' \in [Tracking -> {Gone} \cup History]
    BY <1>5 DEF AnotherGit, TypeOK
  <2>2. local' \in [Branch -> History]
    <3>1. CASE UNCHANGED local
      BY <3>1 DEF TypeOK
    <3>2. ASSUME NEW b \in Tracking, upstream[b] # Gone,
                 local' = [local EXCEPT ![b] = upstream[b]]
          PROVE  local' \in [Branch -> History]
      BY <3>2, MoveTyped, BranchAssumption DEF TypeOK
    <3> QED BY <1>5, <3>1, <3>2 DEF AnotherGit
  <2> QED BY <1>5, <2>1, <2>2 DEF AnotherGit, TypeOK
<1>6. CASE Obstruct
  BY <1>6 DEF Obstruct, TypeOK
<1> QED BY <1>1, <1>2, <1>3, <1>4, <1>5, <1>6

LEMMA TypeInit == Init => TypeOK
<1> SUFFICES ASSUME Init PROVE TypeOK
  OBVIOUS
<1>1. report \in [Sync -> [Tracking -> States]]
  BY SilentTyped DEF Init
<1>2. /\ {} \in History /\ elsewhere \in SUBSET Branch
  BY BranchAssumption DEF Init, History
<1>3. local \in [Branch -> History] /\ before \in [Sync -> [Branch -> History]]
  BY <1>2 DEF Init
<1> QED BY <1>1, <1>2, <1>3, FaultAssumption DEF Init, TypeOK

LEMMA TypeStep ==
  ASSUME TypeOK, SyncSoFar, [Next]_vars
  PROVE  TypeOK'
<1>1. CASE UNCHANGED vars
  BY <1>1 DEF vars, repository, history, TypeOK
<1> QED BY <1>1, SyncTyped, OthersTyped DEF Next

-----------------------------------------------------------------------------
(* Nothing is lost.                                                         *)
LEMMA SyncLosesNothing ==
  ASSUME TypeOK, SyncSoFar, NEW s \in Sync, SyncNext(s)
  PROVE  /\ edits' = edits
         /\ \A b \in Branch : local[b] \subseteq local'[b]
<1>1. edits' = edits
  BY DEF SyncNext, CallSync, Fetch, FetchFails, IsDirty, TrackingBranches, CurrentBranch,
         UpstreamGone, IsAncestor, Advance, Done, GitFails, GitKilled, repository
<1>2. ASSUME pc[s] = "move", Moves(s, NextBranch(s))
      PROVE  \A b \in Branch : local[b] \subseteq local'[b]
  <2>1. NextBranch(s) \in Tracking
    BY <1>2, NextBranchListed DEF SyncSoFar
  <2> QED BY <1>2, <2>1, MovesForward
<1>3. UNCHANGED local \/ (pc[s] = "move" /\ Moves(s, NextBranch(s)))
  <2>1. CASE Advance(s)
    BY <2>1 DEF Advance, Moves
  <2>2. CASE GitFails(s)
    BY <2>2, CutOffMoves DEF GitFails
  <2>3. CASE GitKilled(s)
    BY <2>3, CutOffMoves DEF GitKilled
  <2>4. CASE ~ Advance(s) /\ ~ GitFails(s) /\ ~ GitKilled(s)
    BY <2>4 DEF SyncNext, CallSync, Fetch, FetchFails, IsDirty, TrackingBranches,
         CurrentBranch, UpstreamGone, IsAncestor, Done, repository
  <2> QED BY <2>1, <2>2, <2>3, <2>4
<1> QED BY <1>1, <1>2, <1>3

LEMMA NothingLostStep ==
  ASSUME TypeOK, SyncSoFar, [Next]_vars
  PROVE  /\ edits \subseteq edits' \cup UNION {local'[b] : b \in Branch}
         /\ \A b \in Branch : local[b] \subseteq local'[b]
<1>1. CASE UNCHANGED vars
  BY <1>1 DEF vars, repository
<1>2. ASSUME NEW s \in Sync, SyncNext(s)
      PROVE  /\ edits \subseteq edits' \cup UNION {local'[b] : b \in Branch}
             /\ \A b \in Branch : local[b] \subseteq local'[b]
  BY <1>2, SyncLosesNothing
<1>3. CASE Edit \/ Checkout \/ RemoteMoves \/ Obstruct
  BY <1>3 DEF Edit, Checkout, RemoteMoves, Obstruct
<1>4. CASE Commit
  <2>1. head \in Branch /\ local' = [local EXCEPT ![head] = @ \cup edits]
    BY <1>4 DEF Commit
  <2>2. edits \subseteq local'[head] /\ \A b \in Branch : local[b] \subseteq local'[b]
    BY <2>1 DEF TypeOK
  <2> QED BY <2>1, <2>2
<1>5. CASE AnotherGit
  <2>1. edits' = edits
    BY <1>5 DEF AnotherGit
  <2>2. \A b \in Branch : local[b] \subseteq local'[b]
    BY <1>5 DEF AnotherGit, TypeOK
  <2> QED BY <2>1, <2>2
<1> QED BY <1>1, <1>2, <1>3, <1>4, <1>5 DEF Next

-----------------------------------------------------------------------------
(* What an undisturbed sync knows.                                          *)
SyncKnows(s) ==
  /\ quiet[s] =>
       /\ pc[s] # "idle"
       /\ \A o \in Sync \ {s} : pc[o] \in Ended \cup {"idle"}
       /\ edits # {} => local = before[s]
       /\ pc[s] \in {"fetch", "status", "list", "head"} => local = before[s]
       /\ pc[s] \in {"list", "head", "branch", "move"} => edits = {}
       /\ pc[s] \in {"head", "branch", "move"} =>
            gone[s] = {b \in Tracking : upstream[b] = Gone}
       /\ pc[s] = "head" => todo[s] = Tracking
       /\ pc[s] \in {"branch", "move"} =>
            /\ \/ current[s] = head
               \/ current[s] = Detached /\ head \in cut[s]
            /\ \A b \in todo[s] : local[b] = before[s][b]
            /\ \A b \in Tracking \ todo[s] : ToldAsItIs(s, b)
       /\ pc[s] = "ok" => \A b \in Tracking : ToldAsItIs(s, b)
  /\ pc[s] = "move" => todo[s] # {}
  /\ pc[s] = "move" /\ quiet[s] =>
       /\ NextBranch(s) \notin gone[s]
       /\ ~ (upstream[NextBranch(s)] \subseteq local[NextBranch(s)])

LEMMA SyncsKnow ==
  SyncSoFar /\ SyncsAll <=> \A s \in Sync : SyncKnows(s)
BY DEF SyncSoFar, SyncsAll, SyncKnows

(* A step of another sync takes the quiet away, or is the step of one that  *)
(* cannot be at work.                                                       *)
LEMMA OtherSync ==
  ASSUME TypeOK, NEW s \in Sync, NEW t \in Sync, s # t, SyncKnows(s), SyncNext(t)
  PROVE  SyncKnows(s)'
<1>1. pc'[s] = pc[s] /\ todo'[s] = todo[s]
  BY DEF SyncNext, CallSync, Fetch, FetchFails, IsDirty, TrackingBranches, CurrentBranch,
         UpstreamGone, IsAncestor, Advance, Done, GitFails, GitKilled, repository, Goto, Report, TypeOK
<1>2. ~ quiet'[s]
  <2>1. CASE CallSync(t)
    BY <2>1 DEF CallSync
  <2>2. CASE ~ CallSync(t)
    <3>1. quiet' = quiet /\ pc[t] \notin Ended \cup {"idle"}
      BY <2>2 DEF SyncNext, Fetch, FetchFails, IsDirty, TrackingBranches, CurrentBranch,
           UpstreamGone, IsAncestor, Advance, Done, GitFails, GitKilled, Ended, history
    <3> QED BY <3>1 DEF SyncKnows
  <2> QED BY <2>1, <2>2
<1> QED BY <1>1, <1>2 DEF SyncKnows

(* What a sync said of a branch stays true while nothing moves it and what  *)
(* was in the way still is.                                                 *)
LEMMA ToldStays ==
  ASSUME NEW s, NEW b, ToldAsItIs(s, b), report'[s][b] = report[s][b],
         upstream' = upstream, local'[b] = local[b], before' = before,
         elsewhere' = elsewhere, head' = head,
         inTheWay \subseteq inTheWay', cut[s] \subseteq cut'[s]
  PROVE  ToldAsItIs(s, b)'
BY DEF ToldAsItIs, Hindered

(* The loop reports on the branch it is at and goes on to the next.         *)
LEMMA ReportKeeps ==
  ASSUME TypeOK, NEW s \in Sync, SyncKnows(s), pc[s] \in {"branch", "move"}, quiet[s],
         NEW b \in todo[s], NEW state \in States, Report(s, b, state), pc'[s] = "branch",
         ToldAsItIs(s, b)',
         \A other \in Branch \ {b} : local'[other] = local[other],
         \A o \in Sync \ {s} : pc'[o] = pc[o],
         inTheWay \subseteq inTheWay', cut[s] \subseteq cut'[s],
         UNCHANGED <<upstream, head, edits, elsewhere, gone, current, before>>
  PROVE  SyncKnows(s)'
<1>1. /\ todo'[s] = todo[s] \ {b}
      /\ \A other \in Tracking \ {b} : report'[s][other] = report[s][other]
  BY DEF Report, TypeOK
<1>2. \A other \in todo'[s] : local'[other] = before'[s][other]
  BY <1>1, BranchAssumption DEF SyncKnows, TypeOK
<1>3. ASSUME NEW other \in Tracking \ todo'[s]
      PROVE  ToldAsItIs(s, other)'
  <2>1. CASE other = b
    BY <2>1
  <2>2. CASE other # b
    <3>1. ToldAsItIs(s, other)
      BY <1>1, <1>3, <2>2 DEF SyncKnows
    <3>2. report'[s][other] = report[s][other] /\ local'[other] = local[other]
      BY <1>1, <1>3, <2>2, BranchAssumption
    <3> QED BY <3>1, <3>2, ToldStays
  <2> QED BY <2>1, <2>2
<1>4. edits = {} /\ gone'[s] = {c \in Tracking : upstream'[c] = Gone}
  BY DEF SyncKnows
<1> HIDE DEF ToldAsItIs, NextBranch
<1> QED BY <1>1, <1>2, <1>3, <1>4 DEF SyncKnows

LEMMA OwnSync ==
  ASSUME TypeOK, TypeOK', NEW s \in Sync, SyncKnows(s), SyncNext(s)
  PROVE  SyncKnows(s)'
<1> USE DEF Goto, Ended, history
<1>o. \A o \in Sync \ {s} : pc'[o] = pc[o]
  BY DEF SyncNext, CallSync, Fetch, FetchFails, IsDirty, TrackingBranches, CurrentBranch,
         UpstreamGone, IsAncestor, Advance, Done, GitFails, GitKilled, repository, TypeOK
<1>n. PICK b : b = NextBranch(s)
  OBVIOUS
<1>b. todo[s] # {} => b \in todo[s] /\ b \in Tracking /\ b \in Branch
  BY <1>n, NextBranchListed, BranchAssumption
<1> HIDE DEF NextBranch, ToldAsItIs
<1>1. CASE CallSync(s)
  <2>1. /\ pc'[s] = "fetch" /\ before'[s] = local /\ UNCHANGED <<local, edits>>
        /\ quiet'[s] <=> \A o \in Sync \ {s} : pc[o] \in Ended \cup {"idle"}
    BY <1>1 DEF CallSync, TypeOK, repository
  <2> QED BY <1>o, <2>1 DEF SyncKnows
<1>2. CASE Fetch(s)
  <2>1. pc'[s] = "status" /\ pc[s] = "fetch" /\ UNCHANGED <<local, edits, before, quiet>>
    BY <1>2 DEF Fetch, TypeOK
  <2> QED BY <1>o, <2>1 DEF SyncKnows
<1>3. CASE FetchFails(s)
  <2>1. pc'[s] = "error" /\ pc[s] = "fetch" /\ UNCHANGED <<local, edits, before, quiet>>
    BY <1>3 DEF FetchFails, TypeOK
  <2> QED BY <1>o, <2>1 DEF SyncKnows
<1>4. CASE IsDirty(s)
  <2>1. /\ pc'[s] = (IF edits # {} THEN "dirty" ELSE "list") /\ pc[s] = "status"
        /\ UNCHANGED <<local, edits, before, quiet>>
    BY <1>4 DEF IsDirty, TypeOK, repository
  <2> QED BY <1>o, <2>1 DEF SyncKnows
<1>5. CASE TrackingBranches(s)
  <2>1. /\ pc'[s] = "head" /\ pc[s] = "list" /\ todo'[s] = Tracking
        /\ gone'[s] = {t \in Tracking : upstream[t] = Gone}
        /\ UNCHANGED <<upstream, local, edits, before, quiet>>
    BY <1>5 DEF TrackingBranches, TypeOK, repository
  <2> QED BY <1>o, <2>1 DEF SyncKnows
<1>6. CASE CurrentBranch(s)
  <2>1. /\ pc'[s] = "branch" /\ pc[s] = "head" /\ current'[s] = head
        /\ UNCHANGED <<upstream, local, head, edits, todo, gone, before, quiet>>
    BY <1>6 DEF CurrentBranch, TypeOK, repository
  <2> QED BY <1>o, <2>1 DEF SyncKnows
<1>7. CASE UpstreamGone(s)
  <2>1. /\ pc'[s] = "branch" /\ pc[s] = "branch" /\ UNCHANGED quiet
        /\ b \in gone[s] /\ b \in todo[s] /\ Report(s, b, "gone")
        /\ UNCHANGED <<upstream, local, head, edits, elsewhere, inTheWay,
                       gone, current, before, cut>>
    BY <1>7, <1>n, <1>b DEF UpstreamGone, repository
  <2>2. CASE quiet[s]
    <3>1. upstream[b] = Gone
      BY <2>1, <2>2 DEF SyncKnows
    <3>2. report'[s][b] = "gone"
      BY <1>b, <2>1 DEF Report, TypeOK
    <3>3. ToldAsItIs(s, b)'
      BY <2>1, <3>1, <3>2 DEF ToldAsItIs
    <3> QED BY <1>o, <2>1, <2>2, <3>3, ReportKeeps DEF States
  <2>3. CASE ~ quiet[s]
    BY <2>1, <2>3 DEF SyncKnows
  <2> QED BY <2>2, <2>3
<1>8. CASE IsAncestor(s)
  <2>1. /\ pc[s] = "branch" /\ b \in todo[s] /\ b \notin gone[s] /\ UNCHANGED quiet
        /\ UNCHANGED <<upstream, local, head, edits, elsewhere, inTheWay,
                       gone, current, before, cut>>
    BY <1>8, <1>n, <1>b DEF IsAncestor, repository
  <2>2. CASE ~ quiet[s]
    BY <1>8, <2>1, <2>2 DEF IsAncestor, SyncKnows, TypeOK
  <2>3. CASE quiet[s] /\ upstream[b] = Gone
    BY <1>b, <2>1, <2>3 DEF SyncKnows
  <2>4. CASE /\ quiet[s] /\ upstream[b] # Gone /\ upstream[b] \subseteq local[b]
    <3>1. Report(s, b, "uptodate") /\ pc'[s] = "branch"
      BY <1>8, <1>n, <2>1, <2>4 DEF IsAncestor
    <3>2. report'[s][b] = "uptodate"
      BY <1>b, <2>1, <3>1 DEF Report, TypeOK
    <3>3. local[b] = before[s][b]
      BY <2>1, <2>4 DEF SyncKnows
    <3>4. ToldAsItIs(s, b)'
      BY <2>1, <2>4, <3>2, <3>3 DEF ToldAsItIs
    <3> QED BY <1>o, <2>1, <2>4, <3>1, <3>4, ReportKeeps DEF States
  <2>5. CASE /\ quiet[s] /\ upstream[b] # Gone /\ ~ (upstream[b] \subseteq local[b])
    <3>1. pc'[s] = "move" /\ UNCHANGED <<todo, report>>
      BY <1>8, <1>n, <2>5 DEF IsAncestor, TypeOK
    <3>2. NextBranch(s)' = b
      BY <1>n, <3>1 DEF NextBranch
    <3>3. \A c \in Tracking \ todo[s] : ToldAsItIs(s, c)'
      BY <2>1, <2>5, <3>1, ToldStays DEF SyncKnows
    <3> QED BY <1>o, <2>1, <2>5, <3>1, <3>2, <3>3 DEF SyncKnows
  <2> QED BY <2>2, <2>3, <2>4, <2>5
<1>9. CASE Advance(s)
  <2>1. /\ pc[s] = "move" /\ pc'[s] = "branch" /\ UNCHANGED quiet
        /\ UNCHANGED <<upstream, head, edits, elsewhere, inTheWay,
                       gone, current, before, cut>>
        /\ b \in todo[s] /\ b \in Tracking /\ b \in Branch
    BY <1>9, <1>b DEF Advance, SyncKnows, TypeOK
  <2>2. CASE ~ quiet[s]
    BY <2>1, <2>2 DEF SyncKnows
  <2>3. CASE quiet[s]
    <3>1. /\ edits = {} /\ local[b] = before[s][b]
          /\ upstream[b] # Gone /\ ~ (upstream[b] \subseteq local[b])
          /\ current[s] = head \/ (current[s] = Detached /\ head \in cut[s])
      BY <1>n, <2>1, <2>3 DEF SyncKnows
    <3>2. CASE local'[b] = upstream[b] /\ Report(s, b, "advanced")
                 /\ \A other \in Branch \ {b} : local'[other] = local[other]
      <4>1. report'[s][b] = "advanced"
        BY <2>1, <3>2 DEF Report, TypeOK
      <4>2. ToldAsItIs(s, b)'
        BY <2>1, <3>1, <3>2, <4>1 DEF ToldAsItIs
      <4> QED BY <1>o, <2>1, <2>3, <3>2, <4>2, ReportKeeps DEF States
    <3>3. CASE /\ UNCHANGED local /\ Report(s, b, "refused")
               /\ b \in cut[s] \/ (local[b] \subseteq upstream[b] => Hindered(b))
      <4>1. report'[s][b] = "refused"
        BY <2>1, <3>3 DEF Report, TypeOK
      <4>2. ToldAsItIs(s, b)'
        BY <2>1, <3>1, <3>3, <4>1 DEF ToldAsItIs, Hindered
      <4> QED BY <1>o, <2>1, <2>3, <3>3, <4>2, ReportKeeps DEF States
    <3>4. CASE b = current[s]
      <4>1. b = head /\ head \in Branch
        BY <2>1, <3>1, <3>4, DetachedAssumption
      <4>2. CASE CanMerge(head, upstream[b])
        <5>1. local' = [local EXCEPT ![b] = @ \cup upstream[b]] /\ Report(s, b, "advanced")
          BY <1>9, <1>n, <3>4, <4>1, <4>2 DEF Advance
        <5>2. local[b] \subseteq upstream[b]
          BY <3>1, <4>1, <4>2 DEF CanMerge
        <5>3. local'[b] = upstream[b]
          BY <2>1, <5>1, <5>2 DEF TypeOK
        <5> QED BY <3>2, <5>1, <5>3 DEF TypeOK
      <4>3. CASE ~ CanMerge(head, upstream[b])
        <5>1. UNCHANGED local /\ Report(s, b, "refused")
          BY <1>9, <1>n, <3>4, <4>1, <4>3 DEF Advance
        <5>2. local[b] \subseteq upstream[b] => Hindered(b)
          BY <3>1, <4>1, <4>3 DEF CanMerge, Hindered
        <5> QED BY <3>3, <5>1, <5>2
      <4> QED BY <4>2, <4>3
    <3>5. CASE b # current[s]
      <4>1. CASE CanFetch(b, upstream[b])
        <5>1. local' = [local EXCEPT ![b] = upstream[b]] /\ Report(s, b, "advanced")
          BY <1>9, <1>n, <3>5, <4>1 DEF Advance
        <5> QED BY <2>1, <3>2, <5>1 DEF TypeOK
      <4>2. CASE ~ CanFetch(b, upstream[b])
        <5>1. UNCHANGED local /\ Report(s, b, "refused")
          BY <1>9, <1>n, <3>5, <4>2 DEF Advance
        <5>2. b \in cut[s] \/ (local[b] \subseteq upstream[b] => Hindered(b))
          BY <3>1, <3>5, <4>2 DEF CanFetch, Hindered
        <5> QED BY <3>3, <5>1, <5>2
      <4> QED BY <4>1, <4>2
    <3> QED BY <3>4, <3>5
  <2> QED BY <2>2, <2>3
<1>10. CASE Done(s)
  <2>1. /\ pc'[s] = "ok" /\ pc[s] = "branch" /\ todo[s] = {} /\ UNCHANGED quiet
        /\ UNCHANGED <<upstream, local, head, edits, elsewhere, inTheWay,
                       report, before, cut>>
    BY <1>10 DEF Done, TypeOK, repository
  <2>2. quiet[s] => edits = {} /\ \A c \in Tracking : ToldAsItIs(s, c)'
    BY <2>1, ToldStays DEF SyncKnows
  <2> QED BY <1>o, <2>1, <2>2 DEF SyncKnows
<1>11. CASE GitFails(s)
  <2>1. /\ pc'[s] = "error" /\ UNCHANGED <<edits, before, quiet>>
        /\ pc[s] \in {"status", "list", "head", "branch", "move"}
        /\ pc[s] = "move" \/ UNCHANGED local
    BY <1>11 DEF GitFails, TypeOK
  <2>2. quiet[s] /\ edits' # {} => local' = before'[s]
    BY <2>1 DEF SyncKnows
  <2> QED BY <1>o, <2>1, <2>2 DEF SyncKnows
<1>12. CASE GitKilled(s) /\ pc[s] = "head"
  <2>1. /\ pc'[s] = "branch" /\ current'[s] = Detached
        /\ cut'[s] = cut[s] \cup ({head} \cap Branch)
        /\ UNCHANGED <<upstream, local, head, edits, todo, gone, before, quiet>>
    BY <1>12 DEF GitKilled, TypeOK
  <2>2. head \in Branch \cup {Detached}
    BY DEF TypeOK
  <2>3. current'[s] = head' \/ (current'[s] = Detached /\ head' \in cut'[s])
    BY <2>1, <2>2
  <2> QED BY <1>o, <1>12, <2>1, <2>3 DEF SyncKnows
<1>13. CASE GitKilled(s) /\ pc[s] = "move"
  <2>1. /\ pc'[s] = "branch" /\ UNCHANGED quiet
        /\ UNCHANGED <<upstream, head, edits, elsewhere, gone, current, before>>
        /\ cut'[s] = cut[s] \cup {b}
        /\ CutOff(s) /\ Report(s, b, "refused")
        /\ b \in todo[s] /\ b \in Tracking /\ b \in Branch
    BY <1>13, <1>b, <1>n DEF GitKilled, SyncKnows, TypeOK
  <2>2. CASE ~ quiet[s]
    BY <2>1, <2>2 DEF SyncKnows
  <2>3. CASE quiet[s]
    <3>1. /\ local[b] = before[s][b]
          /\ current[s] = head \/ (current[s] = Detached /\ head \in cut[s])
          /\ ~ (upstream[b] \subseteq local[b])
      BY <1>13, <1>n, <2>1, <2>3 DEF SyncKnows
    <3>2. inTheWay \subseteq inTheWay'
      BY <2>1 DEF CutOff, TypeOK
    <3>3. /\ local'[b] \in {local[b], upstream[b]}
          /\ \A other \in Branch \ {b} : local'[other] = local[other]
      <4>1. CASE UNCHANGED local
        BY <4>1
      <4>2. CASE b # current[s] /\ local' = [local EXCEPT ![b] = upstream[b]]
        BY <2>1, <4>2 DEF TypeOK
      <4>3. CASE /\ b = current[s] /\ head \in Branch /\ CanMerge(head, upstream[b])
                 /\ local' = [local EXCEPT ![head] = @ \cup upstream[b]]
        <5>1. b = head
          BY <2>1, <3>1, <4>3, DetachedAssumption
        <5>2. local[b] \subseteq upstream[b]
          BY <3>1, <4>3, <5>1 DEF CanMerge
        <5> QED BY <2>1, <4>3, <5>1, <5>2 DEF TypeOK
      <4> QED BY <1>n, <2>1, <4>1, <4>2, <4>3 DEF CutOff
    <3>4. report'[s][b] = "refused"
      BY <2>1 DEF Report, TypeOK
    <3>5. ToldAsItIs(s, b)'
      BY <2>1, <3>1, <3>3, <3>4 DEF ToldAsItIs
    <3> QED BY <1>o, <1>13, <2>1, <2>3, <3>2, <3>3, <3>5, ReportKeeps DEF States
  <2> QED BY <2>2, <2>3
<1>14. GitKilled(s) => pc[s] = "head" \/ pc[s] = "move"
  BY DEF GitKilled
<1> QED
  BY <1>1, <1>2, <1>3, <1>4, <1>5, <1>6, <1>7, <1>8, <1>9, <1>10, <1>11, <1>12, <1>13, <1>14
  DEF SyncNext

(* Whoever else acts ends the quiet of every sync.                          *)
LEMMA OthersDisturb ==
  ASSUME NEW s \in Sync, SyncKnows(s),
         Edit \/ Commit \/ Checkout \/ RemoteMoves \/ AnotherGit \/ Obstruct
  PROVE  SyncKnows(s)'
<1>1. ~ quiet'[s] /\ UNCHANGED <<pc, todo>>
  BY DEF Edit, Commit, Checkout, RemoteMoves, AnotherGit, Obstruct, Disturbed
<1> QED BY <1>1 DEF SyncKnows

LEMMA SyncSoFarStep ==
  ASSUME TypeOK, TypeOK', SyncSoFar, SyncsAll, [Next]_vars
  PROVE  SyncSoFar' /\ SyncsAll'
<1> SUFFICES ASSUME NEW s \in Sync PROVE SyncKnows(s)'
  BY DEF SyncSoFar, SyncsAll, SyncKnows
<1>k. SyncKnows(s)
  BY SyncsKnow
<1>1. CASE UNCHANGED vars
  BY <1>1, <1>k DEF vars, repository, history, SyncKnows, ToldAsItIs, Hindered, NextBranch
<1>2. ASSUME NEW t \in Sync, SyncNext(t)
      PROVE  SyncKnows(s)'
  BY <1>2, <1>k, OwnSync, OtherSync
<1> QED BY <1>1, <1>2, <1>k, OthersDisturb DEF Next

-----------------------------------------------------------------------------
LEMMA InvariantInit == Init => SyncInvariant
<1> SUFFICES ASSUME Init PROVE SyncInvariant
  OBVIOUS
<1>1. SyncSoFar /\ SyncsAll
  BY DEF Init, SyncSoFar, SyncsAll
<1> QED BY <1>1, TypeInit DEF SyncInvariant

(* At every moment of a sync nobody disturbs, what it listed still holds,   *)
(* each branch is as it was until its turn, and as it is told of after;     *)
(* with any number of syncs, users and other gits at work.                  *)
THEOREM SyncsInvariant == Spec => []SyncInvariant
<1>1. SyncInvariant /\ [Next]_vars => SyncInvariant'
  BY TypeStep, SyncSoFarStep DEF SyncInvariant
<1> QED BY <1>1, InvariantInit, PTL DEF Spec

(* A sync nobody disturbed moved every branch that could be moved and tells *)
(* of each as it is; a dirty repository it leaves alone.                    *)
THEOREM SyncMovesAll == Spec => []SyncsAll
BY SyncsInvariant, PTL DEF SyncInvariant

(* No step of anybody loses a commit or an uncommitted change: branches     *)
(* only ever move forward.                                                  *)
THEOREM SyncLosesNothingEver == Spec => NothingLost
<1>1. SyncInvariant /\ [Next]_vars
        => [/\ edits \subseteq edits' \cup UNION {local'[b] : b \in Branch}
            /\ \A b \in Branch : local[b] \subseteq local'[b]]_vars
  BY NothingLostStep DEF SyncInvariant
<1> QED BY <1>1, SyncsInvariant, PTL DEF Spec, NothingLost
=============================================================================
