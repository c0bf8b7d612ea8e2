------------------------------- MODULE MCPure -------------------------------
(***************************************************************************)
(* The pure functions against what they must compute, over all inputs up   *)
(* to a size: mergeOrder and the ordering of List, the file format of an   *)
(* item, the key of a repository, what a command ends with, the signing of *)
(* a clone, and the directories of a workspace.  An order document may     *)
(* name an id twice or one that has no item, and an item file may come     *)
(* from another tool: both are files, and anything in them is accepted.    *)
(***************************************************************************)
EXTENDS OrderDoc, ItemFile, RepoKey, Commands, Signing, Workspace

CONSTANTS
  Id, MaxNamed, \* ids, and the longest request or document
  Tree,         \* the trees a set of worktrees is made of, as numbers
  Worktree      \* the worktree directories their .git files may name

ASSUME IdAssumption == Id \subseteq Nat /\ IsFiniteSet(Id) /\ MaxNamed \in Nat

ASSUME TreeAssumption == Tree \subseteq Nat \ {None, Bare}

VARIABLES
  input,  \* what one of the functions is called with
  output  \* what it returned, Waiting before the call

vars == <<input, output>>

Waiting == [waiting |-> TRUE]

-----------------------------------------------------------------------------
(* URLs.  A tail has a host, one or two owners and a repository.            *)
x == Char("x", "small")
X == Char("x", "big")

Tails == UNION {[1 .. n -> {<<x>>, <<x, X>>}] : n \in 3 .. 4}

Spellings ==
  [form : {"scp", "url"}, users : 0 .. 2, port : BOOLEAN, git : BOOLEAN,
   slash : BOOLEAN]

Joined(tail) == FlattenSeq([i \in DOMAIN tail |-> tail[i] \o <<Mark("/")>>])

(* How a remote may be written: userinfo, with a password or not; a port    *)
(* where one can be written; with ".git" and a "/" at the end or without.   *)
Spelled(tail, how) ==
  LET user == CASE how.users = 0 -> <<>>
                [] how.users = 1 -> <<x, Mark("@")>>
                [] OTHER -> <<x, Mark(":"), x, Mark("@")>>
      path == Joined(Tail(tail))
      end  == (IF how.git THEN <<Mark(".git")>> ELSE <<>>)
                \o (IF how.slash THEN <<Mark("/")>> ELSE <<>>)
      port == IF how.port THEN <<Mark(":"), Char("22", "digit")>> ELSE <<>>
  IN  (IF how.form = "url" THEN <<x, Mark(":"), Mark("/"), Mark("/")>> ELSE <<>>)
        \o user \o tail[1] \o port
        \o <<IF how.form = "url" THEN Mark("/") ELSE Mark(":")>>
        \o SubSeq(path, 1, Len(path) - 1) \o end

(* scp has neither a port nor a password.                                   *)
Written == {how \in Spellings : how.form = "scp" => ~ how.port /\ how.users < 2}

-----------------------------------------------------------------------------
(* Disks.  A base in the root, beside at most one more directory, and up to *)
(* two below the base.                                                      *)
Names ==
  [1 .. 2 -> {x, X}] \cup {<<Char("7", "digit")>>}
    \cup {<<Char("e", kind)>> : kind \in {"composed", "decomposed"}}
    \cup {<<Char("repo", kind)>> : kind \in {"small", "big"}}

Folds == {{"small", "big"}, {"composed", "decomposed"}}

Listings(folds) ==
  {entries \in UNION {kSubset(n, Names) : n \in 1 .. 2} :
     \A a, b \in entries : a # b => ~ SameName([folds |-> folds], a, b)}

Volume(folds, readable, root, below) ==
  [folds |-> folds, readable |-> readable,
   names |-> [d \in {<<>>} \cup {<<n>> : n \in root} |-> IF d = <<>> THEN root ELSE below]]

Listable == {{}, {<<>>}, {<<>>, << <<x, X>> >>}}

(* Two remotes, cloned one after the other below an empty base.             *)
Origins == {"reads", "none", "unusable", "unreadable"}

Hosted ==
  UNION {[1 .. n -> {<<x>>, <<X>>, <<Char("repo", "small")>>}] : n \in 2 .. 3}

EmptyBase(folds) ==
  [folds |-> folds,
   names |-> [d \in {<<>>, << <<x, X>> >>} |-> IF d = <<>> THEN {<<x, X>>} ELSE {}]]

Readable(disk) ==
  [folds |-> disk.folds, names |-> disk.names, readable |-> DOMAIN disk.names]

(* Every way to write a name that is there.                                 *)
Typed(disk, dir) == {n \in Names : Found(disk, dir, n) # {}}

(* Of one that git has written, home and common are the same.               *)
WorktreeDirs ==
  [home : Tree \cup {Bare, None}, common : Tree \cup {Bare, None},
   gitdir : Tree \cup {None}]

Layouts ==
  [dotGit : [Tree -> {<<"dir">>, <<"elsewhere">>, <<"link">>, <<"apart">>}
                       \cup {<<"file", w>> : w \in Worktree}],
   worktree : [Worktree -> WorktreeDirs]]

-----------------------------------------------------------------------------
(* Commands, what they are called with, and what may be wrong on the way.   *)
Ids == {"there", "gone", "malformed", "stuck"}

Calls == ({"list", "add", "path"} \X {{}}) \cup ({"file"} \X {{id} : id \in Ids})
            \cup ({"rm", "reorder"} \X ((SUBSET Ids) \ {{}}))

(* Where the location gives no key, and why.                                *)
Whys == WrongPlace \cup Doubtful \cup Broken

Stops ==
  {<<"nowhere", "fine">>}
    \cup ({"tree"} \X {why \in Whys : TreeError(why) # Nil})
    \cup ({"base"} \X {why \in Whys : BaseError(why) # Nil})
    \cup ({"under"} \X {why \in Whys : UnderError(why) # Nil})

TextKinds == {"fine", "empty", "too large", "no free id", "stuck"}

(* Any of it may be wrong at once.                                          *)
World ==
  {world \in [verb : {"list", "add", "path", "file", "rm", "reorder"}, ids : SUBSET Ids,
              text : TextKinds, move : {Nil, {"io"}}, origin : OriginAnswers,
              remote : RemoteAnswers, at : {"nowhere", "tree", "base", "under"},
              why : Whys \cup {"fine"}, data : {Nil, {"io"}},
              open : {Nil, {"ErrNoStore"}, {"ErrSymlinkedStore"}, {"io"}},
              read : {Nil, {"io"}}, publish : {Nil, {"ErrContended"}, {"io"}}] :
     <<world.verb, world.ids>> \in Calls /\ <<world.at, world.why>> \in Stops}

(* All of World is too much to run: one thing at a time besides origin.     *)
Fine ==
  [verb |-> "list", ids |-> {}, text |-> "fine", move |-> Nil, origin |-> "no such remote",
   remote |-> "unlisted", at |-> "nowhere", why |-> "fine", data |-> Nil, open |-> Nil,
   read |-> Nil, publish |-> Nil]

CalledAs(world, call) == [world EXCEPT !.verb = call[1], !.ids = call[2]]

MachineWrong ==
  {[Fine EXCEPT !.move = e[1], !.data = e[2]] :
     e \in {<<Nil, Nil>>, <<{"io"}, Nil>>, <<Nil, {"io"}>>}}

OriginWrong ==
  {[Fine EXCEPT !.origin = says[1], !.remote = says[2]] : says \in OriginAnswers \X RemoteAnswers}

LocationWrong == {[Fine EXCEPT !.at = stop[1], !.why = stop[2]] : stop \in Stops}

StoreWrong ==
  {[Fine EXCEPT !.open = e[1], !.read = e[2], !.publish = e[3]] :
     e \in {<<{"ErrNoStore"}, Nil, Nil>>, <<{"ErrSymlinkedStore"}, Nil, Nil>>,
            <<{"io"}, Nil, Nil>>, <<Nil, {"io"}, Nil>>, <<Nil, Nil, {"ErrContended"}>>,
            <<Nil, Nil, {"io"}>>}}

TextWrong == {[Fine EXCEPT !.text = text] : text \in TextKinds}

OneThingWrong == MachineWrong \cup OriginWrong \cup LocationWrong \cup StoreWrong \cup TextWrong

Worlds == {CalledAs(world, call) : world \in OneThingWrong, call \in Calls}

(* A base reached by a link or not, and what GIT_CEILING_DIRECTORIES held.  *)
Base == << <<x>>, <<Char("src", "small")>> >>

Links == {<<>>, (<<x>> :> <<X>>)}

Widget == << <<x>>, <<x, X>>, <<X>> >>

Inherited ==
  LET root == EnvsRoot(Base, Widget, <<>>)
      entries == {Marker, Ceiling(root, FALSE), Ceiling(root, TRUE), Ceiling(<<>>, TRUE),
                  Ceiling(Physical(<<x>> :> <<X>>, root), FALSE), Ceiling(Front(Base), FALSE)}
  IN  BoundedSeq(entries, 3) \ {<<Marker>>}

(* Values of CANGA_HOST_ENVS_REPO, and every repository that may be opened. *)
RawValues == BoundedSeq({x, Mark("/"), Mark(".."), Mark(":")}, 4)

Repositories ==
  {<< <<x>> >> \o path :
     path \in UNION {[1 .. n -> {<<x>>, <<X>>, EnvsRepoName, <<x>> \o Env}] : n \in 2 .. 3}}

SCP == [form |-> "scp", users |-> 0, port |-> FALSE, git |-> FALSE, slash |-> FALSE]

-----------------------------------------------------------------------------
Init ==
  /\ output = Waiting
  /\ \/ \E front, current \in BoundedSeq(Id, MaxNamed), present \in SUBSET Id :
          input = [call |-> "order", front |-> front, current |-> current,
                   present |-> present]
     \/ \E item \in Item : input = [call |-> "add", item |-> item]
     \/ \E lines \in BoundedSeq(Plain, MaxLines) :
          input = [call |-> "dropped", lines |-> lines]
     \/ \E tail \in Tails, how \in Written :
          input = [call |-> "origin", tail |-> tail, how |-> how]
     \/ \E folds \in SUBSET Folds : \E root, below \in Listings(folds), readable \in Listable :
          /\ <<x, X>> \in root
          /\ input = [call |-> "location", disk |-> Volume(folds, readable, root, below)]
     \/ \E first, second \in Hosted, folds \in SUBSET Folds, typed \in {<<x, X>>, <<X, x>>} :
          /\ SameName([folds |-> folds], typed, <<x, X>>)
          /\ input = [call |-> "clone", folds |-> folds, base |-> <<typed>>,
                      tails |-> << <<<<x>>>> \o first, <<<<x>>>> \o second >>]
     \/ \E layout \in Layouts : input = [call |-> "worktrees", layout |-> layout]
     \/ \E world \in Worlds : input = [call |-> "command", world |-> world]
     \/ \E machine \in Machines : \E n \in 0 .. Len(Commands(machine)) :
          input = [call |-> "sign", machine |-> machine, n |-> n]
     \/ \E tail \in Repositories, raw \in RawValues :
          input = [call |-> "workspace", tail |-> tail, raw |-> raw]
     \/ \E links \in Links, inherited \in Inherited :
          input = [call |-> "ceiling", links |-> links, inherited |-> inherited]

OrderIds ==
  /\ input.call = "order"
  /\ output' = [merged |-> MergeOrder(input.front, input.current, input.present),
                listed |-> Listing(input.present, input.current)]
  /\ UNCHANGED input

ReadBack ==
  /\ input.call = "add"
  /\ output' = Decode(Encode(input.item))
  /\ UNCHANGED input

ReadDropped ==
  /\ input.call = "dropped"
  /\ output' = Decode(input.lines)
  /\ UNCHANGED input

KeyOfOrigin ==
  /\ input.call = "origin"
  /\ output' = [key |-> Path(Spelled(input.tail, input.how))]
  /\ UNCHANGED input

(* The keys of all that is below the base, by every way to write it.        *)
KeysBelow(disk) ==
  {[top |-> t, key |-> PathUnder(disk, <<b>>, <<t[1], t[2]>>)] :
     b \in {n \in Names : SameName(disk, n, <<x, X>>)},
     t \in Typed(disk, <<>>) \X Typed(disk, << <<x, X>> >>)}

KeysOfLocations ==
  /\ input.call = "location"
  /\ output' = [keys |-> KeysBelow(input.disk)]
  /\ UNCHANGED input

(* Where two clones land, and the key each then has, by what git finds.     *)
ClonedAndNamed(folds, base, tails) ==
  LET url(i) == Spelled(tails[i], SCP)
      one    == Clone(EmptyBase(folds), base, url(1))
      two    == Clone(one.disk, base, url(2))
      top    == <<one.at, two.at>>
  IN  [top |-> top,
       key |-> [i \in {j \in 1 .. 2 : top[j] # Nowhere} |->
                  [found \in Origins \X Origins |->
                     RepoName(Readable(two.disk), base, top[i], url(i), found[1], found[2])]]]

KeysOfClones ==
  /\ input.call = "clone"
  /\ output' = ClonedAndNamed(input.folds, input.base, input.tails)
  /\ UNCHANGED input

KeysOfTrees ==
  /\ input.call = "worktrees"
  /\ output' = [key |-> [t \in Tree |-> KeyTree(input.layout, t)]]
  /\ UNCHANGED input

RunCommand ==
  /\ input.call = "command"
  /\ output' = [exit |-> ExitCode(CommandError(input.world))]
  /\ UNCHANGED input

StampClone ==
  /\ input.call = "sign"
  /\ LET stamp == StampSigning(input.machine, input.n) IN
       output' = [stamp |-> stamp, told |-> Told(stamp)]
  /\ UNCHANGED input

OpenWorkspace ==
  LET clone == Join(Base, input.tail)
      env   == EnvDir(Base, input.tail, input.raw)
  IN  /\ input.call = "workspace"
      /\ \E lacks \in SUBSET {clone, env} :
           output' = [panes |-> PanesOf(Base, input.tail, input.raw, {clone, env} \ lacks),
                      lacks |-> lacks]
      /\ UNCHANGED input

GuardPane ==
  /\ input.call = "ceiling"
  /\ output' = [entries |-> GitCeilingEnv(EnvsRoot(Base, Widget, <<>>), input.inherited)]
  /\ UNCHANGED input

Next ==
  /\ output = Waiting
  /\ \/ OrderIds \/ ReadBack \/ ReadDropped
     \/ KeyOfOrigin \/ KeysOfLocations \/ KeysOfClones \/ KeysOfTrees
     \/ RunCommand \/ StampClone \/ OpenWorkspace \/ GuardPane

Spec == Init /\ [][Next]_vars

Done(call) == input.call = call /\ output # Waiting

-----------------------------------------------------------------------------
(* mergeOrder: a reorder publishes every present id once, the requested     *)
(* ones first, in the order given, the others behind in their relative      *)
(* order, and ids the document does not name last, oldest first.  List      *)
(* shows every item once, whatever the document says, in the document's     *)
(* order, and what it does not name last.                                   *)
EachOnceInOrder ==
  Done("order") =>
    /\ IsOrderOf(output.merged, input.front \o input.current, input.present)
    /\ IsOrderOf(output.listed, input.current, input.present)

(* encode, decodeItem: what Add wrote is what Get reads, whatever the text  *)
(* looks like: lines like headers, blank lines in front or in the middle.   *)
(* Of a file that was dropped in, the text is the end, and all of it if it  *)
(* is one paragraph.                                                        *)
RoundTrip ==
  /\ Done("add") => output = input.item
  /\ Done("dropped") =>
       /\ IsSuffix(output.text, Trimmed(input.lines))
       /\ Blank \notin Range(input.lines) => output.text = input.lines

(* Path: "all collapse to the same value; that collapse IS the guarantee"   *)
(* (repo.go:238).  And no volume takes the directories of two keys for one  *)
(* (EscapePath, repo.go:337).                                               *)
SpellingsCollapse ==
  Done("origin") =>
    /\ output.key = input.tail
    /\ \A other \in Tails :
         other # output.key =>
           LET mine == EscapePath(output.key)
               its  == EscapePath(other)
           IN  \/ Len(mine) # Len(its)
               \/ \E i \in DOMAIN mine :
                    ~ SameName([folds |-> Folds], mine[i], its[i])

(* canonical, PathUnder: however base and tree are written, a directory has *)
(* one key, which is its own; and it has one unless a directory that has to *)
(* be listed cannot be, or its name makes no key.                           *)
DirectoryHasOneKey ==
  Done("location") =>
    \A entry, other \in output.keys :
      LET disk   == input.disk
          dir(t) == CHOOSE n \in disk.names[<<>>] : SameName(disk, n, t[1])
          name(t) == CHOOSE n \in disk.names[<<dir(t)>>] : SameName(disk, n, t[2])
      IN  /\ entry.key # Refused =>
               SameName(disk, entry.top[1], <<x, X>>) /\ entry.key = <<name(entry.top)>>
          /\ /\ disk.readable # {} /\ disk.readable # {<<>>}
             /\ dir(entry.top) = dir(other.top) /\ name(entry.top) = name(other.top)
             => entry.key = other.key

(* Both: a repository has one key, from its origin and from where it is.    *)
OneKey == SpellingsCollapse /\ DirectoryHasOneKey

(* repoName, Clone: "for any tree canga git clone placed the path below the *)
(* base IS its origin's tail" (app.go:91-92), letter by letter where the    *)
(* volume tells big from small, and unless the store has reserved a name in *)
(* it; the location speaks only for a tree without any origin; and no clone *)
(* lands where another is.                                                  *)
CloneKeepsItsKey ==
  Done("clone") =>
    LET key(i, origin) == output.key[i][<<origin, origin>>]
        placed == DOMAIN output.key
    IN  /\ \A i \in placed :
             /\ key(i, "reads") = input.tails[i]
             /\ key(i, "none") = Refused
                  <=> \E j \in DOMAIN output.top[i] : IsReservedSegment(output.top[i][j])
             /\ \A j \in DOMAIN key(i, "none") :
                  SameName([folds |-> input.folds], key(i, "none")[j], input.tails[i][j])
             /\ \A first \in Origins, second \in Origins \ {"none"} :
                  first # "reads" => output.key[i][<<first, second>>] = Refused
        /\ Cardinality({output.top[i] : i \in placed}) = Cardinality(placed)

(* The trees that the worktree directories of a repository name.            *)
Recorded(layout, r) ==
  {layout.worktree[w].gitdir : w \in {v \in Worktree : layout.worktree[v].home = r}}

(* KeyTree: "every worktree of one repository reads one list" (key.go:353), *)
(* and nothing else reads it: not a copy of a worktree, nor one of another  *)
(* repository that came to be where it was, nor one whose files name a      *)
(* repository that does not itself record it.                               *)
WorktreesShareOneList ==
  Done("worktrees") =>
    LET layout == input.layout IN
      /\ \A t, r \in Tree, w \in Worktree :
           /\ layout.dotGit[t] = <<"file", w>> /\ HasRepository(layout, r)
           /\ layout.worktree[w] = [home |-> r, common |-> r, gitdir |-> t]
           => output.key[t] = r
      /\ \A t \in Tree :
           output.key[t] \notin {None, t} =>
             /\ CommonDir(layout, t) = output.key[t]
             /\ t \in Recorded(layout, output.key[t])
      /\ \A t, u \in Tree :
           t # u /\ output.key[t] # None /\ output.key[t] = output.key[u] =>
             /\ CommonDir(layout, t) = CommonDir(layout, u)
             /\ layout.dotGit[t] # layout.dotGit[u]

(* The codes a command may end with.  2 says that the same command cannot   *)
(* succeed where it was run, "the caller pointed canga at the wrong place,  *)
(* or configured it wrongly" (app.go:144), or was given an id that is none; *)
(* whatever else is broken, cancelled, contended or not there by now is a   *)
(* 1, however far the command came.  For what is Doubtful the sources       *)
(* disagree (app.go:111-117 and 146-156 file it under a wrong place,        *)
(* app.go:161-163 says that an I/O failure is a 1): it may be either, and   *)
(* never a 0.  An id that is gone or stuck hides no malformed one beside    *)
(* it; add needs no store, list has an empty one, and path asks for none.   *)
RightExits(world) ==
  LET behind  == world.origin \in Answers \cup {"empty url"}
      placed  == behind /\ world.remote = "unlisted"
      met     == {world.origin} \cup (IF behind THEN {world.remote} ELSE {})
                   \cup (IF placed THEN {world.why} ELSE {})
      key     == world.origin = "url" \/ (placed /\ world.why = "fine")
      noStore == world.open = {"ErrNoStore"}
      done    == /\ world.verb \in {"list", "reorder"} => world.read = Nil
                 /\ world.verb = "reorder" => "gone" \notin world.ids /\ world.publish = Nil
                 /\ world.verb \in {"rm", "file"} => world.ids = {"there"}
                 /\ world.verb = "add" => world.text = "fine"
  IN  IF world.move # Nil \/ met \cap Broken # {} \/ world.origin = "refused" THEN {1}
      ELSE IF ~ key THEN IF met \cap Doubtful = {} THEN {2} ELSE {1, 2}
      ELSE IF world.data # Nil THEN {1}
      ELSE IF world.verb = "path" \/ (noStore /\ world.verb = "list") THEN {0}
      ELSE IF world.open # Nil /\ ~ (noStore /\ world.verb = "add") THEN {1}
      ELSE IF "malformed" \in world.ids THEN {2}
      ELSE IF done THEN {0} ELSE {1}

(* ExitCode: every command that is run ends with an exit code RightExits    *)
(* has for it, and not with that of whichever error happened to be met or   *)
(* joined first.                                                            *)
ExitIsRight == Done("command") => output.exit \in RightExits(input.world)

(* StampSigning, reportSigning: a clone is said to sign if and only if it   *)
(* does.  "The four writes are one decision" (signing.go:84): unless there  *)
(* is a warning all or none of them were made, and wherever they stop, the  *)
(* clone does not turn signing on without the format and the key.  It never *)
(* names an allowed-signers file that no setting gives.                     *)
SigningIsTold ==
  Done("sign") =>
    LET local == output.stamp.local
        signs == SignsCommits(input.machine, local)
    IN  /\ output.told = "warning" \/ (signs <=> output.told \in {"on", "inherited"})
        /\ output.told = "warning" \/ local \ {"signers"} \in {{}, Range(Settings)}
        /\ output.told = "on" => Range(Settings) \subseteq local
        /\ output.told = "inherited" => local \subseteq {"signers"}
        /\ {"sign", "tags"} \cap local # {} => {"format", "key"} \subseteq local
        /\ "signers" \in local => Resolves(input.machine, "signers")

(* Resolve, gitCeilingEnv: the environment is below the base, whatever the  *)
(* variable holds, no two repositories have one environment, and only the   *)
(* repository of the environments holds its own.  And git in that pane does *)
(* not find the repository around it, whether the base is reached by a link *)
(* or not, nor lose a ceiling the user had.                                 *)
PanesAreApart ==
  /\ Done("workspace") /\ output.panes # Refused =>
       LET panes == output.panes IN
         /\ output.lacks = {}
         /\ IsStrictPrefix(Base, panes.env) /\ IsStrictPrefix(panes.ceiling, panes.env)
         /\ \A other \in Repositories :
              EnvDir(Base, other, input.raw) = panes.env => other = input.tail
         /\ input.raw = <<>> /\ Last(input.tail) # EnvsRepoName
              => ~ IsPrefix(panes.clone, panes.env)
  /\ Done("ceiling") =>
       LET root == EnvsRoot(Base, Widget, <<>>)
           found == Searched(input.links, output.entries, EnvDir(Base, Widget, <<>>))
       IN  /\ \A dir \in found : IsStrictPrefix(Physical(input.links, root), dir)
           /\ Ceilings(input.links, input.inherited) \subseteq Ceilings(input.links, output.entries)
=============================================================================
