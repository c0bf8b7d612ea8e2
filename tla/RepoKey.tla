------------------------------- MODULE RepoKey -------------------------------
(***************************************************************************)
(* Which list a repository reads: its key, from the URL of its origin      *)
(* (internal/repo/repo.go) or from where its working tree is               *)
(* (internal/repo/key.go), and the directory the key names.  Pure          *)
(* functions of a URL and of what is on disk.  And where canga git clone    *)
(* (internal/repo/clone.go) puts a repository, which has to agree with it.  *)
(*                                                                         *)
(* A string is a sequence of characters.  A character has a kind: letters  *)
(* are small or big, accented ones composed or decomposed; what separates  *)
(* is a mark, and ".git" and ".." are one mark each.                       *)
(***************************************************************************)
EXTENDS Naturals, SequencesExt

Char(of, kind) == [of |-> of, kind |-> kind]

Mark(of) == Char(of, "mark")

Refused == <<>>

-----------------------------------------------------------------------------
(* IsSafeSegment; what IsReservedSegment knows is one letter here.          *)
IsSafeSegment(segment) ==
  /\ segment # <<>> /\ segment # <<Mark("..")>>
  /\ \A i \in DOMAIN segment :
       \/ segment[i].kind \in {"small", "big", "digit"}
       \/ segment[i] \in {Mark(".git"), Mark("..")}

IsReservedSegment(segment) == segment = <<Char("repo", "small")>>

(* strings.Cut, CutLast, TrimSuffix and Split, at one mark.                 *)
Places(s, mark) == {i \in DOMAIN s : s[i] = mark}

Before(s, i) == SubSeq(s, 1, i - 1)

After(s, i) == SubSeq(s, i + 1, Len(s))

First(places) == CHOOSE i \in places : \A j \in places : i <= j

Final(places) == CHOOSE i \in places : \A j \in places : i >= j

TrimSuffix(s, mark) == IF s # <<>> /\ s[Len(s)] = mark THEN Before(s, Len(s)) ELSE s

Segments(s) ==
  FoldLeft(LAMBDA parts, c : IF c = Mark("/") THEN Append(parts, <<>>)
                             ELSE [parts EXCEPT ![Len(parts)] = Append(@, c)],
           << <<>> >>, s)

(* hostOf: no userinfo, which ends at the last "@", and no port.            *)
HostOf(authority) ==
  LET users == Places(authority, Mark("@"))
      host  == IF users = {} THEN authority ELSE After(authority, Final(users))
      ports == Places(host, Mark(":"))
  IN  IF ports = {} THEN host ELSE Before(host, First(ports))

(* Where a scheme ends: at the first "://".                                 *)
Schemes(url) ==
  {i \in Places(url, Mark(":")) :
     i + 2 <= Len(url) /\ url[i + 1] = Mark("/") /\ url[i + 2] = Mark("/")}

(* split: the authority and the path, of a URL or of the scp-like spelling. *)
HostAndSegments(authority, path) == <<HostOf(authority)>> \o Segments(path)

Split(url) ==
  IF Schemes(url) # {}
  THEN LET rest == After(url, First(Schemes(url)) + 2)
           cuts == Places(rest, Mark("/"))
       IN  IF cuts = {} THEN Refused
           ELSE HostAndSegments(Before(rest, First(cuts)), After(rest, First(cuts)))
  ELSE LET cuts == Places(url, Mark(":"))
       IN  IF cuts = {} THEN Refused
           ELSE HostAndSegments(Before(url, First(cuts)), After(url, First(cuts)))

(* Path: the key of an origin, or Refused.                                  *)
Path(url) ==
  LET key == Split(TrimSuffix(TrimSuffix(url, Mark("/")), Mark(".git")))
  IN  IF Len(key) >= 3 /\ \A i \in DOMAIN key : IsSafeSegment(key[i])
      THEN key ELSE Refused

(* EscapePath: a big letter becomes "!" and its small form.                 *)
EscapePath(key) ==
  [i \in DOMAIN key |->
     FlattenSeq([j \in DOMAIN key[i] |->
       IF key[i][j].kind = "big" THEN <<Mark("!"), Char(key[i][j].of, "small")>>
       ELSE <<key[i][j]>>])]

-----------------------------------------------------------------------------
(* A volume may take big and small letters, or the two forms of an accented *)
(* one, for the same.  disk.names[d] are the entries of directory d, a path *)
(* of names as they are stored; disk.readable are the directories that can  *)
(* be listed.  Links are resolved before, by filepath.EvalSymlinks.         *)
SameName(disk, a, b) ==
  /\ Len(a) = Len(b)
  /\ \A i \in DOMAIN a :
       /\ a[i].of = b[i].of
       /\ \/ a[i].kind = b[i].kind
          \/ {a[i].kind, b[i].kind} \in disk.folds

Found(disk, dir, name) == {n \in disk.names[dir] : SameName(disk, n, name)}

FlipCase(name) ==
  [i \in DOMAIN name |->
     Char(name[i].of, CASE name[i].kind = "big" -> "small"
                        [] name[i].kind = "small" -> "big"
                        [] OTHER -> name[i].kind)]

IsASCII(name) == \A i \in DOMAIN name : name[i].kind \notin {"composed", "decomposed"}

Nowhere == << <<Mark("?")>> >>

(* Slip: an ASCII name is taken as it was typed.                            *)
TypedIsStored(disk, dir, name) == IsASCII(name)

(* onDisk: whether the spelling that was typed must be the stored one, so   *)
(* that the directory need not be listed.                                   *)
KnownAsTyped(disk, dir, name) ==
  /\ IsASCII(name)
  /\ FlipCase(name) # name => Found(disk, dir, FlipCase(name)) # Found(disk, dir, name)

(* canonical, onDisk: the path with each name as it is stored.              *)
OnDisk(disk, dir, name) ==
  IF dir \notin DOMAIN disk.names \/ Found(disk, dir, name) = {} THEN Nowhere
  ELSE IF KnownAsTyped(disk, dir, name) THEN Append(dir, name)
  ELSE IF dir \notin disk.readable THEN Nowhere
  ELSE Append(dir, CHOOSE n \in Found(disk, dir, name) : TRUE)

Canonical(disk, path) ==
  FoldLeft(LAMBDA dir, name : IF dir = Nowhere THEN Nowhere ELSE OnDisk(disk, dir, name),
           <<>>, path)

(* PathUnder: the key of a working tree by its place below the base.        *)
PathUnder(disk, base, top) ==
  LET realBase == Canonical(disk, base)
      realTop  == Canonical(disk, top)
      key      == SubSeq(realTop, Len(realBase) + 1, Len(realTop))
  IN  IF /\ realBase # Nowhere /\ realTop # Nowhere
         /\ IsStrictPrefix(realBase, realTop)
         /\ \A i \in DOMAIN key : IsSafeSegment(key[i]) /\ ~ IsReservedSegment(key[i])
      THEN key ELSE Refused

-----------------------------------------------------------------------------
(* canga git clone (internal/repo/clone.go): where a clone lands, Nowhere   *)
(* if it is refused, and the disk after it.                                 *)
TargetDir(base, url) == IF Path(url) = Refused THEN Nowhere ELSE base \o Path(url)

(* What a path leads to, however it is written.                             *)
Resolve(disk, path) ==
  FoldLeft(LAMBDA dir, name :
             IF dir \notin DOMAIN disk.names \/ Found(disk, dir, name) = {} THEN Nowhere
             ELSE Append(dir, CHOOSE n \in Found(disk, dir, name) : TRUE),
           <<>>, path)

(* Slip: what is in the way is looked for as it would be written.           *)
RequireEmptyTyped(disk, target) ==
  target \in DOMAIN disk.names => disk.names[target] = {}

RequireEmpty(disk, target) ==
  LET there == Resolve(disk, target) IN
    there # Nowhere => there \in DOMAIN disk.names /\ disk.names[there] = {}

(* os.MkdirAll: a directory that is there keeps its spelling.               *)
MkdirAll(disk, path) ==
  FoldLeft(LAMBDA made, name :
             LET there == Found(made.disk, made.at, name)
                 at    == Append(made.at, IF there = {} THEN name ELSE CHOOSE n \in there : TRUE)
                 names == made.disk.names
             IN  [at |-> at,
                  disk |-> IF there # {} THEN made.disk
                           ELSE [made.disk EXCEPT
                                   !.names = [d \in DOMAIN names \cup {at} |->
                                     IF d = at THEN {}
                                     ELSE names[d] \cup IF d = made.at THEN {name} ELSE {}]]],
           [disk |-> disk, at |-> <<>>], path)

Clone(disk, base, url) ==
  LET target == TargetDir(base, url)
      made   == MkdirAll(disk, target)
  IN  IF target = Nowhere \/ ~ RequireEmpty(disk, target) THEN [disk |-> disk, at |-> Nowhere]
      ELSE [made EXCEPT !.disk.names[made.at] = @ \cup {<<Mark(".git")>>}]

(* git is asked for the URL of origin and, when it has none to give, for    *)
(* the remotes; what it finds may be another thing at the second question.  *)
(* origin "reads", is not there ("none"), has no URL ("unusable"), or git   *)
(* cannot read the configuration ("unreadable").                            *)
NoOrigin(found) == found \in {"none", "unusable"}

HasRemote(found) == found \in {"reads", "unusable"}

(* repoName: the key of the repository whose tree is at top.                *)
RepoName(disk, base, top, url, first, second) ==
  CASE first = "reads" -> Path(url)
    [] NoOrigin(first) /\ ~ HasRemote(second) /\ second # "unreadable" ->
         PathUnder(disk, base, top)
    [] OTHER -> Refused

-----------------------------------------------------------------------------
(* Trees are numbers.  layout.dotGit[t] is the .git of tree t: a git        *)
(* directory ("dir", and "elsewhere" when core.worktree in it names another *)
(* tree), a link, a file naming a git directory apart (<<"apart">>), or a   *)
(* file naming the worktree directory w (<<"file", w>>).  A repository is   *)
(* the tree that holds it, or Bare.  Of a worktree directory                *)
(* layout.worktree[w] says in whose worktrees/ it lies (home, None when in  *)
(* nobody's), and what two files in it name: commondir, a repository, and   *)
(* gitdir, the tree whose .git it is.  Both may have been written by hand;  *)
(* None is a file, or a directory, that is not there.                       *)
None == 0

Bare == 9

HasRepository(layout, r) == r = Bare \/ layout.dotGit[r] \in {<<"dir">>, <<"elsewhere">>}

(* What git answers: the common directory, None when it finds no repository. *)
(* It goes where commondir says, wherever the worktree directory lies.      *)
CommonDir(layout, t) ==
  LET dotGit == layout.dotGit[t] IN
    CASE dotGit \in {<<"dir">>, <<"elsewhere">>} -> t
      [] dotGit \in {<<"apart">>, <<"link">>} -> Bare
      [] OTHER ->
           LET w == layout.worktree[dotGit[2]] IN
             IF /\ w.home # None => HasRepository(layout, w.home)
                /\ w.common # None /\ HasRepository(layout, w.common)
             THEN w.common ELSE None

(* Toplevel: git and the file system agree on the tree.                     *)
IsToplevel(layout, t) == CommonDir(layout, t) # None /\ layout.dotGit[t] # <<"elsewhere">>

(* Slip: commondir is believed, wherever the worktree directory lies.       *)
LinkBelieved(t, w) == w.gitdir = t /\ w.common # Bare

(* linkedMain: the worktree directory lies in the worktrees/ of the common  *)
(* one, it names this tree back, and the common directory is the .git of a  *)
(* tree.                                                                    *)
LinkVerified(t, w) == w.home = w.common /\ w.gitdir = t /\ w.common # Bare

(* KeyTree: the tree whose place keys t, or None.                           *)
KeyTree(layout, t) ==
  LET dotGit == layout.dotGit[t] IN
    IF ~ IsToplevel(layout, t) \/ dotGit = <<"link">> THEN None
    ELSE IF dotGit \in {<<"dir">>, <<"apart">>} THEN t
    ELSE IF LinkVerified(t, layout.worktree[dotGit[2]]) THEN CommonDir(layout, t)
    ELSE None
=============================================================================
