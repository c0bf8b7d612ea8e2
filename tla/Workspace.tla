----------------------------- MODULE Workspace -----------------------------
(***************************************************************************)
(* The two directories a workspace opens, a repository's clone and its     *)
(* sandbox environment (internal/workspace/workspace.go), and how the pane *)
(* of the environment keeps git in it from the repository that holds the   *)
(* environments (internal/workspace/cmux.go).  Paths are sequences of      *)
(* names, from the root.                                                   *)
(***************************************************************************)
EXTENDS RepoKey

EnvsRepoName == <<Char("docker-sbx", "small")>>

Envs == <<Char("envs", "small")>>

Env == <<Char("-env", "small")>>

(* filepath.Join, which also cleans.                                        *)
Join(base, names) ==
  FoldLeft(LAMBDA path, n : CASE n = <<>>           -> path
                              [] n = <<Mark("..")>> -> IF path = <<>> THEN path ELSE Front(path)
                              [] OTHER              -> Append(path, n),
           base, names)

(* strings.TrimRight(value, "/").                                           *)
TrimSlashes(value) ==
  FoldRight(LAMBDA c, kept : IF kept = <<>> /\ c = Mark("/") THEN kept ELSE <<c>> \o kept,
            value, <<>>)

(* envsRepoPath: the value of CANGA_HOST_ENVS_REPO, or docker-sbx beside    *)
(* the repository.                                                          *)
EnvsRepoPath(tail, raw) ==
  LET names == Segments(TrimSlashes(raw)) IN
    IF raw = <<>> THEN Append(Front(tail), EnvsRepoName)
    ELSE IF Head(raw) = Mark("/") \/ \E i \in DOMAIN names : ~ IsSafeSegment(names[i])
      THEN Refused ELSE names

EnvsRoot(base, tail, raw) == Join(base, Append(EnvsRepoPath(tail, raw), Envs))

EnvDir(base, tail, raw) ==
  Join(EnvsRoot(base, tail, raw), Append(Front(tail), Last(tail) \o Env))

(* Resolve: the two directories, which must be there, or Refused.           *)
PanesOf(base, tail, raw, dirs) ==
  LET clone == Join(base, tail)
      env   == EnvDir(base, tail, raw)
  IN  IF EnvsRepoPath(tail, raw) = Refused \/ ~ {clone, env} \subseteq dirs THEN Refused
      ELSE [clone |-> clone, env |-> env, ceiling |-> EnvsRoot(base, tail, raw)]

-----------------------------------------------------------------------------
(* GIT_CEILING_DIRECTORIES is a sequence of entries; the empty one is       *)
(* git's marker.  An entry may end in a slash.                              *)
Ceiling(path, slash) == [path |-> path, slash |-> slash]

Marker == Ceiling(<<>>, FALSE)

(* Slip: an entry behind the marker is as good.                             *)
BeforeMarkerAll(entries) == Range(entries)

BeforeMarker(entries) ==
  {entries[i] : i \in {j \in DOMAIN entries : \A k \in 1 .. j : entries[k] # Marker}}

(* gitCeilingEnv, cmuxArgs: what the pane of the environment gets.          *)
GitCeilingEnv(ceiling, inherited) ==
  IF \E entry \in BeforeMarker(inherited) : entry.path = ceiling THEN inherited
  ELSE <<Ceiling(ceiling, FALSE)>> \o inherited

(* git resolves links in the entries before the marker and takes the others *)
(* as they are; links maps the first name of a path to what it leads to.    *)
Physical(links, path) ==
  IF path # <<>> /\ path[1] \in DOMAIN links THEN <<links[path[1]]>> \o Tail(path) ELSE path

Ceilings(links, entries) ==
  {IF \E k \in 1 .. i : entries[k] = Marker THEN entries[i].path
   ELSE Physical(links, entries[i].path) : i \in {j \in DOMAIN entries : entries[j] # Marker}}

(* The directories git looks for a repository in: where it is, and upwards, *)
(* below the nearest ceiling.                                               *)
Searched(links, entries, dir) ==
  LET here  == Physical(links, dir)
      above == {c \in Ceilings(links, entries) : IsStrictPrefix(c, here)}
  IN  {SubSeq(here, 1, n) : n \in {m \in 0 .. Len(here) : \A c \in above : m > Len(c)}}
=============================================================================
