--------------------------- MODULE StoreOpenProofs ---------------------------
(***************************************************************************)
(* Proofs about StoreOpen for any number of commands, stores, directories  *)
(* and changes by others, and any trees to begin with.                     *)
(***************************************************************************)
EXTENDS StoreOpen, TLAPS

-----------------------------------------------------------------------------
(* Entries, keys and places.                                                *)
LEMMA EntryCases ==
  ASSUME NEW e \in Entry
  PROVE  \/ e = Absent /\ e[1] = "absent"
         \/ e[1] = "dir" /\ e[2] \in Dir /\ e = Directory(e[2]) /\ e # Absent
         \/ e[1] = "link" /\ e[2] \in Name /\ e = LinkTo(e[2]) /\ e # Absent
BY DEF Entry, Absent, Directory, LinkTo

LEMMA EntryParts ==
  /\ Absent[1] = "absent" /\ Absent \in Entry
  /\ \A d : /\ Directory(d)[1] = "dir" /\ Directory(d)[2] = d
            /\ Directory(d) # Absent
            /\ d \in Dir => Directory(d) \in Entry
  /\ \A n : /\ LinkTo(n)[1] = "link" /\ LinkTo(n)[2] = n
            /\ LinkTo(n) # Absent
            /\ n \in Name => LinkTo(n) \in Entry
BY DEF Entry, Absent, Directory, LinkTo

LEMMA KeyFacts ==
  ASSUME NEW k \in Key
  PROVE  Len(k) = 2 /\ k[1] \in Name /\ k[2] \in Name
<1>1. PICK a \in Name, b \in Name : k = <<a, b>>
  BY KeyAssumption
<1> QED BY <1>1

LEMMA PartFacts ==
  /\ DOMAIN Sub = 1 .. 3 /\ Len(Sub) = 3
  /\ Sub[1] = "items" /\ Sub[2] = "tmp" /\ Sub[3] = "order"
  /\ Parts = {"items", "tmp", "order"}
<1>1. Len(Sub) = 3 /\ Sub[1] = "items" /\ Sub[2] = "tmp" /\ Sub[3] = "order"
  BY DEF Sub
<1>2. DOMAIN Sub = 1 .. 3
  BY DEF Sub
<1> QED BY <1>1, <1>2 DEF Parts

-----------------------------------------------------------------------------
(* The invariant, command by command.                                       *)
TreeTyped ==
  /\ entry \in [Place -> Entry] /\ made \in SUBSET Dir
  /\ \A a, b \in Directories :
       entry[a][2] \in made \ {Base} /\ (entry[a] = entry[b] => a = b)
  /\ holds \in [Dir -> SUBSET Parts]

StateTyped ==
  /\ pc \in [Process -> Ended \cup {"idle", "mkbase", "base", "lstat", "mkdir",
               "again", "open", "check"} \cup Parts]
  /\ create \in SUBSET Process /\ key \in [Process -> Key]
  /\ chain \in [Process -> Seq(Dir)] /\ child \in [Process -> Dir]
  /\ was \in [Process -> SUBSET Dir] /\ stood \in SUBSET Process
  /\ done \in [Process -> SUBSET Process]
  /\ swaps \in 0 .. MaxSwaps /\ faults \in 0 .. MaxFaults

CommandTyped(p) ==
  /\ Len(chain[p]) \in 1 .. Len(key[p]) + 1
  /\ p \in Searching => At(p)[1] \in made
  /\ pc[p] \in Ended \ {"done"} => chain[p] = <<Base>> /\ child[p] = Base

SearchOK(p) ==
  /\ p \in Searching => Len(chain[p]) <= Len(key[p])
                        /\ DirectoryAt(entry, At(p)) \subseteq was[p]
  /\ pc[p] = "check" => child[p] \in made
  /\ pc[p] \in {"idle", "mkbase", "base"} => chain[p] = <<Base>>

StopOK(p) ==
  p \in stood =>
    \/ pc[p] = "lstat" /\ IsLink(At(p))
    \/ pc[p] = "symlinked"
    \/ pc[p] = "failed" /\ faults > 0

PartsOK(p) ==
  /\ pc[p] \in Parts \cup {"done"} => Len(chain[p]) = Len(key[p]) + 1
  /\ pc[p] \in {"tmp", "order", "done"} => "items" \in holds[chain[p][Len(chain[p])]]
  /\ pc[p] \in {"order", "done"} => "tmp" \in holds[chain[p][Len(chain[p])]]
  /\ pc[p] = "done" => "order" \in holds[chain[p][Len(chain[p])]]
  /\ p \in Searching \/ pc[p] \in Parts \cup {"done"} => Base \in made
  /\ \A r \in done[p] : pc[r] = "done"

Path(p) ==
  /\ pc[p] \notin {"failed", "replaced"}
  /\ chain[p][1] = Base
  /\ \A i \in 1 .. Len(chain[p]) - 1 :
       entry[<<chain[p][i], key[p][i]>>] = Directory(chain[p][i + 1])
  /\ pc[p] = "again" => entry[At(p)] # Absent
  /\ pc[p] = "open" => entry[At(p)][1] = "dir"
  /\ pc[p] = "check" => entry[At(p)] = Directory(child[p])
  /\ pc[p] = "nostore" => \A r \in done[p] : key[r] # key[p]

PathOK(p) == swaps = 0 /\ faults = 0 => Path(p)

CommandOK(p) == CommandTyped(p) /\ SearchOK(p) /\ StopOK(p) /\ PartsOK(p) /\ PathOK(p)

LEMMA InvariantByCommand ==
  OpenInvariant <=> TreeTyped /\ StateTyped /\ \A p \in Process : CommandOK(p)
<1>1. TypeOK <=> TreeTyped /\ StateTyped /\ \A p \in Process : CommandTyped(p)
  BY DEF TypeOK, TreeTyped, StateTyped, CommandTyped
<1>2. SearchIsObserved <=> \A p \in Process : SearchOK(p)
  BY DEF SearchIsObserved, SearchOK
<1>3. stood \in SUBSET Process => (LinksStopIt <=> \A p \in Process : StopOK(p))
  BY DEF LinksStopIt, StopOK
<1>4. PartsInOrder <=> \A p \in Process : PartsOK(p)
  BY DEF PartsInOrder, PartsOK
<1>5. UndisturbedPaths <=> \A p \in Process : PathOK(p)
  BY DEF UndisturbedPaths, PathOK, Path
<1>6. StateTyped => stood \in SUBSET Process
  BY DEF StateTyped
<1> QED BY <1>1, <1>2, <1>3, <1>4, <1>5, <1>6 DEF OpenInvariant, CommandOK

LEMMA AtFacts ==
  ASSUME StateTyped, NEW p \in Process, CommandTyped(p), SearchOK(p)
  PROVE  /\ Len(key[p]) = 2 /\ key[p][1] \in Name /\ key[p][2] \in Name
         /\ chain[p] \in Seq(Dir) /\ Len(chain[p]) \in 1 .. 3
         /\ chain[p][Len(chain[p])] \in Dir
         /\ p \in Searching =>
              /\ At(p) \in Place /\ At(p) = <<At(p)[1], At(p)[2]>>
              /\ At(p)[1] = chain[p][Len(chain[p])] /\ At(p)[1] \in made
              /\ At(p)[2] \in Name
              /\ Len(chain[p]) \in 1 .. 2
<1>1. key[p] \in Key /\ chain[p] \in Seq(Dir)
  BY DEF StateTyped
<1>2. Len(key[p]) = 2 /\ key[p][1] \in Name /\ key[p][2] \in Name
  BY <1>1, KeyFacts
<1>3. Len(chain[p]) \in 1 .. 3
  BY <1>2 DEF CommandTyped
<1>4. chain[p][Len(chain[p])] \in Dir
  BY <1>1, <1>3
<1>5. ASSUME p \in Searching
      PROVE  /\ At(p) \in Place /\ At(p) = <<At(p)[1], At(p)[2]>>
             /\ At(p)[1] = chain[p][Len(chain[p])] /\ At(p)[1] \in made
             /\ At(p)[2] \in Name
             /\ Len(chain[p]) \in 1 .. 2
  <2>1. Len(chain[p]) \in 1 .. 2
    BY <1>2, <1>3, <1>5 DEF SearchOK
  <2>2. key[p][Len(chain[p])] \in Name
    <3>1. Len(chain[p]) = 1 \/ Len(chain[p]) = 2
      BY <2>1
    <3> QED BY <1>2, <3>1
  <2>3. At(p)[1] = chain[p][Len(chain[p])] /\ At(p)[2] = key[p][Len(chain[p])]
    BY DEF At
  <2> QED BY <1>4, <1>5, <2>1, <2>2, <2>3 DEF At, Place, CommandTyped
<1> QED BY <1>1, <1>2, <1>3, <1>4, <1>5

-----------------------------------------------------------------------------
(* Where a name leads: to what it has if that is no link, and never to a    *)
(* link.                                                                    *)
LEMMA LeadsTyped ==
  ASSUME TreeTyped, NEW d \in Dir, NEW n \in Name, Leads(d, n) # Absent
  PROVE  /\ Leads(d, n) = Directory(Leads(d, n)[2])
         /\ Leads(d, n)[2] \in made \ {Base} /\ Leads(d, n)[2] \in Dir
<1>1. LinksEnd(d, n) # {}
  BY DEF Leads
<1> DEFINE m == CHOOSE x \in LinksEnd(d, n) : TRUE
<1>2. m \in LinksEnd(d, n)
  BY <1>1
<1>3. Leads(d, n) = entry[<<d, m>>]
  BY <1>1 DEF Leads
<1> HIDE DEF m
<1>4. m \in Name /\ ~ IsLink(<<d, m>>) /\ <<d, m>> \in Place
  BY <1>2 DEF LinksEnd, Place
<1>5. entry[<<d, m>>] \in Entry
  BY <1>4 DEF TreeTyped
<1>6. entry[<<d, m>>][1] = "dir" /\ entry[<<d, m>>] = Directory(entry[<<d, m>>][2])
  BY <1>3, <1>4, <1>5, EntryCases DEF IsLink
<1>7. <<d, m>> \in Directories
  BY <1>4, <1>6 DEF Directories
<1> QED BY <1>3, <1>6, <1>7 DEF TreeTyped

LEMMA LeadsNoLink ==
  ASSUME NEW d \in Dir, NEW n \in Name, ~ IsLink(<<d, n>>)
  PROVE  Leads(d, n) = entry[<<d, n>>]
<1>1. n \in LinksEnd(d, n)
  BY DEF LinksEnd
<1>2. ASSUME NEW m \in LinksEnd(d, n)
      PROVE  m = n
  <2>1. {n} \in SUBSET Name /\ n \in {n}
    OBVIOUS
  <2>2. \A x \in {n} : IsLink(<<d, x>>) => entry[<<d, x>>][2] \in {n}
    OBVIOUS
  <2> QED BY <2>1, <2>2 DEF LinksEnd
<1>3. LinksEnd(d, n) = {n}
  BY <1>1, <1>2
<1> QED BY <1>3 DEF Leads

-----------------------------------------------------------------------------
(* What is made and what is moved keeps a directory to one name.            *)
LEMMA DirectoryMade ==
  ASSUME TreeTyped, Base \in made, NEW at \in Place, entry[at] = Absent,
         NewDirectory(at), UNCHANGED holds
  PROVE  /\ TreeTyped' /\ made \subseteq made' /\ entry'[at] # Absent
         /\ \A x \in Place : entry[x] # Absent => entry'[x] = entry[x]
<1>1. PICK d \in Dir \ made : /\ entry' = [entry EXCEPT ![at] = Directory(d)]
                              /\ made' = made \cup {d}
  BY DEF NewDirectory
<1>2. entry' \in [Place -> Entry] /\ entry'[at] = Directory(d)
  BY <1>1, EntryParts DEF TreeTyped
<1>3. \A x \in Place \ {at} : entry'[x] = entry[x]
  BY <1>1 DEF TreeTyped
<1>4. ASSUME NEW a \in Directories'
      PROVE  \/ a = at /\ entry'[a][2] = d
             \/ a \in Directories /\ a # at /\ entry'[a] = entry[a] /\ entry'[a][2] \in made \ {Base}
  <2>1. a \in Place /\ entry'[a][1] = "dir"
    BY DEF Directories
  <2> QED BY <1>2, <1>3, <2>1, EntryParts DEF Directories, TreeTyped
<1>5. \A a, b \in Directories' :
        entry'[a][2] \in made' \ {Base} /\ (entry'[a] = entry'[b] => a = b)
  BY <1>1, <1>4 DEF TreeTyped
<1> QED BY <1>1, <1>2, <1>3, <1>5, EntryParts DEF TreeTyped

LEMMA RearrangedTyped ==
  ASSUME TreeTyped, Rearrange, \A p \in Searching : At(p)[1] \in Dir
  PROVE  TreeTyped'
<1>0. UNCHANGED <<made, holds>>
  BY DEF Rearrange
<1>1. PICK d \in {At(p)[1] : p \in Searching}, n \in Name :
       \/ \E m \in Name :
            /\ entry[<<d, n>>] # Absent /\ entry[<<d, m>>] = Absent
            /\ entry' = [entry EXCEPT ![<<d, m>>] = entry[<<d, n>>],
                                      ![<<d, n>>] = Absent]
       \/ \E m \in Name \ {n} :
            entry[<<d, n>>] = Absent /\ entry' = [entry EXCEPT ![<<d, n>>] = LinkTo(m)]
       \/ IsLink(<<d, n>>) /\ entry' = [entry EXCEPT ![<<d, n>>] = Absent]
  BY DEF Rearrange
<1>2. d \in Dir /\ <<d, n>> \in Place
  BY DEF Place
<1>3. SUFFICES /\ entry' \in [Place -> Entry]
               /\ \A a, b \in Directories' :
                    entry'[a][2] \in made \ {Base} /\ (entry'[a] = entry'[b] => a = b)
  BY <1>0 DEF TreeTyped
<1>4. ASSUME NEW m \in Name,
             entry[<<d, n>>] # Absent, entry[<<d, m>>] = Absent,
             entry' = [entry EXCEPT ![<<d, m>>] = entry[<<d, n>>], ![<<d, n>>] = Absent]
      PROVE  /\ entry' \in [Place -> Entry]
             /\ \A a, b \in Directories' :
                  entry'[a][2] \in made \ {Base} /\ (entry'[a] = entry'[b] => a = b)
  <2> DEFINE from == <<d, n>>
             to == <<d, m>>
             old(x) == IF x = to THEN from ELSE x
  <2>1. from \in Place /\ to \in Place /\ from # to
    BY <1>2, <1>4 DEF Place
  <2> HIDE DEF from, to
  <2>2. entry' = [entry EXCEPT ![to] = entry[from], ![from] = Absent]
    BY <1>4 DEF from, to
  <2>3. entry' \in [Place -> Entry]
    BY <2>1, <2>2, EntryParts DEF TreeTyped
  <2>4. entry'[from] = Absent /\ entry'[to] = entry[from]
        /\ \A x \in Place \ {from, to} : entry'[x] = entry[x]
    BY <2>1, <2>2 DEF TreeTyped
  <2>5. ASSUME NEW a \in Directories'
        PROVE  a \in Place /\ a # from /\ old(a) \in Directories /\ entry'[a] = entry[old(a)]
    <3>1. a \in Place /\ entry'[a][1] = "dir"
      BY DEF Directories
    <3>2. a # from
      BY <2>4, <3>1, EntryParts
    <3> QED BY <2>1, <2>4, <3>1, <3>2 DEF Directories
  <2>6. ASSUME NEW a \in Directories', NEW b \in Directories'
        PROVE  entry'[a][2] \in made \ {Base} /\ (entry'[a] = entry'[b] => a = b)
    <3>1. entry[old(a)] = entry[old(b)] => old(a) = old(b)
      BY <2>5 DEF TreeTyped
    <3>2. old(a) = old(b) => a = b
      BY <2>5
    <3>3. entry[old(a)][2] \in made \ {Base}
      BY <2>5 DEF TreeTyped
    <3> HIDE DEF old
    <3> QED BY <2>5, <3>1, <3>2, <3>3
  <2> QED BY <2>3, <2>6
<1>5. ASSUME NEW e \in Entry, e[1] # "dir", entry' = [entry EXCEPT ![<<d, n>>] = e]
      PROVE  /\ entry' \in [Place -> Entry]
             /\ \A a, b \in Directories' :
                  entry'[a][2] \in made \ {Base} /\ (entry'[a] = entry'[b] => a = b)
  <2>1. entry' \in [Place -> Entry]
    BY <1>2, <1>5 DEF TreeTyped
  <2>2. ASSUME NEW a \in Directories'
        PROVE  a \in Directories /\ entry'[a] = entry[a]
    BY <1>2, <1>5 DEF Directories, TreeTyped
  <2> QED BY <2>1, <2>2 DEF TreeTyped
<1> QED BY <1>1, <1>4, <1>5, EntryParts

-----------------------------------------------------------------------------
(* What a step leaves to the commands that do not take it.                  *)
Stays(p) ==
  /\ pc'[p] = pc[p] /\ chain'[p] = chain[p] /\ child'[p] = child[p]
  /\ key'[p] = key[p] /\ done'[p] = done[p]

DoneStay == \A p \in Process : pc[p] = "done" => pc'[p] = "done"

TreeGrows == made \subseteq made' /\ \A d \in Dir : holds[d] \subseteq holds'[d]

Watched(p) ==
  /\ p \in Searching /\ DirectoryAt(entry, At(p)) \subseteq was[p]
       => DirectoryAt(entry', At(p)) \subseteq was'[p]
  /\ p \in stood' => p \in stood
                     /\ (p \in Searching /\ IsLink(At(p)) => entry'[At(p)][1] = "link")

NamesStay ==
  /\ faults > 0 => faults' > 0
  /\ swaps' = 0 /\ faults' = 0 =>
       /\ swaps = 0 /\ faults = 0
       /\ \A x \in Place : entry[x] # Absent => entry'[x] = entry[x]

LEMMA PathsStay ==
  ASSUME StateTyped, NEW p \in Process, CommandOK(p),
         UNCHANGED key, Stays(p), NamesStay
  PROVE  PathOK(p)'
<1>1. SUFFICES ASSUME swaps' = 0, faults' = 0
               PROVE  Path(p)'
  BY DEF PathOK
<1>2. Path(p) /\ \A x \in Place : entry[x] # Absent => entry'[x] = entry[x]
  BY <1>1 DEF NamesStay, CommandOK, PathOK
<1>3. /\ Len(key[p]) = 2 /\ key[p][1] \in Name /\ key[p][2] \in Name
      /\ chain[p] \in Seq(Dir) /\ Len(chain[p]) \in 1 .. 3
      /\ p \in Searching => At(p) \in Place
  BY AtFacts DEF CommandOK
<1>4. ASSUME NEW i \in 1 .. Len(chain[p]) - 1
      PROVE  entry'[<<chain[p][i], key[p][i]>>] = Directory(chain[p][i + 1])
  <2>1. i = 1 \/ i = 2
    <3>1. \A n \in 1 .. 3 : \A j \in 1 .. n - 1 : j = 1 \/ j = 2
      OBVIOUS
    <3> QED BY <1>3, <3>1
  <2>2. <<chain[p][i], key[p][i]>> \in Place
    BY <1>3, <2>1 DEF Place
  <2> QED BY <1>2, <2>2, EntryParts DEF Path
<1>5. At(p)' = At(p)
  BY DEF Stays, At
<1>6. ASSUME p \in Searching
      PROVE  /\ pc[p] = "again" => entry'[At(p)] # Absent
             /\ pc[p] = "open" => entry'[At(p)][1] = "dir"
             /\ pc[p] = "check" => entry'[At(p)] = Directory(child[p])
  BY <1>2, <1>3, <1>6, EntryParts DEF Path
<1>7. pc[p] \in {"again", "open", "check"} => p \in Searching
  BY DEF Searching
<1>8. /\ pc'[p] = "again" => entry'[At(p)] # Absent
      /\ pc'[p] = "open" => entry'[At(p)][1] = "dir"
      /\ pc'[p] = "check" => entry'[At(p)] = Directory(child[p])
  BY <1>6, <1>7 DEF Stays
<1>9. /\ pc'[p] \notin {"failed", "replaced"} /\ chain'[p][1] = Base
      /\ pc'[p] = "nostore" => \A r \in done'[p] : key'[r] # key'[p]
  BY <1>2 DEF Path, Stays
<1> QED BY <1>4, <1>5, <1>8, <1>9 DEF Path, Stays

LEMMA OthersKept ==
  ASSUME StateTyped, NEW p \in Process, CommandOK(p),
         UNCHANGED key, Stays(p), DoneStay, TreeGrows, Watched(p), NamesStay
  PROVE  CommandOK(p)'
<1>1. /\ chain[p] \in Seq(Dir) /\ Len(chain[p]) \in 1 .. 3
      /\ chain[p][Len(chain[p])] \in Dir /\ child[p] \in Dir
  BY AtFacts DEF CommandOK, StateTyped
<1>2. At(p)' = At(p) /\ (p \in Searching' <=> p \in Searching)
  BY DEF Stays, At, Searching
<1>3. CommandTyped(p)'
  BY <1>2 DEF CommandOK, CommandTyped, Stays, TreeGrows
<1>4. SearchOK(p)'
  <2>1. (DirectoryAt(entry, At(p)))' = DirectoryAt(entry', At(p))
    BY <1>2 DEF DirectoryAt
  <2> QED BY <1>2, <2>1 DEF CommandOK, SearchOK, Stays, Watched, TreeGrows
<1>5. StopOK(p)'
  <2>1. pc[p] = "lstat" => p \in Searching
    BY DEF Searching
  <2>2. IsLink(At(p))' <=> entry'[At(p)][1] = "link"
    BY <1>2 DEF IsLink
  <2> QED BY <2>1, <2>2 DEF CommandOK, StopOK, Stays, Watched, NamesStay
<1>6. PartsOK(p)'
  <2>1. holds[chain[p][Len(chain[p])]] \subseteq holds'[chain[p][Len(chain[p])]]
    BY <1>1 DEF TreeGrows
  <2>2. \A r \in done'[p] : pc'[r] = "done"
    BY DEF CommandOK, PartsOK, Stays, DoneStay, StateTyped
  <2>3. p \in Searching' \/ pc'[p] \in Parts \cup {"done"} => Base \in made'
    BY <1>2 DEF CommandOK, PartsOK, Stays, TreeGrows
  <2> QED BY <2>1, <2>2, <2>3 DEF CommandOK, PartsOK, Stays
<1>7. PathOK(p)'
  BY PathsStay
<1> QED BY <1>3, <1>4, <1>5, <1>6, <1>7 DEF CommandOK

-----------------------------------------------------------------------------
(* How the open of a command ends, and how it goes on where it is.          *)
LEMMA Refused ==
  ASSUME StateTyped, NEW p \in Process, CommandOK(p), p \in Active, DoneStay,
         NEW outcome \in Ended \ {"done"}, Refuse(p, outcome),
         UNCHANGED <<key, done>>,
         p \in stood => outcome = "symlinked" \/ (outcome = "failed" /\ faults' > 0),
         swaps' = 0 /\ faults' = 0 =>
           /\ outcome \notin {"failed", "replaced"}
           /\ outcome = "nostore" => \A r \in done[p] : key[r] # key[p]
  PROVE  CommandOK(p)'
<1>1. /\ pc'[p] = outcome /\ outcome \in {"nostore", "symlinked", "replaced", "failed"}
      /\ chain'[p] = <<Base>> /\ child'[p] = Base /\ stood' = stood
  BY DEF Refuse, Goto, Ended, StateTyped
<1>2. p \notin Searching' /\ pc'[p] \notin Parts \cup {"done", "check"}
  BY <1>1, PartFacts DEF Searching
<1>3. Len(chain'[p]) = 1 /\ chain'[p][1] = Base
  BY <1>1
<1>4. Len(key'[p]) = 2
  BY KeyFacts DEF StateTyped
<1>5. CommandTyped(p)' /\ SearchOK(p)'
  BY <1>1, <1>2, <1>3, <1>4 DEF CommandTyped, SearchOK
<1>6. StopOK(p)'
  BY <1>1 DEF StopOK
<1>7. PartsOK(p)'
  <2>1. \A r \in done'[p] : pc'[r] = "done"
    BY DEF CommandOK, PartsOK, DoneStay, StateTyped
  <2> QED BY <1>1, <1>2, <2>1, PartFacts DEF PartsOK
<1>8. PathOK(p)'
  <2>1. \A i \in 1 .. Len(chain'[p]) - 1 : FALSE
    BY <1>3
  <2> QED BY <1>1, <1>3, <2>1 DEF PathOK, Path
<1> QED BY <1>5, <1>6, <1>7, <1>8 DEF CommandOK

LEMMA Proceeded ==
  ASSUME TreeTyped, StateTyped, NEW p \in Process, CommandOK(p), p \in Searching, DoneStay,
         NEW step \in {"mkdir", "open"}, Proceed(p, step),
         UNCHANGED <<tree, key, done, swaps, faults>>, ~ IsLink(At(p)), p \notin stood,
         step = "open" => entry[At(p)] # Absent
  PROVE  CommandOK(p)'
<1>1. /\ pc'[p] = step /\ UNCHANGED <<chain, child, was, stood>>
      /\ UNCHANGED <<entry, made, holds>>
  BY DEF Proceed, Goto, StateTyped, tree
<1>2. p \in Searching' /\ At(p)' = At(p)
  BY <1>1 DEF Searching, At
<1>3. pc'[p] \notin Ended \cup Parts \cup {"idle", "mkbase", "base", "check", "again"}
  BY <1>1, PartFacts DEF Ended
<1>4. CommandTyped(p)'
  BY <1>1, <1>2, <1>3 DEF CommandOK, CommandTyped
<1>5. SearchOK(p)' /\ StopOK(p)'
  BY <1>1, <1>2, <1>3 DEF CommandOK, SearchOK, StopOK, DirectoryAt
<1>6. PartsOK(p)'
  <2>1. \A r \in done'[p] : pc'[r] = "done"
    BY DEF CommandOK, PartsOK, DoneStay, StateTyped
  <2> QED BY <1>1, <1>2, <1>3, <2>1, PartFacts DEF CommandOK, PartsOK, Ended
<1>7. PathOK(p)'
  <2>1. SUFFICES ASSUME swaps = 0, faults = 0 PROVE Path(p)'
    BY DEF PathOK
  <2>2. Path(p)
    BY <2>1 DEF CommandOK, PathOK
  <2>3. pc'[p] = "open" => entry'[At(p)'][1] = "dir"
    <3>1. entry[At(p)] \in Entry
      BY AtFacts DEF CommandOK, TreeTyped
    <3>2. step = "open" => entry[At(p)][1] = "dir"
      BY <3>1, EntryCases DEF IsLink
    <3> QED BY <1>1, <1>2, <3>2
  <2>4. \A i \in 1 .. Len(chain'[p]) - 1 :
          entry'[<<chain'[p][i], key'[p][i]>>] = Directory(chain'[p][i + 1])
    BY <1>1, <2>2 DEF Path
  <2>5. /\ pc'[p] \notin {"failed", "replaced", "again", "check", "nostore"}
        /\ chain'[p][1] = Base
    BY <1>1, <2>2 DEF Path
  <2> QED BY <2>3, <2>4, <2>5 DEF Path
<1> QED BY <1>4, <1>5, <1>6, <1>7 DEF CommandOK

-----------------------------------------------------------------------------
(* The steps of a command keep what is said of it.                          *)
LEMMA BeginKept ==
  ASSUME TreeTyped, StateTyped, NEW p \in Process, DoneStay,
         \A q \in Process : CommandOK(q),
         CallOpen(p) \/ MakeBase(p) \/ OpenBase(p)
  PROVE  CommandOK(p)'
<1>0. CommandOK(p) /\ Len(key[p]) = 2 /\ chain[p] = <<Base>>
  BY KeyFacts DEF CommandOK, SearchOK, StateTyped, CallOpen, MakeBase, OpenBase
<1>1. p \notin stood
  BY <1>0 DEF CommandOK, StopOK, CallOpen, MakeBase, OpenBase
<1>2. CASE CallOpen(p) \/ MakeBase(p)
  <2>1. /\ pc'[p] \in {"mkbase", "base"} /\ UNCHANGED <<entry, holds, key, chain, child, stood>>
        /\ swaps' = swaps /\ faults' = faults
        /\ done'[p] = done[p] \/ done'[p] = {q \in Process : pc[q] = "done"}
    BY <1>2 DEF CallOpen, MakeBase, Goto, StateTyped, tree, history
  <2>2. p \notin Searching' /\ pc'[p] \notin Ended \cup Parts \cup {"again", "open", "check"}
    BY <2>1, PartFacts DEF Searching, Ended
  <2>3. \A r \in done'[p] : pc'[r] = "done"
    BY <1>0, <2>1 DEF CommandOK, PartsOK, DoneStay, StateTyped
  <2>4. Len(chain'[p]) = 1 /\ chain'[p] = <<Base>> /\ chain'[p][1] = Base /\ Len(key'[p]) = 2
    BY <1>0, <2>1
  <2>5. \A i \in 1 .. Len(chain'[p]) - 1 : FALSE
    BY <2>4
  <2>6. CommandTyped(p)' /\ SearchOK(p)'
    BY <2>1, <2>2, <2>4 DEF CommandTyped, SearchOK
  <2>7. StopOK(p)' /\ PartsOK(p)'
    BY <1>1, <2>1, <2>2, <2>3 DEF StopOK, PartsOK, Ended
  <2>8. PathOK(p)'
    BY <2>1, <2>2, <2>4, <2>5 DEF PathOK, Path, Ended
  <2> QED BY <2>6, <2>7, <2>8 DEF CommandOK
<1>3. CASE OpenBase(p) /\ Base \in made
  <2>1. /\ pc'[p] = "lstat" /\ UNCHANGED <<entry, made, holds, key, chain, child, done, swaps, faults>>
        /\ was'[p] = DirectoryAt(entry, At(p))
        /\ p \in stood' => IsLink(At(p))
    BY <1>3 DEF OpenBase, Goto, Arrive, StateTyped, tree
  <2>2. p \in Searching' /\ At(p)' = At(p) /\ At(p)[1] = Base
        /\ pc'[p] \notin Ended \cup Parts \cup {"again", "open", "check"}
    BY <1>0, <2>1, PartFacts DEF Searching, At, Ended
  <2>3. \A r \in done'[p] : pc'[r] = "done"
    BY <1>0, <2>1 DEF CommandOK, PartsOK, DoneStay, StateTyped
  <2>4. Len(chain'[p]) = 1 /\ chain'[p][1] = Base /\ Len(key'[p]) = 2
    BY <1>0, <2>1
  <2>5. \A i \in 1 .. Len(chain'[p]) - 1 : FALSE
    BY <2>4
  <2>6. CommandTyped(p)' /\ SearchOK(p)'
    BY <1>3, <2>1, <2>2, <2>4 DEF CommandTyped, SearchOK, DirectoryAt
  <2>7. StopOK(p)' /\ PartsOK(p)'
    BY <1>3, <2>1, <2>2, <2>3 DEF StopOK, PartsOK, IsLink, Ended
  <2>8. PathOK(p)'
    BY <2>1, <2>2, <2>4, <2>5 DEF PathOK, Path, Ended
  <2> QED BY <2>6, <2>7, <2>8 DEF CommandOK
<1>4. CASE OpenBase(p) /\ Base \notin made
  <2>1. \A r \in done[p] : FALSE
    BY <1>0, <1>4 DEF CommandOK, PartsOK, StateTyped
  <2>2. p \in Active /\ Refuse(p, "nostore") /\ UNCHANGED <<key, done>>
    BY <1>4, PartFacts DEF OpenBase, Active, Ended
  <2>3. "nostore" \in Ended \ {"done"}
    BY DEF Ended
  <2> QED BY <1>0, <1>1, <2>1, <2>2, <2>3, Refused
<1> QED BY <1>2, <1>3, <1>4

(* Commands for one store have gone the same way.                           *)
LEMMA SamePath ==
  ASSUME StateTyped, NEW p \in Process, NEW q \in Process,
         CommandOK(p), CommandOK(q), Path(p), Path(q), key[p] = key[q]
  PROVE  Len(chain[p]) <= Len(chain[q]) =>
           \A i \in 1 .. Len(chain[p]) : chain[p][i] = chain[q][i]
<1> SUFFICES ASSUME Len(chain[p]) <= Len(chain[q])
             PROVE  \A i \in 1 .. Len(chain[p]) : chain[p][i] = chain[q][i]
  OBVIOUS
<1>1. Len(chain[p]) \in 1 .. 3 /\ Len(chain[q]) \in 1 .. 3
  BY AtFacts DEF CommandOK
<1>2. chain[p][1] = chain[q][1]
  BY DEF Path
<1>3. Len(chain[p]) >= 2 => chain[p][2] = chain[q][2]
  <2>1. SUFFICES ASSUME Len(chain[p]) >= 2
                 PROVE  chain[p][2] = chain[q][2]
    OBVIOUS
  <2>2. 1 \in 1 .. Len(chain[p]) - 1 /\ 1 \in 1 .. Len(chain[q]) - 1
    BY <1>1, <2>1
  <2>3. /\ entry[<<chain[p][1], key[p][1]>>] = Directory(chain[p][1 + 1])
        /\ entry[<<chain[q][1], key[q][1]>>] = Directory(chain[q][1 + 1])
    BY <2>2 DEF Path
  <2> QED BY <1>2, <2>3, EntryParts
<1>4. Len(chain[p]) >= 3 => chain[p][3] = chain[q][3]
  <2>1. SUFFICES ASSUME Len(chain[p]) >= 3
                 PROVE  chain[p][3] = chain[q][3]
    OBVIOUS
  <2>2. 2 \in 1 .. Len(chain[p]) - 1 /\ 2 \in 1 .. Len(chain[q]) - 1
    BY <1>1, <2>1
  <2>3. /\ entry[<<chain[p][2], key[p][2]>>] = Directory(chain[p][2 + 1])
        /\ entry[<<chain[q][2], key[q][2]>>] = Directory(chain[q][2 + 1])
    BY <2>2 DEF Path
  <2>4. chain[p][2] = chain[q][2]
    BY <1>1, <1>3, <2>1
  <2> QED BY <2>3, <2>4, EntryParts
<1> QED BY <1>1, <1>2, <1>3, <1>4

LEMMA LookKept ==
  ASSUME TreeTyped, StateTyped, NEW p \in Process, DoneStay,
         \A q \in Process : CommandOK(q),
         LstatEntry(p) \/ LstatMade(p)
  PROVE  CommandOK(p)'
<1>0. CommandOK(p) /\ p \in Searching /\ p \in Active
      /\ UNCHANGED <<tree, key, done, swaps, faults>>
  BY PartFacts DEF LstatEntry, LstatMade, Searching, Active, Ended
<1>1. CASE IsLink(At(p))
  <2>1. entry[At(p)] # Absent
    BY <1>1, EntryParts DEF IsLink
  <2>2. Refuse(p, "symlinked") /\ "symlinked" \in Ended \ {"done"}
    BY <1>1, <2>1 DEF LstatEntry, LstatMade, Ended
  <2> QED BY <1>0, <2>2, Refused
<1>2. CASE ~ IsLink(At(p)) /\ entry[At(p)] # Absent
  <2>1. p \notin stood
    BY <1>0, <1>2 DEF CommandOK, StopOK, Searching
  <2>2. Proceed(p, "open")
    BY <1>2 DEF LstatEntry, LstatMade
  <2> QED BY <1>0, <1>2, <2>1, <2>2, Proceeded
<1>3. CASE entry[At(p)] = Absent
  <2>1. ~ IsLink(At(p))
    BY <1>3, EntryParts DEF IsLink
  <2>2. p \notin stood
    BY <1>0, <2>1 DEF CommandOK, StopOK, Searching
  <2>3. CASE LstatMade(p)
    <3>1. Refuse(p, "failed") /\ "failed" \in Ended \ {"done"}
      BY <1>3, <2>3 DEF LstatMade, Ended
    <3>2. ~ (swaps = 0 /\ faults = 0)
      BY <1>0, <1>3, <2>3 DEF CommandOK, PathOK, Path, LstatMade
    <3> QED BY <1>0, <2>2, <3>1, <3>2, Refused
  <2>4. CASE LstatEntry(p) /\ p \in create
    <3>1. Proceed(p, "mkdir")
      BY <1>3, <2>1, <2>4 DEF LstatEntry
    <3> QED BY <1>0, <2>1, <2>2, <3>1, Proceeded
  <2>5. CASE LstatEntry(p) /\ p \notin create
    <3>1. Refuse(p, "nostore") /\ "nostore" \in Ended \ {"done"}
      BY <1>3, <2>1, <2>5 DEF LstatEntry, Ended
    <3>2. ASSUME swaps = 0, faults = 0, NEW r \in done[p], key[r] = key[p]
          PROVE  FALSE
      <4>1. r \in Process /\ CommandOK(r) /\ Path(r) /\ Path(p) /\ pc[r] = "done"
        BY <1>0, <3>2 DEF StateTyped, CommandOK, PathOK, PartsOK
      <4>2. Len(chain[r]) = 3 /\ Len(chain[p]) \in 1 .. 2
        BY <1>0, <4>1, AtFacts DEF CommandOK, PartsOK
      <4>3. chain[p][Len(chain[p])] = chain[r][Len(chain[p])]
        <5>0. \A n \in 1 .. 2 : n <= 3 /\ n \in 1 .. n
          OBVIOUS
        <5>1. Len(chain[p]) <= Len(chain[r]) /\ Len(chain[p]) \in 1 .. Len(chain[p])
          BY <4>2, <5>0
        <5>2. \A i \in 1 .. Len(chain[p]) : chain[p][i] = chain[r][i]
          BY <1>0, <3>2, <4>1, <5>1, SamePath
        <5> QED BY <5>1, <5>2
      <4>4. Len(chain[p]) \in 1 .. Len(chain[r]) - 1
        BY <4>2
      <4>5. entry[<<chain[r][Len(chain[p])], key[r][Len(chain[p])]>>] # Absent
        BY <4>1, <4>4, EntryParts DEF Path
      <4>6. At(p) = <<chain[r][Len(chain[p])], key[r][Len(chain[p])]>>
        BY <3>2, <4>3 DEF At
      <4> QED BY <1>3, <4>5, <4>6
    <3> QED BY <1>0, <2>2, <3>1, <3>2, Refused
  <2> QED BY <2>3, <2>4, <2>5
<1> QED BY <1>1, <1>2, <1>3

LEMMA MakeEntryKept ==
  ASSUME TreeTyped, StateTyped, NEW p \in Process, DoneStay, CommandOK(p), MakeEntry(p)
  PROVE  /\ CommandOK(p)' /\ TreeTyped' /\ made \subseteq made'
         /\ \A x \in Place : entry[x] # Absent => entry'[x] = entry[x]
<1>1. /\ pc[p] = "mkdir" /\ pc'[p] = "again" /\ Observed
      /\ UNCHANGED <<holds, key, chain, child, done, swaps, faults>>
  BY DEF MakeEntry, Goto, StateTyped
<1>2. p \in Searching /\ p \in Searching' /\ At(p)' = At(p)
      /\ pc'[p] \notin Ended \cup Parts
  BY <1>1, PartFacts DEF Searching, At, Ended
<1>3. At(p) \in Place /\ Base \in made
  BY <1>2, AtFacts DEF CommandOK, PartsOK
<1>4. /\ TreeTyped' /\ made \subseteq made' /\ entry'[At(p)] # Absent
      /\ \A x \in Place : entry[x] # Absent => entry'[x] = entry[x]
  <2>1. CASE entry[At(p)] = Absent
    BY <1>1, <1>3, <2>1, DirectoryMade DEF MakeEntry
  <2>2. CASE entry[At(p)] # Absent
    BY <1>1, <2>2 DEF MakeEntry, TreeTyped, Directories
  <2> QED BY <2>1, <2>2
<1>5. CommandTyped(p)'
  BY <1>1, <1>2, <1>4 DEF CommandOK, CommandTyped
<1>6. SearchOK(p)'
  <2>1. was'[p] = was[p] \cup DirectoryAt(entry', At(p))
    BY <1>1, <1>2 DEF Observed
  <2>2. (DirectoryAt(entry, At(p)))' = DirectoryAt(entry', At(p))
    BY <1>2 DEF DirectoryAt
  <2> QED BY <1>1, <1>2, <2>1, <2>2 DEF CommandOK, SearchOK
<1>7. StopOK(p)'
  BY <1>1, <1>2 DEF CommandOK, StopOK, Observed
<1>8. PartsOK(p)'
  <2>1. \A r \in done'[p] : pc'[r] = "done"
    BY <1>1 DEF CommandOK, PartsOK, DoneStay, StateTyped
  <2> QED BY <1>1, <1>2, <1>3, <1>4, <2>1 DEF PartsOK, Ended
<1>9. PathOK(p)'
  <2>1. SUFFICES ASSUME swaps = 0, faults = 0 PROVE Path(p)'
    BY <1>1 DEF PathOK
  <2>2. Path(p)
    BY <2>1 DEF CommandOK, PathOK
  <2>3. Len(key[p]) = 2 /\ key[p][1] \in Name /\ chain[p] \in Seq(Dir)
        /\ Len(chain[p]) \in 1 .. 2
    BY <1>2, AtFacts DEF CommandOK
  <2>4. ASSUME NEW i \in 1 .. Len(chain[p]) - 1
        PROVE  entry'[<<chain[p][i], key[p][i]>>] = Directory(chain[p][i + 1])
    <3>1. \A n \in 1 .. 2 : \A j \in 1 .. n - 1 : j = 1
      OBVIOUS
    <3>2. i = 1
      BY <2>3, <3>1
    <3>3. <<chain[p][i], key[p][i]>> \in Place
      BY <2>3, <3>2 DEF Place
    <3> QED BY <1>4, <2>2, <3>3, EntryParts DEF Path
  <2>5. entry'[At(p)'] # Absent
    BY <1>2, <1>4
  <2> QED BY <1>1, <2>2, <2>4, <2>5 DEF Path
<1> QED BY <1>4, <1>5, <1>6, <1>7, <1>8, <1>9 DEF CommandOK

LEMMA OpenEntryKept ==
  ASSUME TreeTyped, StateTyped, NEW p \in Process, DoneStay, CommandOK(p), OpenEntry(p)
  PROVE  CommandOK(p)'
<1> DEFINE found == Leads(At(p)[1], At(p)[2])
<1>0. /\ pc[p] = "open" /\ p \in Searching /\ p \in Active /\ p \notin stood
      /\ UNCHANGED <<tree, key, done, swaps, faults>>
  BY PartFacts DEF OpenEntry, Searching, Active, Ended, CommandOK, StopOK
<1>1. At(p)[1] \in Dir /\ At(p)[2] \in Name /\ At(p) \in Place /\ At(p) = <<At(p)[1], At(p)[2]>>
  BY <1>0, AtFacts DEF CommandOK
<1>2. ASSUME swaps = 0, faults = 0
      PROVE  Path(p) /\ found = entry[At(p)] /\ found # Absent
  <2>1. Path(p) /\ entry[At(p)][1] = "dir"
    BY <1>0, <1>2 DEF CommandOK, PathOK, Path
  <2>2. ~ IsLink(At(p)) /\ entry[At(p)] # Absent
    BY <2>1, EntryParts DEF IsLink
  <2> QED BY <1>1, <2>1, <2>2, LeadsNoLink
<1>3. CASE found = Absent
  <2>1. Refuse(p, "failed") /\ "failed" \in Ended \ {"done"}
    BY <1>3 DEF OpenEntry, Ended
  <2> QED BY <1>0, <1>2, <1>3, <2>1, Refused
<1>4. CASE found # Absent
  <2>1. found = Directory(found[2]) /\ found[2] \in made /\ found[2] \in Dir
    BY <1>1, <1>4, LeadsTyped
  <2>2. /\ pc'[p] = "check" /\ child'[p] = found[2] /\ UNCHANGED <<chain, was, stood>>
        /\ UNCHANGED <<entry, made, holds, key, done, swaps, faults>>
    BY <1>4 DEF OpenEntry, Goto, StateTyped, tree
  <2> HIDE DEF found
  <2>3. p \in Searching' /\ At(p)' = At(p) /\ pc'[p] \notin Ended \cup Parts
    BY <2>2, PartFacts DEF Searching, At, Ended
  <2>4. CommandTyped(p)'
    BY <1>0, <2>2, <2>3 DEF CommandOK, CommandTyped
  <2>5. SearchOK(p)' /\ StopOK(p)'
    BY <1>0, <2>1, <2>2, <2>3 DEF CommandOK, SearchOK, StopOK, DirectoryAt
  <2>6. PartsOK(p)'
    <3>1. \A r \in done'[p] : pc'[r] = "done"
      BY <2>2 DEF CommandOK, PartsOK, DoneStay, StateTyped
    <3> QED BY <1>0, <2>2, <2>3, <3>1 DEF CommandOK, PartsOK, Ended
  <2>7. PathOK(p)'
    <3>1. SUFFICES ASSUME swaps = 0, faults = 0 PROVE Path(p)'
      BY <2>2 DEF PathOK
    <3>2. Path(p) /\ entry[At(p)] = Directory(found[2])
      BY <1>2, <2>1, <3>1
    <3>3. \A i \in 1 .. Len(chain'[p]) - 1 :
            entry'[<<chain'[p][i], key'[p][i]>>] = Directory(chain'[p][i + 1])
      BY <2>2, <3>2 DEF Path
    <3>4. chain'[p][1] = Base /\ entry'[At(p)'] = Directory(child'[p])
      BY <2>2, <2>3, <3>2 DEF Path
    <3>5. pc'[p] \notin {"failed", "replaced", "again", "open", "nostore"}
      BY <2>2
    <3> QED BY <3>3, <3>4, <3>5 DEF Path
  <2> QED BY <2>4, <2>5, <2>6, <2>7 DEF CommandOK
<1> QED BY <1>3, <1>4

(* What a command that enters the next directory has before it.             *)
LEMMA EnterKept ==
  ASSUME TreeTyped, StateTyped, NEW p \in Process, DoneStay, CommandOK(p),
         pc[p] = "check", entry[At(p)] = Directory(child[p]), Enter(p),
         UNCHANGED <<tree, create, key, done, swaps, faults>>
  PROVE  CommandOK(p)'
<1>0. p \in Searching /\ p \notin stood
  BY DEF Searching, CommandOK, StopOK
<1>1. /\ Len(key[p]) = 2 /\ key[p][1] \in Name /\ key[p][2] \in Name
      /\ chain[p] \in Seq(Dir) /\ Len(chain[p]) \in 1 .. 2
      /\ child[p] \in made /\ child[p] \in Dir /\ Base \in made
  BY <1>0, AtFacts DEF CommandOK, SearchOK, PartsOK, StateTyped
<1>2. /\ chain'[p] = Append(chain[p], child[p])
      /\ UNCHANGED <<entry, made, holds, key, done, swaps, faults>>
  BY DEF Enter, StateTyped, tree
<1>3. /\ chain'[p] \in Seq(Dir) /\ Len(chain'[p]) = Len(chain[p]) + 1
      /\ \A i \in 1 .. Len(chain[p]) : chain'[p][i] = chain[p][i]
      /\ chain'[p][Len(chain'[p])] = child[p]
  BY <1>1, <1>2
<1>4. \A r \in done'[p] : pc'[r] = "done"
  BY <1>2 DEF CommandOK, PartsOK, DoneStay, StateTyped
<1>5. ASSUME swaps = 0, faults = 0
      PROVE  /\ chain'[p][1] = Base
             /\ \A i \in 1 .. Len(chain'[p]) - 1 :
                  entry'[<<chain'[p][i], key'[p][i]>>] = Directory(chain'[p][i + 1])
  <2>1. Path(p)
    BY <1>5 DEF CommandOK, PathOK
  <2>2. chain'[p][1] = Base
    BY <1>1, <1>3, <2>1 DEF Path
  <2>3. ASSUME NEW i \in 1 .. Len(chain'[p]) - 1
        PROVE  entry[<<chain'[p][i], key[p][i]>>] = Directory(chain'[p][i + 1])
    <3>1. CASE i = Len(chain[p])
      <4>1. chain'[p][i] = chain[p][i] /\ chain'[p][i + 1] = child[p]
        BY <1>1, <1>3, <3>1
      <4> QED BY <3>1, <4>1 DEF At
    <3>2. CASE i # Len(chain[p])
      <4>1. i \in 1 .. Len(chain[p]) - 1 /\ i \in 1 .. Len(chain[p])
            /\ i + 1 \in 1 .. Len(chain[p])
        BY <1>1, <1>3, <3>2
      <4> QED BY <1>3, <2>1, <4>1 DEF Path
    <3> QED BY <3>1, <3>2
  <2> QED BY <1>2, <2>2, <2>3
<1>6. CASE Len(chain[p]) < Len(key[p])
  <2>1. /\ pc'[p] = "lstat" /\ Len(chain'[p]) = 2
        /\ was'[p] = DirectoryAt(entry, <<child[p], key[p][2]>>)
        /\ p \in stood' => IsLink(<<child[p], key[p][2]>>)
    <3>0. \A n \in 1 .. 2 : n < 2 => n = 1 /\ n + 1 = 2
      OBVIOUS
    <3>1. Len(chain[p]) = 1 /\ Len(chain[p]) + 1 = 2
      BY <1>1, <1>6, <3>0
    <3> QED BY <1>3, <1>6, <3>1 DEF Enter, Goto, Arrive, StateTyped
  <2>2. /\ p \in Searching' /\ At(p)' = <<child[p], key[p][2]>> /\ At(p)'[1] = child[p]
        /\ pc'[p] \notin Ended \cup Parts \cup {"again", "open", "check"}
    BY <1>2, <1>3, <2>1, PartFacts DEF Searching, At, Ended
  <2>3. Len(chain'[p]) \in 1 .. Len(key'[p]) + 1 /\ Len(chain'[p]) <= Len(key'[p])
    BY <1>1, <1>2, <2>1
  <2>4. CommandTyped(p)'
    BY <1>1, <1>2, <2>1, <2>2, <2>3 DEF CommandTyped
  <2>5. SearchOK(p)' /\ StopOK(p)'
    BY <1>2, <2>1, <2>2, <2>3 DEF SearchOK, StopOK, DirectoryAt, IsLink
  <2>6. PartsOK(p)'
    BY <1>1, <1>2, <1>4, <2>1, <2>2 DEF PartsOK, Ended
  <2>7. PathOK(p)'
    BY <1>2, <1>5, <2>1, <2>2 DEF PathOK, Path, Ended
  <2> QED BY <2>4, <2>5, <2>6, <2>7 DEF CommandOK
<1>7. CASE ~ Len(chain[p]) < Len(key[p])
  <2>1. /\ pc'[p] = "items" /\ Len(chain'[p]) = 3 /\ p \notin stood'
    <3>0. \A n \in 1 .. 2 : ~ n < 2 => n = 2
      OBVIOUS
    <3>1. Len(chain[p]) = 2
      BY <1>1, <1>7, <3>0
    <3> QED BY <1>0, <1>3, <1>7, <3>1, PartFacts DEF Enter, Goto, StateTyped
  <2>2. /\ p \notin Searching' /\ pc'[p] \in Parts
        /\ pc'[p] \notin Ended \cup {"tmp", "order", "again", "open", "check", "idle", "mkbase", "base"}
    BY <2>1, PartFacts DEF Searching, Ended
  <2>3. Len(chain'[p]) \in 1 .. Len(key'[p]) + 1 /\ Len(chain'[p]) = Len(key'[p]) + 1
    BY <1>1, <1>2, <2>1
  <2>4. CommandTyped(p)'
    BY <2>2, <2>3 DEF CommandTyped
  <2>5. SearchOK(p)' /\ StopOK(p)'
    BY <2>1, <2>2 DEF SearchOK, StopOK
  <2>6. PartsOK(p)'
    BY <1>1, <1>2, <1>4, <2>1, <2>2, <2>3 DEF PartsOK, Ended
  <2>7. PathOK(p)'
    BY <1>2, <1>5, <2>1, <2>2 DEF PathOK, Path, Ended
  <2> QED BY <2>4, <2>5, <2>6, <2>7 DEF CommandOK
<1> QED BY <1>6, <1>7

LEMMA CheckKept ==
  ASSUME TreeTyped, StateTyped, NEW p \in Process, DoneStay, CommandOK(p), CheckRoot(p)
  PROVE  CommandOK(p)'
<1>0. /\ pc[p] = "check" /\ p \in Active /\ p \notin stood
      /\ UNCHANGED <<tree, create, key, done, swaps, faults>>
  BY PartFacts DEF CheckRoot, Active, Ended, CommandOK, StopOK
<1>1. CASE Enter(p) /\ entry[At(p)] = Directory(child[p])
  BY <1>0, <1>1, EnterKept
<1>2. CASE entry[At(p)] # Directory(child[p])
  <2>1. ~ (swaps = 0 /\ faults = 0)
    BY <1>0, <1>2 DEF CommandOK, PathOK, Path
  <2>2. PICK outcome \in {"failed", "symlinked", "replaced"} : Refuse(p, outcome)
    BY <1>2 DEF CheckRoot
  <2>3. outcome \in Ended \ {"done"}
    BY DEF Ended
  <2> QED BY <1>0, <2>1, <2>2, <2>3, Refused
<1>3. entry[At(p)] = Directory(child[p]) => Enter(p)
  BY EntryParts DEF CheckRoot, IsLink
<1> QED BY <1>1, <1>2, <1>3

LEMMA MakePartKept ==
  ASSUME TreeTyped, StateTyped, NEW p \in Process, DoneStay, CommandOK(p), MakePart(p)
  PROVE  CommandOK(p)' /\ TreeTyped' /\ \A d \in Dir : holds[d] \subseteq holds'[d]
<1> DEFINE at == chain[p][Len(chain[p])]
<1>1. at \in Dir
  BY AtFacts DEF CommandOK
<1>2. PICK i \in 1 .. 3 :
        /\ pc[p] = Sub[i] /\ holds' = [holds EXCEPT ![at] = @ \cup {Sub[i]}]
        /\ pc'[p] = IF i = 3 THEN "done" ELSE Sub[i + 1]
  BY PartFacts DEF MakePart, Goto, StateTyped
<1>3. UNCHANGED <<entry, made, key, chain, child, stood, done, swaps, faults>>
  BY DEF MakePart, history
<1>4. (at)' = at
  BY <1>3
<1> HIDE DEF at
<1>5. \/ pc[p] = "items" /\ pc'[p] = "tmp" /\ holds'[at] = holds[at] \cup {"items"}
      \/ pc[p] = "tmp" /\ pc'[p] = "order" /\ holds'[at] = holds[at] \cup {"tmp"}
      \/ pc[p] = "order" /\ pc'[p] = "done" /\ holds'[at] = holds[at] \cup {"order"}
  <2>1. holds'[at] = holds[at] \cup {Sub[i]}
    BY <1>1, <1>2 DEF TreeTyped
  <2>2. CASE i = 1
    BY <1>2, <2>1, <2>2, PartFacts
  <2>3. CASE i = 2
    BY <1>2, <2>1, <2>3, PartFacts
  <2>4. CASE i = 3
    BY <1>2, <2>1, <2>4, PartFacts
  <2> QED BY <2>2, <2>3, <2>4
<1>6. TreeTyped' /\ \A d \in Dir : holds[d] \subseteq holds'[d]
  BY <1>1, <1>2, <1>3, PartFacts DEF TreeTyped, Directories
<1>7. /\ p \notin Searching' /\ pc[p] \in Parts /\ pc'[p] \in Parts \cup {"done"}
      /\ pc'[p] \notin {"idle", "mkbase", "base", "check", "again", "open", "failed", "replaced",
                        "nostore", "symlinked"}
  BY <1>5, PartFacts DEF Searching
<1>8. p \notin stood
  BY <1>5 DEF CommandOK, StopOK
<1>9. CommandTyped(p)' /\ SearchOK(p)' /\ StopOK(p)'
  BY <1>3, <1>7, <1>8 DEF CommandOK, CommandTyped, SearchOK, StopOK, Ended
<1>10. PartsOK(p)'
  <2>1. \A r \in done'[p] : pc'[r] = "done"
    BY <1>3 DEF CommandOK, PartsOK, DoneStay, StateTyped
  <2>2. /\ Len(chain[p]) = Len(key[p]) + 1 /\ Base \in made
        /\ pc[p] \in {"tmp", "order"} => "items" \in holds[at]
        /\ pc[p] = "order" => "tmp" \in holds[at]
    BY <1>7 DEF CommandOK, PartsOK, at
  <2>3. /\ pc'[p] \in {"tmp", "order", "done"} => "items" \in holds'[at]
        /\ pc'[p] \in {"order", "done"} => "tmp" \in holds'[at]
        /\ pc'[p] = "done" => "order" \in holds'[at]
    BY <1>5, <2>2
  <2> QED BY <1>3, <1>4, <2>1, <2>2, <2>3 DEF PartsOK, at
<1>11. PathOK(p)'
  BY <1>3, <1>7 DEF CommandOK, PathOK, Path
<1> QED BY <1>6, <1>9, <1>10, <1>11 DEF CommandOK

LEMMA CallFailsKept ==
  ASSUME StateTyped, NEW p \in Process, DoneStay, CommandOK(p), CallFails(p)
  PROVE  CommandOK(p)'
<1>1. faults' > 0 /\ p \in Active /\ Refuse(p, "failed") /\ "failed" \in Ended \ {"done"}
  BY BoundAssumption DEF CallFails, Fault, StateTyped, Ended
<1>2. UNCHANGED <<key, done>>
  BY DEF CallFails
<1> QED BY <1>1, <1>2, Refused

-----------------------------------------------------------------------------
(* Type correctness of the rest of the state.                               *)
LEMMA MoveTyped ==
  ASSUME StateTyped, NEW p \in Process, NEW step \in Ended \cup {"lstat", "mkdir", "open"},
         UNCHANGED <<create, key, done, swaps>>, faults' \in 0 .. MaxFaults,
         \/ Refuse(p, step)
         \/ Proceed(p, step)
         \/ /\ Goto(p, step) /\ Arrive(p, At(p)) /\ UNCHANGED <<chain, child>>
            /\ At(p) \in Place,
         TreeTyped
  PROVE  StateTyped'
<1>1. pc' \in [Process -> Ended \cup {"idle", "mkbase", "base", "lstat", "mkdir",
               "again", "open", "check"} \cup Parts]
  BY DEF Refuse, Proceed, Goto, StateTyped
<1>2. chain' \in [Process -> Seq(Dir)] /\ child' \in [Process -> Dir]
  <2>1. <<Base>> \in Seq(Dir) /\ Base \in Dir
    BY DirAssumption
  <2> QED BY <2>1 DEF Refuse, Proceed, StateTyped
<1>3. was' \in [Process -> SUBSET Dir] /\ stood' \in SUBSET Process
  <2>1. CASE Arrive(p, At(p)) /\ At(p) \in Place
    <3>1. DirectoryAt(entry, At(p)) \in SUBSET Dir
      <4>1. entry[At(p)] \in Entry
        BY <2>1 DEF TreeTyped
      <4> QED BY <4>1, EntryCases DEF DirectoryAt
    <3> QED BY <2>1, <3>1 DEF Arrive, StateTyped
  <2>2. CASE Refuse(p, step) \/ Proceed(p, step)
    BY <2>2 DEF Refuse, Proceed, StateTyped
  <2> QED BY <2>1, <2>2
<1> QED BY <1>1, <1>2, <1>3 DEF StateTyped

LEMMA ObservedTyped ==
  ASSUME StateTyped, TreeTyped', Observed, \A q \in Searching : At(q) \in Place
  PROVE  was' \in [Process -> SUBSET Dir] /\ stood' \in SUBSET Process /\ stood' \subseteq stood
<1>1. ASSUME NEW q \in Searching
      PROVE  DirectoryAt(entry', At(q)) \in SUBSET Dir
  <2>1. entry'[At(q)] \in Entry
    BY DEF TreeTyped
  <2> QED BY <2>1, EntryCases DEF DirectoryAt
<1> QED BY <1>1 DEF Observed, StateTyped

LEMMA LookTyped ==
  ASSUME TreeTyped, StateTyped, NEW p \in Process, CommandOK(p),
         \/ CallOpen(p) \/ MakeBase(p) \/ OpenBase(p) \/ LstatEntry(p) \/ LstatMade(p)
         \/ CallFails(p)
  PROVE  StateTyped'
<1>1. CASE CallOpen(p) \/ MakeBase(p)
  <2>1. /\ pc' = [pc EXCEPT ![p] = "mkbase"] \/ pc' = [pc EXCEPT ![p] = "base"]
        /\ create' \in SUBSET Process
        /\ UNCHANGED <<key, chain, child, was, stood, swaps, faults>>
    BY <1>1 DEF CallOpen, MakeBase, Goto, StateTyped, history
  <2>2. done' \in [Process -> SUBSET Process]
    <3>1. {q \in Process : pc[q] = "done"} \in SUBSET Process
      OBVIOUS
    <3> QED BY <1>1, <3>1 DEF CallOpen, MakeBase, StateTyped, history
  <2> QED BY <2>1, <2>2 DEF StateTyped
<1>2. CASE OpenBase(p) /\ Base \in made
  <2>1. At(p) \in Place
    <3>1. chain[p] = <<Base>> /\ key[p][1] \in Name /\ Base \in Dir
      BY <1>2, KeyFacts, DirAssumption DEF OpenBase, CommandOK, SearchOK, StateTyped
    <3> QED BY <3>1 DEF At, Place
  <2> QED BY <1>2, <2>1, MoveTyped DEF OpenBase, StateTyped
<1>3. ASSUME NEW step \in Ended \cup {"mkdir", "open"}, Refuse(p, step) \/ Proceed(p, step),
             UNCHANGED <<create, key, done, swaps>>, faults' \in 0 .. MaxFaults
      PROVE  StateTyped'
  BY <1>3, MoveTyped
<1>4. CASE OpenBase(p) /\ Base \notin made
  BY <1>3, <1>4 DEF OpenBase, StateTyped, Ended
<1>5. CASE LstatEntry(p)
  BY <1>3, <1>5 DEF LstatEntry, StateTyped, Ended
<1>6. CASE LstatMade(p)
  BY <1>3, <1>6 DEF LstatMade, StateTyped, Ended
<1>7. CASE CallFails(p)
  <2>1. faults' \in 0 .. MaxFaults
    BY <1>7, BoundAssumption DEF CallFails, Fault, StateTyped
  <2> QED BY <1>3, <1>7, <2>1 DEF CallFails, Ended
<1> QED BY <1>1, <1>2, <1>4, <1>5, <1>6, <1>7

LEMMA EntryTyped ==
  ASSUME TreeTyped, StateTyped, NEW p \in Process, CommandOK(p), OpenEntry(p) \/ CheckRoot(p)
  PROVE  StateTyped'
<1>1. p \in Searching /\ UNCHANGED <<create, key, done, swaps, faults>>
      /\ faults' \in 0 .. MaxFaults
  BY DEF OpenEntry, CheckRoot, Searching, StateTyped
<1>2. At(p)[1] \in Dir /\ At(p)[2] \in Name
  BY <1>1, AtFacts DEF CommandOK
<1>3. CASE \E step \in Ended : Refuse(p, step)
  BY <1>1, <1>3, MoveTyped
<1>4. CASE OpenEntry(p) /\ Leads(At(p)[1], At(p)[2]) # Absent
  <2>1. child' \in [Process -> Dir]
    BY <1>2, <1>4, LeadsTyped DEF OpenEntry, StateTyped
  <2>2. pc' = [pc EXCEPT ![p] = "check"] /\ UNCHANGED <<chain, was, stood>>
    BY <1>4 DEF OpenEntry, Goto
  <2> QED BY <1>1, <2>1, <2>2 DEF StateTyped
<1>5. CASE CheckRoot(p) /\ Enter(p)
  <2>1. /\ chain[p] \in Seq(Dir) /\ child[p] \in Dir /\ Base \in Dir /\ Len(chain[p]) \in 1 .. 2
        /\ Len(key[p]) = 2 /\ key[p][2] \in Name
    BY <1>1, AtFacts, DirAssumption DEF StateTyped, CommandOK
  <2>2. chain' \in [Process -> Seq(Dir)] /\ child' \in [Process -> Dir]
    BY <1>5, <2>1 DEF Enter, StateTyped
  <2>3. \/ Goto(p, "lstat") /\ Arrive(p, <<child[p], key[p][2]>>)
        \/ Goto(p, "items") /\ was' = [was EXCEPT ![p] = {}] /\ UNCHANGED stood
    <3>1. \A n \in 1 .. 2 : n < 2 => n + 1 = 2
      OBVIOUS
    <3>2. Len(chain[p]) < Len(key[p]) => Len(chain[p]) + 1 = 2
      BY <2>1, <3>1
    <3> QED BY <1>5, <3>2, PartFacts DEF Enter
  <2>4. was' \in [Process -> SUBSET Dir] /\ stood' \in SUBSET Process
    <3>1. <<child[p], key[p][2]>> \in Place
      BY <2>1 DEF Place
    <3>2. entry[<<child[p], key[p][2]>>] \in Entry
      BY <3>1 DEF TreeTyped
    <3>3. DirectoryAt(entry, <<child[p], key[p][2]>>) \in SUBSET Dir
      BY <3>2, EntryCases DEF DirectoryAt
    <3> QED BY <2>3, <3>3 DEF Arrive, StateTyped
  <2>5. pc' \in [Process -> Ended \cup {"idle", "mkbase", "base", "lstat", "mkdir",
               "again", "open", "check"} \cup Parts]
    BY <2>3, PartFacts DEF Goto, StateTyped
  <2> QED BY <1>1, <2>2, <2>4, <2>5 DEF StateTyped
<1> QED BY <1>3, <1>4, <1>5 DEF OpenEntry, CheckRoot, Ended

LEMMA MakeTyped ==
  ASSUME TreeTyped, StateTyped, NEW p \in Process, \A q \in Process : CommandOK(q),
         TreeTyped', MakeEntry(p) \/ MakePart(p)
  PROVE  StateTyped'
<1>1. CASE MakeEntry(p)
  <2>1. \A q \in Searching : At(q) \in Place
    BY AtFacts DEF CommandOK, Searching
  <2>2. was' \in [Process -> SUBSET Dir] /\ stood' \in SUBSET Process
    BY <1>1, <2>1, ObservedTyped DEF MakeEntry
  <2> QED BY <1>1, <2>2 DEF MakeEntry, Goto, StateTyped
<1>2. CASE MakePart(p)
  <2>1. PICK step \in Parts \cup {"done"} : Goto(p, step)
    <3>1. PICK i \in 1 .. 3 : Goto(p, IF i = 3 THEN "done" ELSE Sub[i + 1])
      BY <1>2, PartFacts DEF MakePart
    <3>2. i = 3 \/ i + 1 \in 1 .. 3
      OBVIOUS
    <3> QED BY <3>1, <3>2, PartFacts DEF Parts
  <2>2. UNCHANGED <<create, key, chain, child, history>>
    BY <1>2 DEF MakePart
  <2> QED BY <2>1, <2>2 DEF Goto, StateTyped, Ended, history
<1> QED BY <1>1, <1>2

-----------------------------------------------------------------------------
(* What the step of one command leaves to the others.                       *)
LEMMA LooksLeave ==
  ASSUME StateTyped, NEW p \in Process,
         \/ CallOpen(p) \/ MakeBase(p) \/ OpenBase(p) \/ LstatEntry(p) \/ LstatMade(p)
         \/ OpenEntry(p) \/ CheckRoot(p) \/ CallFails(p)
  PROVE  /\ UNCHANGED key /\ DoneStay /\ TreeGrows /\ NamesStay /\ UNCHANGED entry
         /\ \A q \in Process \ {p} : Stays(q) /\ Watched(q)
<1> USE DEF Goto, tree, history
<1>1. CASE CallOpen(p) \/ MakeBase(p)
  <2>1. /\ \A q \in Process \ {p} : pc'[q] = pc[q] /\ done'[q] = done[q]
        /\ pc[p] # "done" /\ UNCHANGED <<entry, holds, key, chain, child, was, stood, swaps, faults>>
        /\ made \subseteq made'
    BY <1>1 DEF CallOpen, MakeBase, StateTyped
  <2>2. DoneStay /\ TreeGrows /\ NamesStay
    BY <2>1 DEF DoneStay, TreeGrows, NamesStay
  <2>3. ASSUME NEW q \in Process \ {p} PROVE Stays(q) /\ Watched(q)
    BY <2>1 DEF Stays, Watched, DirectoryAt, IsLink
  <2> QED BY <2>1, <2>2, <2>3
<1>2. ASSUME NEW step, pc' = [pc EXCEPT ![p] = step], pc[p] # "done",
             \A q \in Process \ {p} : /\ chain'[q] = chain[q] /\ child'[q] = child[q]
                                      /\ was'[q] = was[q] /\ (q \in stood' <=> q \in stood),
             UNCHANGED <<tree, key, done, swaps>>, faults' = faults \/ faults' > 0
      PROVE  /\ UNCHANGED key /\ DoneStay /\ TreeGrows /\ NamesStay /\ UNCHANGED entry
             /\ \A q \in Process \ {p} : Stays(q) /\ Watched(q)
  <2>1. DoneStay /\ TreeGrows
    BY <1>2 DEF DoneStay, TreeGrows, StateTyped
  <2>2. NamesStay
    BY <1>2 DEF NamesStay
  <2>3. ASSUME NEW q \in Process \ {p} PROVE Stays(q) /\ Watched(q)
    BY <1>2 DEF Stays, Watched, DirectoryAt, IsLink, StateTyped
  <2> QED BY <1>2, <2>1, <2>2, <2>3
<1>3. ASSUME NEW step, Refuse(p, step)
      PROVE  /\ pc' = [pc EXCEPT ![p] = step]
             /\ \A q \in Process \ {p} : /\ chain'[q] = chain[q] /\ child'[q] = child[q]
                                         /\ was'[q] = was[q] /\ (q \in stood' <=> q \in stood)
  BY <1>3 DEF Refuse, StateTyped
<1>4. ASSUME NEW step, Proceed(p, step)
      PROVE  /\ pc' = [pc EXCEPT ![p] = step]
             /\ \A q \in Process \ {p} : /\ chain'[q] = chain[q] /\ child'[q] = child[q]
                                         /\ was'[q] = was[q] /\ (q \in stood' <=> q \in stood)
  BY <1>4 DEF Proceed
<1>5. ASSUME NEW at, Arrive(p, at), NEW q \in Process \ {p}
      PROVE  was'[q] = was[q] /\ (q \in stood' <=> q \in stood)
  BY <1>5 DEF Arrive, StateTyped
<1>6. CASE CallFails(p)
  <2>1. pc[p] # "done" /\ UNCHANGED <<tree, key, done, swaps>> /\ faults' > 0
    BY <1>6 DEF CallFails, Fault, Active, Ended, StateTyped
  <2> QED BY <1>2, <1>3, <1>6, <2>1 DEF CallFails
<1>7. CASE LstatEntry(p) \/ LstatMade(p)
  <2>1. pc[p] # "done" /\ UNCHANGED <<tree, key, done, swaps, faults>>
    BY <1>7 DEF LstatEntry, LstatMade
  <2>2. CASE \E step \in {"symlinked", "nostore", "failed"} : Refuse(p, step)
    BY <1>2, <1>3, <2>1, <2>2
  <2>3. CASE \E step \in {"open", "mkdir"} : Proceed(p, step)
    BY <1>2, <1>4, <2>1, <2>3
  <2> QED BY <1>7, <2>2, <2>3 DEF LstatEntry, LstatMade
<1>8. CASE OpenBase(p)
  <2>1. pc[p] # "done" /\ UNCHANGED <<tree, key, done, swaps, faults>>
    BY <1>8 DEF OpenBase
  <2>2. CASE Refuse(p, "nostore")
    BY <1>2, <1>3, <2>1, <2>2
  <2>3. CASE Goto(p, "lstat") /\ Arrive(p, At(p)) /\ UNCHANGED <<chain, child>>
    BY <1>2, <1>5, <2>1, <2>3
  <2> QED BY <1>8, <2>2, <2>3 DEF OpenBase
<1>9. CASE OpenEntry(p)
  <2>1. pc[p] # "done" /\ UNCHANGED <<tree, key, done, swaps, faults>>
    BY <1>9 DEF OpenEntry
  <2>2. CASE Refuse(p, "failed")
    BY <1>2, <1>3, <2>1, <2>2
  <2>3. CASE Leads(At(p)[1], At(p)[2]) # Absent
    <3>1. /\ pc' = [pc EXCEPT ![p] = "check"] /\ UNCHANGED <<chain, was, stood>>
          /\ \A q \in Process \ {p} : child'[q] = child[q]
      BY <1>9, <2>3 DEF OpenEntry, StateTyped
    <3> QED BY <1>2, <2>1, <3>1
  <2> QED BY <1>9, <2>2, <2>3 DEF OpenEntry
<1>10. CASE CheckRoot(p)
  <2>1. pc[p] # "done" /\ UNCHANGED <<tree, key, done, swaps, faults>>
    BY <1>10 DEF CheckRoot
  <2>2. CASE \E step \in {"failed", "symlinked", "replaced"} : Refuse(p, step)
    BY <1>2, <1>3, <2>1, <2>2
  <2>3. CASE Enter(p)
    <3>1. \A q \in Process \ {p} : chain'[q] = chain[q] /\ child'[q] = child[q]
      BY <2>3 DEF Enter, StateTyped
    <3>2. \A q \in Process \ {p} : was'[q] = was[q] /\ (q \in stood' <=> q \in stood)
      BY <1>5, <2>3 DEF Enter, StateTyped
    <3>3. PICK step \in {"lstat", Sub[1]} : pc' = [pc EXCEPT ![p] = step]
      BY <2>3 DEF Enter
    <3> QED BY <1>2, <2>1, <3>1, <3>2, <3>3
  <2> QED BY <1>10, <2>2, <2>3 DEF CheckRoot
<1> QED BY <1>1, <1>6, <1>7, <1>8, <1>9, <1>10

LEMMA MakesLeave ==
  ASSUME TreeTyped, StateTyped, NEW p \in Process, CommandOK(p), MakeEntry(p) \/ MakePart(p)
  PROVE  /\ UNCHANGED key /\ DoneStay /\ TreeGrows /\ NamesStay
         /\ \A q \in Process \ {p} : Stays(q) /\ Watched(q)
<1> USE DEF Goto, history
<1>1. /\ pc[p] # "done" /\ UNCHANGED <<key, chain, child, done, swaps, faults>>
      /\ \A q \in Process \ {p} : pc'[q] = pc[q]
  BY PartFacts DEF MakeEntry, MakePart, StateTyped
<1>2. DoneStay
  BY <1>1 DEF DoneStay
<1>3. TreeGrows /\ NamesStay
  <2>1. CASE MakeEntry(p)
    <3>1. made \subseteq made' /\ \A x \in Place : entry[x] # Absent => entry'[x] = entry[x]
      BY <1>2, <2>1, MakeEntryKept
    <3> QED BY <1>1, <2>1, <3>1 DEF TreeGrows, NamesStay, MakeEntry
  <2>2. CASE MakePart(p)
    <3>1. UNCHANGED <<entry, made>> /\ \A d \in Dir : holds[d] \subseteq holds'[d]
      BY <1>2, <2>2, MakePartKept DEF MakePart
    <3> QED BY <1>1, <3>1 DEF TreeGrows, NamesStay
  <2> QED BY <2>1, <2>2
<1>4. ASSUME NEW q \in Process \ {p} PROVE Watched(q)
  <2>1. CASE MakeEntry(p)
    BY <2>1 DEF MakeEntry, Observed, Watched
  <2>2. CASE MakePart(p)
    BY <2>2 DEF MakePart, Watched, DirectoryAt, IsLink
  <2> QED BY <2>1, <2>2
<1> QED BY <1>1, <1>2, <1>3, <1>4 DEF Stays

-----------------------------------------------------------------------------
(* What others do to the directories.                                       *)
LEMMA RearrangeKept ==
  ASSUME TreeTyped, StateTyped, \A p \in Process : CommandOK(p), Rearrange
  PROVE  TreeTyped' /\ StateTyped' /\ \A p \in Process : CommandOK(p)'
<1>1. /\ Observed /\ swaps' = swaps + 1 /\ swaps < MaxSwaps
      /\ UNCHANGED <<made, holds, pc, create, key, chain, child, done, faults>>
  BY DEF Rearrange
<1>2. \A q \in Searching : At(q) \in Place /\ At(q)[1] \in Dir
  BY AtFacts DEF CommandOK, Searching
<1>3. TreeTyped'
  BY <1>2, RearrangedTyped
<1>4. StateTyped'
  <2>1. swaps' \in 0 .. MaxSwaps
    BY <1>1, BoundAssumption DEF StateTyped
  <2>2. was' \in [Process -> SUBSET Dir] /\ stood' \in SUBSET Process
    BY <1>1, <1>2, <1>3, ObservedTyped
  <2> QED BY <1>1, <2>1, <2>2 DEF StateTyped
<1>5. DoneStay /\ TreeGrows
  BY <1>1 DEF DoneStay, TreeGrows
<1>6. NamesStay
  <2>1. swaps' # 0
    BY <1>1 DEF StateTyped
  <2> QED BY <1>1, <2>1 DEF NamesStay
<1>7. ASSUME NEW p \in Process
      PROVE  Stays(p) /\ Watched(p)
  BY <1>1 DEF Stays, Watched, Observed
<1> QED BY <1>1, <1>3, <1>4, <1>5, <1>6, <1>7, OthersKept

-----------------------------------------------------------------------------
LEMMA InitialState ==
  ASSUME Init
  PROVE  OpenInvariant
<1>1. PICK t \in Start : entry = t.entry /\ made = t.made /\ holds = t.holds
  BY DEF Init
<1>2. TreeTyped
  BY <1>1, StartAssumption DEF TreeTyped, Directories
<1>3. /\ Base \in Dir /\ <<Base>> \in Seq(Dir) /\ Len(<<Base>>) = 1 /\ <<Base>>[1] = Base
      /\ 0 \in 0 .. MaxSwaps /\ 0 \in 0 .. MaxFaults
  BY DirAssumption, BoundAssumption
<1>4. StateTyped
  BY <1>3 DEF Init, StateTyped
<1>5. ASSUME NEW p \in Process
      PROVE  CommandOK(p)
  <2>1. /\ pc[p] = "idle" /\ chain[p] = <<Base>> /\ stood = {} /\ done[p] = {}
        /\ p \notin Searching
    BY DEF Init, Searching
  <2>2. Len(key[p]) = 2
    BY <1>4, KeyFacts DEF StateTyped
  <2>3. Len(chain[p]) = 1 /\ chain[p][1] = Base
    BY <1>3, <2>1
  <2>4. \A i \in 1 .. Len(chain[p]) - 1 : FALSE
    BY <2>3
  <2>5. pc[p] \notin Ended \cup Parts
    BY <2>1, PartFacts DEF Ended
  <2>6. CommandTyped(p) /\ SearchOK(p) /\ StopOK(p) /\ PartsOK(p)
    BY <2>1, <2>2, <2>3, <2>5 DEF CommandTyped, SearchOK, StopOK, PartsOK, Ended
  <2>7. PathOK(p)
    BY <2>1, <2>3, <2>4 DEF PathOK, Path
  <2> QED BY <2>6, <2>7 DEF CommandOK
<1> QED BY <1>2, <1>4, <1>5, InvariantByCommand

LEMMA InvariantKept ==
  ASSUME OpenInvariant, [Next]_vars
  PROVE  OpenInvariant'
<1>1. TreeTyped /\ StateTyped /\ \A p \in Process : CommandOK(p)
  BY InvariantByCommand
<1>2. (OpenInvariant <=> TreeTyped /\ StateTyped /\ \A p \in Process : CommandOK(p))'
  BY InvariantByCommand, PTL
<1>3. ASSUME NEW p \in Process,
             \/ CallOpen(p) \/ MakeBase(p) \/ OpenBase(p) \/ LstatEntry(p) \/ LstatMade(p)
             \/ OpenEntry(p) \/ CheckRoot(p) \/ CallFails(p)
      PROVE  OpenInvariant'
  <2>1. /\ UNCHANGED key /\ DoneStay /\ TreeGrows /\ NamesStay /\ UNCHANGED entry
        /\ \A q \in Process \ {p} : Stays(q) /\ Watched(q)
    BY <1>1, <1>3, LooksLeave
  <2>2. StateTyped'
    BY <1>1, <1>3, LookTyped, EntryTyped
  <2>3. CommandOK(p)'
    BY <1>1, <1>3, <2>1, BeginKept, LookKept, OpenEntryKept, CheckKept, CallFailsKept
  <2>4. \A q \in Process \ {p} : CommandOK(q)'
    BY <1>1, <2>1, OthersKept
  <2>5. TreeTyped'
    <3>1. UNCHANGED holds /\ (made' = made \/ made' = made \cup {Base})
      BY <1>3 DEF CallOpen, MakeBase, OpenBase, LstatEntry, LstatMade, OpenEntry, CheckRoot,
         CallFails, tree
    <3> QED BY <1>1, <2>1, <3>1, DirAssumption DEF TreeTyped, Directories
  <2> QED BY <1>2, <2>2, <2>3, <2>4, <2>5
<1>4. ASSUME NEW p \in Process, MakeEntry(p) \/ MakePart(p)
      PROVE  OpenInvariant'
  <2>1. /\ UNCHANGED key /\ DoneStay /\ TreeGrows /\ NamesStay
        /\ \A q \in Process \ {p} : Stays(q) /\ Watched(q)
    BY <1>1, <1>4, MakesLeave
  <2>2. CommandOK(p)' /\ TreeTyped'
    BY <1>1, <1>4, <2>1, MakeEntryKept, MakePartKept
  <2>3. StateTyped'
    BY <1>1, <1>4, <2>2, MakeTyped
  <2>4. \A q \in Process \ {p} : CommandOK(q)'
    BY <1>1, <2>1, OthersKept
  <2> QED BY <1>2, <2>2, <2>3, <2>4
<1>5. CASE Rearrange
  BY <1>1, <1>2, <1>5, RearrangeKept
<1>6. CASE UNCHANGED vars
  <2> USE <1>6 DEF vars, tree, history, OpenInvariant
  <2>1. TypeOK'
    BY DEF TypeOK, Directories, Searching, At
  <2>2. SearchIsObserved'
    BY DEF SearchIsObserved, Searching, At, DirectoryAt
  <2>3. LinksStopIt'
    BY DEF LinksStopIt, At, IsLink
  <2>4. PartsInOrder'
    BY DEF PartsInOrder, Searching
  <2>5. UndisturbedPaths'
    BY DEF UndisturbedPaths, At
  <2> QED BY <2>1, <2>2, <2>3, <2>4, <2>5
<1> QED BY <1>3, <1>4, <1>5, <1>6 DEF Next

(* The invariant of the way down to a store.                                *)
THEOREM OpensInvariant == Spec => []OpenInvariant
BY InitialState, InvariantKept, PTL DEF Spec

-----------------------------------------------------------------------------
(* A link that stood in the way all along is named, never passed off as a   *)
(* missing store or a failed mkdir (store.go:280-286).                      *)
THEOREM LinksAreNamed == Spec => []LinkIsNamed
<1>1. OpenInvariant => LinkIsNamed
  BY DEF OpenInvariant, TypeOK, LinksStopIt, LinkIsNamed, Ended
<1> QED BY <1>1, OpensInvariant, PTL

(* Commands that create at once end in one complete store, none over the    *)
(* other's mkdir, and whoever comes after an add finds its store, as long   *)
(* as nobody else rearranges the directories (store.go:294-296, 206-219).   *)
THEOREM OneStoreForAll == Spec => []OneStoreEach
<1>1. OpenInvariant => OneStoreEach
  <2> SUFFICES ASSUME OpenInvariant
               PROVE  OneStoreEach
    OBVIOUS
  <2>1. TreeTyped /\ StateTyped /\ \A p \in Process : CommandOK(p)
    BY InvariantByCommand
  <2>2. ASSUME NEW p \in Process, pc[p] = "done"
        PROVE  holds[chain[p][Len(chain[p])]] = Parts
    <3>1. chain[p][Len(chain[p])] \in Dir
      BY <2>1, AtFacts DEF CommandOK
    <3>2. holds[chain[p][Len(chain[p])]] \subseteq Parts
      BY <2>1, <3>1 DEF TreeTyped
    <3> QED BY <2>1, <2>2, <3>2, PartFacts DEF CommandOK, PartsOK
  <2>3. ASSUME swaps = 0, faults = 0, NEW p \in Process, NEW q \in Process
        PROVE  /\ pc[p] \notin {"failed", "replaced"}
               /\ pc[p] = "done" /\ pc[q] = "done" /\ key[p] = key[q] => chain[p] = chain[q]
               /\ pc[p] = "nostore" => \A r \in done[p] : key[r] # key[p]
    <3>1. Path(p) /\ Path(q)
      BY <2>1, <2>3 DEF CommandOK, PathOK
    <3>2. ASSUME pc[p] = "done", pc[q] = "done", key[p] = key[q]
          PROVE  chain[p] = chain[q]
      <4>1. /\ chain[p] \in Seq(Dir) /\ chain[q] \in Seq(Dir)
            /\ Len(chain[p]) = 3 /\ Len(chain[q]) = 3
        BY <2>1, <3>2, AtFacts DEF CommandOK, PartsOK
      <4>2. \A i \in 1 .. Len(chain[p]) : chain[p][i] = chain[q][i]
        BY <2>1, <3>1, <3>2, <4>1, SamePath
      <4> QED BY <4>1, <4>2
    <3> QED BY <3>1, <3>2 DEF Path
  <2> QED BY <2>2, <2>3 DEF OneStoreEach
<1> QED BY <1>1, OpensInvariant, PTL

(* No command enters a directory that did not itself have the name since    *)
(* the command has its parent open (store.go:226-250, 309-349).             *)
THEOREM OpensWhatWasNamed == Spec => OpensOwnDirectory
<1>1. ASSUME OpenInvariant, [Next]_vars
      PROVE  [\A p \in Process :
                Len(chain'[p]) > Len(chain[p]) => child[p] \in was[p]]_vars
  <2> SUFFICES ASSUME Next, NEW p \in Process, Len(chain'[p]) > Len(chain[p])
               PROVE  child[p] \in was[p]
    BY <1>1
  <2>1. TreeTyped /\ StateTyped /\ \A q \in Process : CommandOK(q)
    BY <1>1, InvariantByCommand
  <2>2. Len(chain[p]) \in 1 .. 3 /\ Len(<<Base>>) = 1
    BY <2>1, AtFacts DEF CommandOK
  <2>3. chain'[p] # chain[p] /\ chain'[p] # <<Base>>
    <3>1. \A n \in 1 .. 3 : ~ n > n /\ ~ 1 > n
      OBVIOUS
    <3>2. ~ Len(chain[p]) > Len(chain[p]) /\ ~ Len(<<Base>>) > Len(chain[p])
      BY <2>2, <3>1
    <3> QED BY <3>2
  <2>4. PICK q \in Process : CheckRoot(q)
    BY <2>1, <2>3 DEF Next, Rearrange, CallOpen, MakeBase, OpenBase, LstatEntry, MakeEntry,
       LstatMade, OpenEntry, MakePart, CallFails, Refuse, Proceed, StateTyped
  <2>5. q = p /\ Enter(p) /\ entry[At(p)] = Directory(child[p]) /\ p \in Searching
    BY <2>1, <2>3, <2>4 DEF CheckRoot, Enter, Refuse, StateTyped, Searching
  <2>6. DirectoryAt(entry, At(p)) = {child[p]}
    BY <2>5, EntryParts DEF DirectoryAt
  <2> QED BY <2>1, <2>5, <2>6 DEF CommandOK, SearchOK
<1> QED BY <1>1, OpensInvariant, PTL DEF OpensOwnDirectory, Spec
=============================================================================
