------------------------------ MODULE ItemSpec ------------------------------
(***************************************************************************)
(* What a store promises about its items, without the staging: a map from  *)
(* ids to reminders that an Add extends by exactly one reminder under an   *)
(* id that was free, and an rm shrinks by the ids it was given, one by one *)
(* and each tried.  Nothing ever replaces the reminder under an id, and    *)
(* nothing removes one that was not asked for.                             *)
(***************************************************************************)
EXTENDS Naturals

CONSTANTS Adder, Remover, Id

VARIABLES
  contents,  \* id -> whose reminder it is, for the ids in use
  added,     \* the adders whose reminder was published
  status,    \* status[p]: idle, busy, ok, failed or dead
  asked,     \* asked[r]: the ids r was given
  tried,     \* tried[r]: those it has removed or found it cannot
  told       \* the removers that have a failure to report

itemVars == <<contents, added, status, asked, tried, told>>

ItemInit ==
  /\ contents = [i \in {} |-> i]
  /\ added = {}
  /\ status = [p \in Adder \cup Remover |-> "idle"]
  /\ asked = [r \in Remover |-> {}]
  /\ tried = [r \in Remover |-> {}]
  /\ told = {}

Begin(a) ==
  /\ status[a] = "idle"
  /\ status' = [status EXCEPT ![a] = "busy"]
  /\ UNCHANGED <<contents, added, asked, tried, told>>

Publish(a) ==
  /\ status[a] = "busy"
  /\ a \notin added
  /\ \E i \in Id \ DOMAIN contents :
       contents' = [j \in DOMAIN contents \cup {i} |->
                      IF j = i THEN a ELSE contents[j]]
  /\ added' = added \cup {a}
  /\ UNCHANGED <<status, asked, tried, told>>

(* Success means one reminder was added, failure that none was; an adder    *)
(* that is killed may have added its reminder or not.                       *)
Finish(a) ==
  /\ \/ status[a] = "busy" /\ a \in added /\ status' = [status EXCEPT ![a] = "ok"]
     \/ /\ status[a] \in {"idle", "busy"} /\ a \notin added
        /\ status' = [status EXCEPT ![a] = "failed"]
     \/ status[a] = "busy" /\ status' = [status EXCEPT ![a] = "dead"]
  /\ UNCHANGED <<contents, added, asked, tried, told>>

Ask(r) ==
  /\ status[r] = "idle"
  /\ \E ids \in (SUBSET Id) \ {{}} : asked' = [asked EXCEPT ![r] = ids]
  /\ status' = [status EXCEPT ![r] = "busy"]
  /\ UNCHANGED <<contents, added, tried, told>>

(* How the call of r ends once it has tried what it was asked for.          *)
Report(r, outcome) ==
  outcome \in {"busy", IF r \in told' THEN "failed" ELSE "ok"}
    /\ (outcome # "busy" => tried'[r] = asked[r])

Delete(r) ==
  /\ status[r] = "busy"
  /\ \E i \in asked[r] :
       /\ tried' = [tried EXCEPT ![r] = @ \cup {i}]
       /\ \/ /\ i \in DOMAIN contents
             /\ contents' = [j \in DOMAIN contents \ {i} |-> contents[j]]
             /\ UNCHANGED told
          \/ told' = told \cup {r} /\ UNCHANGED contents
  /\ \E outcome \in {"busy", "ok", "failed"} :
       Report(r, outcome) /\ status' = [status EXCEPT ![r] = outcome]
  /\ UNCHANGED <<added, asked>>

Die(r) ==
  /\ status[r] = "busy"
  /\ status' = [status EXCEPT ![r] = "dead"]
  /\ UNCHANGED <<contents, added, asked, tried, told>>

ItemNext ==
  \/ \E a \in Adder : Begin(a) \/ Publish(a) \/ Finish(a)
  \/ \E r \in Remover : Ask(r) \/ Delete(r) \/ Die(r)

ItemMapSpec == ItemInit /\ [][ItemNext]_itemVars
=============================================================================
