--------------------------- MODULE OrderRegister ---------------------------
(***************************************************************************)
(* What a store promises about its order, without the files: one value     *)
(* that every Reorder updates atomically.  A Reorder that returns success  *)
(* was applied, to the order current at that moment, and no other          *)
(* reorder's effect is ever dropped or overwritten.  It may be applied     *)
(* more than once during its call, and a call that ends otherwise may have *)
(* been applied as well: the code promises neither.                        *)
(***************************************************************************)
EXTENDS Naturals, Sequences

CONSTANTS Writer, Id, Request, InitDoc, Merge(_, _, _)

VARIABLES
  current,  \* the order
  asked,    \* asked[w]: the ids w was called with
  applied,  \* the writers whose ids were moved to the front at least once
  status    \* status[w]: idle, busy, ok or failed

regVars == <<current, asked, applied, status>>

RegInit ==
  /\ current = InitDoc
  /\ asked = [w \in Writer |-> <<>>]
  /\ applied = {}
  /\ status = [w \in Writer |-> "idle"]

RegCall(w) ==
  /\ status[w] = "idle"
  /\ \E request \in Request : asked' = [asked EXCEPT ![w] = request]
  /\ status' = [status EXCEPT ![w] = "busy"]
  /\ UNCHANGED <<current, applied>>

(* The read, the merge and the write of one reorder, in one step; present   *)
(* is the set of reminders the call found, and holds all it was asked for.  *)
RegApply(w) ==
  /\ status[w] = "busy"
  /\ \E present \in SUBSET Id :
       /\ \A i \in DOMAIN asked[w] : asked[w][i] \in present
       /\ current' = Merge(asked[w], current, present)
  /\ applied' = applied \cup {w}
  /\ UNCHANGED <<asked, status>>

RegReturn(w) ==
  /\ status[w] = "busy"
  /\ \/ w \in applied /\ status' = [status EXCEPT ![w] = "ok"]
     \/ status' = [status EXCEPT ![w] = "failed"]
  /\ UNCHANGED <<current, asked, applied>>

RegNext == \E w \in Writer : RegCall(w) \/ RegApply(w) \/ RegReturn(w)

RegSpec == RegInit /\ [][RegNext]_regVars
=============================================================================
