------------------------------ MODULE ItemFile ------------------------------
(***************************************************************************)
(* The file of one item: what encode writes and what decodeItem makes of a *)
(* file, its own or one another tool dropped into items/.  A file is a     *)
(* sequence of lines; a line is blank, a word, or "key: value".            *)
(***************************************************************************)
EXTENDS Naturals, SequencesExt, FiniteSetsExt

CONSTANTS
  Value,    \* values a header may carry
  MaxLines  \* the longest text or dropped file, in lines

ASSUME MaxLinesAssumption == MaxLines \in Nat

Line == [key : {"none", "id", "created", "repo", "scope"}, value : Value \cup {""}]

Blank == [key |-> "none", value |-> ""]

Plain == {line \in Line : line.key = "none"}

Field(key, value) == [key |-> key, value |-> value]

Texts == BoundedSeq(Plain \cup {Field("repo", v) : v \in Value}, MaxLines)

(* What Add lets through: not only blank lines, and none at the end.        *)
Item == [created : Value, repo : Value \cup {""}, scope : Value \cup {""},
         text : {t \in Texts : t # <<>> /\ t[Len(t)] # Blank}]

NoItem == [created |-> "", repo |-> "", scope |-> "", text |-> <<>>]

Encode(item) ==
  <<Field("id", ""), Field("created", item.created)>>
    \o (IF item.repo # "" THEN <<Field("repo", item.repo)>> ELSE <<>>)
    \o (IF item.scope # "" THEN <<Field("scope", item.scope)>> ELSE <<>>)
    \o <<Blank>> \o item.text

(* strings.TrimRight(text, "\n"): the lines up to the last that is not blank. *)
Trimmed(lines) ==
  SubSeq(lines, 1, Max({0} \cup {i \in DOMAIN lines : lines[i] # Blank}))

(* Slip: the header ends at the last blank line.                            *)
CutsLast(lines) ==
  {i \in 2 .. Len(lines) :
     lines[i] = Blank /\ \A j \in i + 1 .. Len(lines) : lines[j] # Blank}

(* strings.Cut(data, "\n\n"): the first blank line that has a line before.  *)
Cuts(lines) == {i \in 2 .. Len(lines) : lines[i] = Blank}

(* The loop over the header: the last line with a key has its value.        *)
LastValue(header, key) ==
  LET at == {i \in DOMAIN header : header[i].key = key}
  IN  IF at = {} THEN "" ELSE header[Max(at)].value

ReadHeader(header, text) ==
  [created |-> LastValue(header, "created"), repo |-> LastValue(header, "repo"),
   scope |-> LastValue(header, "scope"), text |-> text]

Decode(lines) ==
  IF Cuts(lines) = {}
    THEN [NoItem EXCEPT !.text = Trimmed(lines)]
    ELSE LET cut == Min(Cuts(lines)) IN
           ReadHeader(SubSeq(lines, 1, cut - 1),
                      Trimmed(SubSeq(lines, cut + 1, Len(lines))))

=============================================================================
