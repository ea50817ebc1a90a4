-------------------------------- MODULE IfBlock --------------------------------
(***************************************************************************)
(* IfBlock::try_parse (common/src/expr/if_block.rs): the parser of an      *)
(* if/then/else configuration block.  Either the block's key holds a       *)
(* single expression, or the keys under "<key>." form an array whose       *)
(* elements are "<pos>.if", "<pos>.then" and "<pos>.else" entries.  The    *)
(* keys are collected from the config map in its sorted order and walked   *)
(* once, tracking found_if, found_then, found_else and last_array_pos.     *)
(*                                                                         *)
(* A key is abstracted to its array position (0 stands for the empty       *)
(* position of a key "<key>..if", which the code cannot tell from "no      *)
(* position yet"), the first component after it (if_key: "else", "if",     *)
(* "then", or "other" for anything else) and whether its value parses as   *)
(* an expression.  A key with no '.' after the prefix is kind "nodot".     *)
(* An expression is <<i>> when parsed from keys[i], <<0>> when parsed from *)
(* the block's own key, and <<>> for Expression::default().                *)
(***************************************************************************)
EXTENDS Naturals, Sequences, FiniteSets

CONSTANTS
  Pos,       \* the array positions keys may have; 0 is the empty position
  OkValues,  \* whether a value parses: BOOLEAN, or {TRUE} when all do
  MaxKeys    \* the most keys a block has

ASSUME IfBlockBounds ==
  /\ Pos \subseteq Nat /\ Pos # {} /\ IsFiniteSet(Pos)
  /\ OkValues \subseteq BOOLEAN /\ TRUE \in OkValues
  /\ MaxKeys \in Nat

VARIABLES
  keys,            \* the collected keys under the prefix, in sorted order
  single,          \* config.contains_key(key): "absent", or whether it parses
  i,               \* the loop's position in keys
  if_then,         \* if_block.if_then
  default,         \* if_block.default
  found_if, found_then,
  found_else,      \* array_pos of the else entry; 0 is the empty string
  last_array_pos,  \* 0 is the empty string
  result,          \* "running", or what try_parse returned: "some" | "none"
  error            \* config.new_parse_error was called

vars == <<keys, single, i, if_then, default, found_if, found_then, found_else,
          last_array_pos, result, error>>

Kinds == {"else", "if", "then"}

\* Keys with no '.' after the prefix sort after every array position.
NoDotPos == 1 + CHOOSE m \in Pos : \A q \in Pos : q <= m

Items ==
  [pos : Pos, kind : Kinds, ok : OkValues]
    \cup [pos : Pos, kind : {"other"}, ok : {TRUE}]
    \cup [pos : {NoDotPos}, kind : {"nodot"}, ok : {TRUE}]

\* The BTreeMap order of the keys: by array position ("." sorts before the
\* digits, keys without a '.' after the digits), then by if_key.
KindRank == [else |-> 0, if |-> 1, other |-> 2, then |-> 3, nodot |-> 0]

SortKey(it) == it.pos * 4 + KindRank[it.kind]

\* The sorted key lists of n keys.
RECURSIVE SortedLists(_)
SortedLists(n) ==
  IF n = 0 THEN {<<>>}
  ELSE {t \in {Append(s, it) : s \in SortedLists(n - 1), it \in Items} :
          n = 1 \/ SortKey(t[n - 1]) <= SortKey(t[n])}

\* Every sorted key list of at most MaxKeys keys.
KeyLists == UNION {SortedLists(n) : n \in 0 .. MaxKeys}

Expressions == {<<>>} \cup {<<j>> : j \in 0 .. MaxKeys}

IfThens == [expr : Expressions, then : Expressions]

Init ==
  /\ keys \in KeyLists
  /\ single \in {"absent", "ok", "bad"}
  /\ i = 1
  /\ if_then = <<>>
  /\ default = <<>>
  /\ found_if = FALSE
  /\ found_then = FALSE
  /\ found_else = 0
  /\ last_array_pos = 0
  /\ result = "running"
  /\ error = FALSE

-----------------------------------------------------------------------------
(* The single-value form: the block's key itself holds an expression.      *)

SingleValue ==
  /\ result = "running"
  /\ single # "absent"
  /\ \/ single = "ok" /\ result' = "some" /\ default' = <<0>> /\ UNCHANGED error
     \/ single = "bad" /\ result' = "none" /\ error' = TRUE /\ UNCHANGED default
  /\ UNCHANGED <<keys, single, i, if_then, found_if, found_then, found_else,
                 last_array_pos>>

-----------------------------------------------------------------------------
(* One pass of `for item in &keys`.                                        *)

Item == keys[i]

InLoop == result = "running" /\ single = "absent" /\ i <= Len(keys)

\* config.new_parse_error(...); return None.  Expression::try_parse of a
\* value that does not parse records its own error and makes `?` return.
Fail ==
  /\ result' = "none"
  /\ error' = TRUE
  /\ UNCHANGED <<keys, single, i, if_then, default, found_if, found_then,
                 found_else, last_array_pos>>

\* Seeded fault: an ignored key also skips the key after it.
SkipNext ==
  /\ i' = i + 2
  /\ UNCHANGED <<keys, single, if_then, default, found_if, found_then,
                 found_else, last_array_pos, result, error>>

\* The loop goes on to the next key.
Skip ==
  /\ i' = i + 1
  /\ UNCHANGED <<keys, single, if_then, default, found_if, found_then,
                 found_else, last_array_pos, result, error>>

\* No '.' after the prefix: "Invalid property found in 'if' block".
InvalidKey ==
  /\ InLoop
  /\ Item.kind = "nodot"
  /\ Fail

\* Seeded fault: a new condition is pushed without checking that the
\* previous one had its "then".
IfNewNoThenCheck ==
  /\ InLoop
  /\ Item.kind = "if"
  /\ Item.pos # last_array_pos
  /\ \/ ~Item.ok /\ Fail
     \/ /\ Item.ok
        /\ if_then' = Append(if_then, [expr |-> <<i>>, then |-> <<>>])
        /\ found_then' = FALSE
        /\ last_array_pos' = Item.pos
        /\ found_if' = TRUE
        /\ i' = i + 1
        /\ UNCHANGED <<keys, single, default, found_else, result, error>>

\* An "if" at a new array position: the previous condition must have had
\* its "then"; the condition is parsed and pushed with an empty "then".
IfNew ==
  /\ InLoop
  /\ Item.kind = "if"
  /\ Item.pos # last_array_pos
  /\ \/ last_array_pos # 0 /\ ~found_then /\ Fail
     \/ /\ last_array_pos = 0 \/ found_then
        /\ ~Item.ok
        /\ Fail
     \/ /\ last_array_pos = 0 \/ found_then
        /\ Item.ok
        /\ if_then' = Append(if_then, [expr |-> <<i>>, then |-> <<>>])
        /\ found_then' = FALSE
        /\ last_array_pos' = Item.pos
        /\ found_if' = TRUE
        /\ i' = i + 1
        /\ UNCHANGED <<keys, single, default, found_else, result, error>>

\* A further key of the same condition ("<pos>.if.<n>").
IfSame ==
  /\ InLoop
  /\ Item.kind = "if"
  /\ Item.pos = last_array_pos
  /\ found_if' = TRUE
  /\ i' = i + 1
  /\ UNCHANGED <<keys, single, if_then, default, found_then, found_else,
                 last_array_pos, result, error>>

\* "else": the first one after an "if" is the default; another at a
\* different position, or one before any "if", is an error.
Else ==
  /\ InLoop
  /\ Item.kind = "else"
  /\ \/ found_else = 0 /\ ~found_if /\ Fail
     \/ found_else = 0 /\ found_if /\ ~Item.ok /\ Fail
     \/ /\ found_else = 0 /\ found_if /\ Item.ok
        /\ default' = <<i>>
        /\ found_else' = Item.pos
        /\ i' = i + 1
        /\ UNCHANGED <<keys, single, if_then, found_if, found_then,
                       last_array_pos, result, error>>
     \/ found_else # 0 /\ Item.pos # found_else /\ Fail
     \/ found_else # 0 /\ Item.pos = found_else /\ Skip

\* Seeded fault: a repeated "then" of one condition overwrites the first.
ThenOverwrite ==
  /\ InLoop
  /\ Item.kind = "then"
  /\ \/ /\ found_else = 0
        /\ Item.pos = last_array_pos
        /\ \/ ~Item.ok /\ Fail
           \/ Item.ok /\ if_then = <<>> /\ result' = "panic"
              /\ UNCHANGED <<keys, single, i, if_then, default, found_if,
                             found_then, found_else, last_array_pos, error>>
           \/ /\ Item.ok
              /\ if_then # <<>>
              /\ if_then' = [if_then EXCEPT ![Len(if_then)].then = <<i>>]
              /\ found_then' = TRUE
              /\ i' = i + 1
              /\ UNCHANGED <<keys, single, default, found_if, found_else,
                             last_array_pos, result, error>>
     \/ found_else = 0 /\ Item.pos # last_array_pos /\ Fail
     \/ found_else # 0 /\ Fail

\* "then": fills the "then" of the last condition pushed, if it is at the
\* same position and no "else" was seen.  The value is parsed first (Rust
\* evaluates an assignment's value before its place); then
\* `last_mut().unwrap()` panics when no condition was pushed.
Then ==
  /\ InLoop
  /\ Item.kind = "then"
  /\ \/ /\ found_else = 0
        /\ Item.pos = last_array_pos
        /\ \/ ~found_then /\ ~Item.ok /\ Fail
           \/ /\ ~found_then
              /\ Item.ok
              /\ if_then = <<>>
              /\ result' = "panic"
              /\ UNCHANGED <<keys, single, i, if_then, default, found_if,
                             found_then, found_else, last_array_pos, error>>
           \/ /\ ~found_then
              /\ Item.ok
              /\ if_then # <<>>
              /\ if_then' = [if_then EXCEPT ![Len(if_then)].then = <<i>>]
              /\ found_then' = TRUE
              /\ i' = i + 1
              /\ UNCHANGED <<keys, single, default, found_if, found_else,
                             last_array_pos, result, error>>
           \/ found_then /\ Skip
     \/ found_else = 0 /\ Item.pos # last_array_pos /\ Fail
     \/ found_else # 0 /\ Fail

\* Any other property of an array element is passed over.
Other ==
  /\ InLoop
  /\ Item.kind = "other"
  /\ Skip

\* Seeded fault: a condition left without "then" at the end returns None
\* without reporting it.
FinishQuiet ==
  /\ result = "running"
  /\ single = "absent"
  /\ i > Len(keys)
  /\ \/ ~found_if /\ result' = "none" /\ UNCHANGED error
     \/ found_if /\ ~found_then /\ result' = "none" /\ UNCHANGED error
     \/ found_if /\ found_then /\ found_else = 0
          /\ result' = "none" /\ error' = TRUE
     \/ found_if /\ found_then /\ found_else # 0
          /\ result' = "some" /\ UNCHANGED error
  /\ UNCHANGED <<keys, single, i, if_then, default, found_if, found_then,
                 found_else, last_array_pos>>

\* After the loop: no "if" at all is a silent None; a condition without
\* "then", or no "else", is an error; otherwise the block.
Finish ==
  /\ result = "running"
  /\ single = "absent"
  /\ i > Len(keys)
  /\ \/ ~found_if /\ result' = "none" /\ UNCHANGED error
     \/ found_if /\ ~found_then /\ result' = "none" /\ error' = TRUE
     \/ found_if /\ found_then /\ found_else = 0
          /\ result' = "none" /\ error' = TRUE
     \/ found_if /\ found_then /\ found_else # 0
          /\ result' = "some" /\ UNCHANGED error
  /\ UNCHANGED <<keys, single, i, if_then, default, found_if, found_then,
                 found_else, last_array_pos>>

try_parse ==
  \/ SingleValue
  \/ InvalidKey \/ IfNew \/ IfSame \/ Else \/ Then \/ Other
  \/ Finish

Spec == Init /\ [][try_parse]_vars

-----------------------------------------------------------------------------
(* A well-formed block, read from the keys alone: array elements in key    *)
(* order, each but the last holding exactly an "if" and a "then", the last *)
(* exactly an "else"; elements with other properties only are ignored.     *)
(* Of repeated entries of one element the first is the one that counts.    *)

\* The array positions holding an if, then or else entry, in key order.
UsedPositions == {keys[j].pos : j \in {k \in DOMAIN keys : keys[k].kind \in Kinds}}

Positions ==
  [n \in 1 .. Cardinality(UsedPositions) |->
     CHOOSE p \in UsedPositions : Cardinality({q \in UsedPositions : q < p}) = n - 1]

KindsAt(p) == {keys[j].kind : j \in {k \in DOMAIN keys : keys[k].pos = p}} \cap Kinds

First(p, kind) ==
  CHOOSE j \in DOMAIN keys :
    /\ keys[j].pos = p /\ keys[j].kind = kind
    /\ \A k \in 1 .. j - 1 : ~(keys[k].pos = p /\ keys[k].kind = kind)

Conditions == 1 .. Len(Positions) - 1

ElsePos == Positions[Len(Positions)]

WellFormed ==
  /\ \A j \in DOMAIN keys : keys[j].kind # "nodot"
  /\ Len(Positions) >= 2
  /\ \A n \in Conditions : KindsAt(Positions[n]) = {"if", "then"}
  /\ KindsAt(ElsePos) = {"else"}

\* Every expression the block is built from parses.
Parses ==
  /\ \A n \in Conditions :
       keys[First(Positions[n], "if")].ok /\ keys[First(Positions[n], "then")].ok
  /\ keys[First(ElsePos, "else")].ok

ExpectedIfThen ==
  [n \in Conditions |-> [expr |-> <<First(Positions[n], "if")>>,
                         then |-> <<First(Positions[n], "then")>>]]

ExpectedDefault == <<First(ElsePos, "else")>>

\* No key has the empty array position ("<key>..if").
NoEmptyPosition == \A j \in DOMAIN keys : keys[j].pos # 0

Done == result \in {"some", "none"}

-----------------------------------------------------------------------------
(* Properties.                                                             *)

TypeOK ==
  /\ keys \in Seq(Items) /\ Len(keys) <= MaxKeys
  /\ single \in {"absent", "ok", "bad"}
  /\ i \in 1 .. Len(keys) + 1
  /\ if_then \in Seq(IfThens)
  /\ default \in Expressions
  /\ found_if \in BOOLEAN /\ found_then \in BOOLEAN
  /\ found_else \in Pos \cup {0} /\ last_array_pos \in Pos \cup {0}
  /\ result \in {"running", "some", "none", "panic"}
  /\ error \in BOOLEAN

\* try_parse returns Some exactly for a single value that parses, or for a
\* well-formed array whose expressions parse, and then with the conditions
\* in key order, each with its own "then", and the "else" as default.
\* (Keys with an empty array position are left to NoPanic.)
ParseMatchesReference ==
  Done /\ NoEmptyPosition =>
    /\ single # "absent" => (result = "some" <=> single = "ok")
    /\ single = "absent" =>
         /\ result = "some" <=> WellFormed /\ Parses
         /\ result = "some" =>
              if_then = ExpectedIfThen /\ default = ExpectedDefault

\* A block that is not used is reported: try_parse returns None without a
\* parse error only when the keys hold no if, then or else entry at all.
NoSilentDrop ==
  result = "none" /\ ~error =>
    single = "absent" /\ \A j \in DOMAIN keys : keys[j].kind = "other"

\* `if_block.if_then.last_mut().unwrap()` never panics.
NoPanic == result # "panic"
====
