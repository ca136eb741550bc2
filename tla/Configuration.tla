---------------------------- MODULE Configuration ----------------------------
(***************************************************************************)
(* The configuration file (config.cpp).  A text is what Trim leaves of it; *)
(* of a text only this is kept: the integer it starts with, if any, and    *)
(* whether something follows that integer.  A line is                      *)
(*                                                                         *)
(*   hash   the first character of the line is '#'                         *)
(*   split  there is a '=' in it                                           *)
(*   key    what is left of the first '=', trimmed (NoKey if nothing is)   *)
(*   text   what is right of it, trimmed                                   *)
(*                                                                         *)
(* An empty line has no '='.  A '#' after a blank does not make a comment. *)
(***************************************************************************)
EXTENDS Integers, Sequences

CONSTANTS
  NoKey,    \* the empty key
  IntMax    \* INT_MAX

ASSUME IntMaxAssumption == IntMax \in Nat

Text(isNumber, value, more) == [isNumber |-> isNumber, value |-> value, more |-> more]

Int32 == -(IntMax + 1) .. IntMax

IsComment(line) == line.hash
IsSetting(line) == ~IsComment(line) /\ line.split /\ line.key # NoKey

\* Mutant of Put: the first line of a key counts, as with map::emplace.
PutOnce(kv, line) == [k \in {line.key} \cup DOMAIN kv |-> IF k \in DOMAIN kv THEN kv[k] ELSE line.text]

\* kv[key] = value
Put(kv, line) == [k \in {line.key} \cup DOMAIN kv |-> IF k = line.key THEN line.text ELSE kv[k]]

TakeLine(kv, line) == IF IsSetting(line) THEN Put(kv, line) ELSE kv

\* What the map holds after each line.
LoadedUpTo(file) ==
  LET kv[i \in 0..Len(file)] == IF i = 0 THEN <<>> ELSE TakeLine(kv[i - 1], file[i])
  IN  kv

LoadFromFile(file) == LoadedUpTo(file)[Len(file)]

\* std::stoi throws if there is no integer or it does not fit.
ParsesAsInt(text) == text.isNumber /\ text.value \in Int32 /\ ~text.more

HasNonNegativeInt(kv, key) ==
  key \in DOMAIN kv /\ ParsesAsInt(kv[key]) /\ kv[key].value >= 0
=============================================================================
