------------------------------ MODULE Options ------------------------------
(***************************************************************************)
(* The command line: parse_options hands every word that begins with two   *)
(* dashes to the registered options, and leaves the guest's argv.  A word  *)
(* is a record: the option its text begins with, what follows the name     *)
(* ("", "=" or other text), the number or string after the equals sign,    *)
(* and its length with the terminating zero.  No registered name begins    *)
(* another, so that at most one option matches.                            *)
(***************************************************************************)
EXTENDS Integers, Sequences

CONSTANTS Names,    \* the registered options
          Decl,     \* by name: type, initial value, value without "=", no_equal
          Lines,    \* command lines, without the name of the program
          IntMod    \* 2^32

ASSUME OptionsAssumption ==
  /\ IntMod \in Nat \ {0}
  /\ \A o \in Names : Decl[o].type \in {"string", "int", "long", "bool"}
  /\ \A l \in Lines : l \in Seq({l[j] : j \in DOMAIN l})

VARIABLES line,     \* the command line
          i,        \* the word parse_options is at
          value,    \* the options' values
          phase     \* where main() is

optvars == <<line, i, value>>

\* A word of the guest's own, which parse_options stops at.
IsOption(w) == w.opt # "none"

OptionsInit ==
  /\ line \in Lines /\ i = 1
  /\ value = [o \in Names |-> Decl[o].ini]
  /\ phase = "options"

\* atoi: the value of the text modulo the width of an int.
Atoi(x) == LET r == x % IntMod IN IF 2 * r < IntMod THEN r ELSE r - IntMod

\* Mutant of SetVal: the type of the option is not looked at.
SetValAsInt(o, w) == IF w.rest = "" THEN Decl[o].none ELSE Atoi(w.val)

SetVal(o, w) ==
  CASE w.rest = ""                              -> Decl[o].none
    [] w.rest # "" /\ Decl[o].type = "string"   -> w.val
    [] w.rest # "" /\ Decl[o].type # "string"   -> Atoi(w.val)

\* options_t::matches and setval end in help_exit: a value is missing, or there
\* is one where none is taken, or the word goes on after the name.
Malformed(o, w) ==
  \/ w.rest = "" /\ ~Decl[o].no_equal
  \/ w.rest = "=" /\ Decl[o].type = "bool"
  \/ w.rest \notin {"", "="}

AtOption == i <= Len(line) /\ IsOption(line[i])
Accepted(w) == w.opt \in Names /\ ~Malformed(w.opt, w)

\* exit(0), for --help, an unknown option and a malformed one alike.
HelpExit ==
  /\ phase = "options" /\ AtOption /\ ~Accepted(line[i])
  /\ phase' = "exited" /\ UNCHANGED optvars

\* Mutant of ParseOption: the word after an option is taken for its value.
ParseOptionTwo ==
  /\ phase = "options" /\ AtOption /\ Accepted(line[i])
  /\ value' = [value EXCEPT ![line[i].opt] = SetVal(line[i].opt, line[i])]
  /\ i' = i + 2 /\ UNCHANGED <<line, phase>>

ParseOption ==
  /\ phase = "options" /\ AtOption /\ Accepted(line[i])
  /\ value' = [value EXCEPT ![line[i].opt] = SetVal(line[i].opt, line[i])]
  /\ i' = i + 1 /\ UNCHANGED <<line, phase>>

\* What is left is the guest's argv; main() wants a program.
ParseDone ==
  /\ phase = "options" /\ ~AtOption
  /\ phase' = IF i > Len(line) THEN "exited" ELSE "elf"
  /\ UNCHANGED optvars

argv == SubSeq(line, i, Len(line))
-----------------------------------------------------------------------------
(***************************************************************************)
(* When main() goes on, every option has the value its last mention before *)
(* the guest's program wrote, or its default, whatever the guest's own     *)
(* words say.  Numbers are excepted that do not fit in an int.             *)
(***************************************************************************)
Mentions(o) == {j \in 1 .. Len(line) :
                  line[j].opt = o /\ \A k \in 1 .. j : IsOption(line[k])}
Written(o, w) ==
  IF w.rest = "" THEN value[o] = Decl[o].none
  ELSE \/ value[o] = w.val
       \/ Decl[o].type # "string" /\ w.val \notin 0 .. (IntMod \div 2) - 1

OptionsMeant ==
  phase \notin {"options", "exited"} =>
    \A o \in Names :
      IF Mentions(o) = {} THEN value[o] = Decl[o].ini
      ELSE Written(o, line[CHOOSE j \in Mentions(o) : \A k \in Mentions(o) : k <= j])
=============================================================================
