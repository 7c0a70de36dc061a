---------------------------- MODULE CommandLine ----------------------------
(***************************************************************************)
(* snf::CommandLineParser.  An argument is a record: its form (--name,     *)
(* letters behind one dash, or a word), the names it gives, and the text   *)
(* behind a '=', None if there is no '='.  parse() reads the arguments one *)
(* by one, sets options as it goes, and stops at the first error; an       *)
(* option without its value takes the next argument, whatever it is.       *)
(***************************************************************************)
EXTENDS Naturals, Sequences, SequencesExt

CONSTANTS Declared,    \* the options in the order of addOption(): names, flag
          Arguments,   \* the arguments a user can write
          HasVersion,  \* whether m_version was set
          None,
          MaxArgs, MaxParses   \* bounds

VARIABLES given,       \* the arguments of this parse(), as far as they were read
          options,     \* m_isSet and m_value of every option
          pending,     \* the option whose value is the next argument, or 0
          status,      \* "reading", or how parse() ended
          parses
cliVars == <<given, options, pending, status, parses>>

\* addOption(): a later option with the same first name takes the place.
AddOption(os, o) ==
    IF \E i \in 1..Len(os) : os[i].names[1] = o.names[1]
    THEN [i \in 1..Len(os) |-> IF os[i].names[1] = o.names[1] THEN o ELSE os[i]]
    ELSE Append(os, o)

Registered == FoldLeft(AddOption, <<>>, Declared)
Options == 1..Len(Registered)

\* findOption(): the first that has the name, or 0.
FindOption(n) ==
    LET found == {i \in Options : Contains(Registered[i].names, n)}
    IN  IF found = {} THEN 0 ELSE Min(found)

\* The values of options: the default, what is behind '=', a whole argument.
Default == <<"default">>
Text(v) == <<"text", v>>
Whole(a) == <<"argument", a>>

IsFlag(o) == Registered[o].flag

Init ==
    /\ given = <<>>
    /\ options = [o \in Options |-> [set |-> FALSE, value |-> Default]]
    /\ pending = 0
    /\ status = "reading"
    /\ parses = 1

SetIsSet(os, o) == [os EXCEPT ![o].set = TRUE]
SetValue(os, o, v) == [os EXCEPT ![o] = [set |-> TRUE, value |-> v]]

\* Mutant: --name= gives the empty value, as -n= does.
NeedsNext_IfAbsent(a) == a.value = None

\* --name= and --name both take the next argument, -n= takes the empty text.
NeedsNext(a) == a.value = None \/ (a.form = "long" /\ a.value = "")

\* -h, --help and --version, unless the program has options of these names.
BuiltIn(a) ==
    \/ /\ (a.form = "long" /\ a.names = <<"help">>) \/ (a.form = "short" /\ a.names = <<"h">>)
       /\ a.value = None /\ FindOption("help") = 0
    \/ a.form = "long" /\ a.names = <<"version">> /\ a.value = None /\ FindOption("version") = 0 /\ HasVersion

Result(os, p, s) == [options |-> os, pending |-> p, status |-> s]

\* An option that stands alone: --name, --name=value, -n, -n=value.
ReadOne(a) ==
    LET o == FindOption(a.names[1])
    IN  IF o = 0 THEN Result(options, 0, "error")
        ELSE IF IsFlag(o) THEN
            IF a.value = None \/ (a.form = "long" /\ a.value = "") THEN Result(SetIsSet(options, o), 0, "reading")
            ELSE Result(options, 0, "error")
        ELSE IF NeedsNext(a) THEN Result(options, o, "reading")
        ELSE Result(SetValue(options, o, Text(a.value)), 0, "reading")

\* -abc: the flags before the first letter that is not one are set.
ReadLetters(a) ==
    LET bad == {i \in 1..Len(a.names) : FindOption(a.names[i]) = 0 \/ ~IsFlag(FindOption(a.names[i]))}
        good == IF bad = {} THEN a.names ELSE SubSeq(a.names, 1, Min(bad) - 1)
    IN  Result(FoldLeft(LAMBDA os, n : SetIsSet(os, FindOption(n)), options, good), 0,
               IF bad = {} THEN "reading" ELSE "error")

Becomes(r) == options' = r.options /\ pending' = r.pending /\ status' = r.status

\* One turn of the loop of parse().  (-ab=v has one name, "ab".)
Read(a) ==
    /\ status = "reading" /\ pending = 0 /\ Len(given) < MaxArgs
    /\ given' = Append(given, a)
    /\ Becomes(CASE BuiltIn(a) -> Result(options, 0, "exit")
                 [] a.form = "word" -> Result(options, 0, "error")
                 [] a.form # "word" /\ ~BuiltIn(a) /\ Len(a.names) = 1 -> ReadOne(a)
                 [] OTHER -> ReadLetters(a))
    /\ UNCHANGED parses

\* setValue(argv[++i])
TakeNext(a) ==
    /\ status = "reading" /\ pending # 0 /\ Len(given) < MaxArgs
    /\ given' = Append(given, a)
    /\ Becomes(Result(SetValue(options, pending, Whole(a)), 0, "reading"))
    /\ UNCHANGED parses

\* The end of argv: a missing value is an error.
EndOfArguments ==
    /\ status = "reading"
    /\ status' = IF pending = 0 THEN "ok" ELSE "error"
    /\ pending' = 0
    /\ UNCHANGED <<given, options, parses>>

\* parse() again: only the error text is cleared.
ParseAgain ==
    /\ status \in {"ok", "error"} /\ parses < MaxParses
    /\ status' = "reading" /\ given' = <<>> /\ parses' = parses + 1
    /\ UNCHANGED <<options, pending>>

Next ==
    \/ \E a \in Arguments : Read(a) \/ TakeNext(a)
    \/ EndOfArguments \/ ParseAgain

Spec == Init /\ [][Next]_cliVars

\* value(): of an option that is not set, the default.
Value(o) == IF options[o].set THEN options[o].value ELSE Default

----------------------------------------------------------------------------
(* The reference: which arguments are values, and who gives what.          *)

Names(i) == {given[i].names[k] : k \in 1..Len(given[i].names)}
Valued(i) == {o \in Options : ~IsFlag(o) /\ \E n \in Names(i) : FindOption(n) = o}

\* The arguments that are the value of the one before them.
IsValue[i \in 0..MaxArgs] ==
    /\ i > 1 /\ i <= Len(given)
    /\ ~IsValue[i - 1]
    /\ given[i - 1].form # "word" /\ Len(given[i - 1].names) = 1
    /\ Valued(i - 1) # {}
    /\ given[i - 1].value = None \/ (given[i - 1].form = "long" /\ given[i - 1].value = "")

\* What option o was given last in this parse(), as the set of at most one value.
LastGiven(o) ==
    LET at == {i \in 1..Len(given) : ~IsValue[i] /\ given[i].form # "word" /\ Len(given[i].names) = 1 /\ o \in Valued(i)}
        i == Max(at)
    IN  IF at = {} THEN {}
        ELSE IF i < Len(given) /\ IsValue[i + 1] THEN {Whole(given[i + 1])}
        ELSE {Text(given[i].value)}

\* After a parse() that succeeded, value() is what the last argument for the
\* option says, in any of the four notations, and every argument has been of
\* use: it names options the program has, or it is the value of the option
\* before it.  An option nobody gave has its default in a first parse().
CommandLineFaithful ==
    status = "ok" =>
        /\ \A o \in Options : ~IsFlag(o) =>
              /\ LastGiven(o) # {} => options[o].set /\ {Value(o)} = LastGiven(o)
              /\ LastGiven(o) = {} /\ parses = 1 => Value(o) = Default
        /\ \A i \in 1..Len(given) : ~IsValue[i] =>
              given[i].form # "word" /\ \A n \in Names(i) : FindOption(n) # 0
        /\ \A o \in Options : IsFlag(o) /\ parses = 1 =>
              (options[o].set <=> \E i \in 1..Len(given) : ~IsValue[i] /\ \E n \in Names(i) : FindOption(n) = o)
============================================================================
