----------------------------- MODULE Arguments -----------------------------
(***************************************************************************)
(* Util::parse_arguments (util.cpp): the words of the command line, then    *)
(* the members of the configuration file the command line may name.        *)
(* A definition is [flag, alts, type, default]; a value is a word.          *)
(***************************************************************************)
EXTENDS Naturals, SequencesExt

CONSTANTS
    Defined,      \* the arguments, by name and in the order they were defined
    Definition,   \* name -> its definition
    Numbers,      \* the words std::stoi takes
    ConfigFiles   \* path -> members of the configuration files that can be opened

Names == ToSet(Defined)
Matches(n, word) == word = Definition[n].flag \/ word \in Definition[n].alts

\* The arguments a word sets: the loop over the definitions ends at one whose
\* flag it is, and not at one that has it among the alternatives.
Takes(word) ==
    {Defined[j] : j \in {i \in DOMAIN Defined :
        /\ Matches(Defined[i], word)
        /\ \A k \in 1 .. i - 1 : word # Definition[Defined[k]].flag}}

\* One argument gets its value: stoi throws at a word that is no number, and
\* nobody catches it.  The callback runs once for every time it is set.
Set(arg, n, word) ==
    CASE Definition[n].type = "BOOLEAN" -> [arg EXCEPT !.value = "true", !.calls = @ + 1]
      [] Definition[n].type = "INTEGER" /\ word \notin Numbers -> [arg EXCEPT !.value = "exception"]
      [] OTHER -> [arg EXCEPT !.value = word, !.calls = @ + 1]

\* The word at i of argv, given to every argument that takes it; a string or an
\* integer without a word after it is ignored.
ReadWord(args, argv, i) ==
    [n \in Names |->
        IF n \in Takes(argv[i]) /\ (Definition[n].type = "BOOLEAN" \/ i < Len(argv))
        THEN [Set(args[n], n, IF i < Len(argv) THEN argv[i + 1] ELSE "") EXCEPT !.set = TRUE]
        ELSE args[n]]

\* Mutant: the file decides over the command line.
ReadConfigAlways(args) ==
    LET path == args["configuration_file"].value
        given(n) == path \in DOMAIN ConfigFiles /\ n \in DOMAIN ConfigFiles[path]
    IN [n \in Names |-> IF given(n) THEN Set(args[n], n, ConfigFiles[path][n]) ELSE args[n]]

\* The configuration file: only what the command line has not set.
ReadConfig(args) ==
    LET path == args["configuration_file"].value
        given(n) == path \in DOMAIN ConfigFiles /\ n \in DOMAIN ConfigFiles[path] /\ ~args[n].set
    IN [n \in Names |-> IF given(n) THEN Set(args[n], n, ConfigFiles[path][n]) ELSE args[n]]

Exception(args) == \E n \in Names : args[n].value = "exception"

Defaults == [n \in Names |-> [value |-> Definition[n].default, set |-> FALSE, calls |-> 0]]

\* Every word of the command line in turn, up to an exception.
ReadLine(argv) ==
    LET read(args, i) == IF Exception(args) THEN args ELSE ReadWord(args, argv, i)
    IN FoldLeftDomain(read, Defaults, argv)

\* --help ends the program before anything is set, an exception does at once.
ParseArguments(argv) ==
    LET line == ReadLine(argv)
    IN CASE \E i \in DOMAIN argv : argv[i] \in {"--help", "-h"} -> [end |-> "help", args |-> Defaults]
         [] Exception(line) -> [end |-> "exception", args |-> line]
         [] OTHER -> LET args == ReadConfig(line)
                     IN [end |-> IF Exception(args) THEN "exception" ELSE "run", args |-> args]
=============================================================================
