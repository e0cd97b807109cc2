-------------------------------- MODULE CommandLine --------------------------------
(***************************************************************************)
(* How a command reaches a Windows process: an argument list becomes one   *)
(* command line (execution/backends/windows_plan.py), which the process    *)
(* splits again, and its exit code is read back as a signed number.        *)
(* Windows' part of it is external.                                        *)
(*                                                                         *)
(* A character is one of "\\", "q" (the double quote), " " and others.     *)
(***************************************************************************)
EXTENDS Integers, Sequences

CONSTANTS
    Programs,    \* what argv may begin with
    Arguments,   \* what may follow
    MaxArguments,
    Half         \* an exit code has 2 * Half values

VARIABLES argv, line, received, raw, exit

vars == <<argv, line, received, raw, exit>>

NotYet == <<"not yet">>

(* build_windows_plan: an argument list as it is, or the shell with its    *)
(* flags, of which one stands for all, and the script.                     *)
Exec(program, args) == <<program>> \o args
PowerShell(shell, script) == <<shell, <<"-">>, script>>

Lists == UNION {[1..n -> Arguments] : n \in 0..MaxArguments}
Argvs ==
    {Exec(p, args) : p \in Programs, args \in Lists} \cup
    {PowerShell(p, script) : p \in Programs, script \in Arguments \ {<<>>}}

Init ==
    /\ argv \in Argvs
    /\ line = NotYet /\ received = <<NotYet>> /\ raw = 0 /\ exit = 0

Times(c, n) == [i \in 1..n |-> c]
Blank == {" ", "\t"}

----------------------------------------------------------------------------
(* quote_argument: backslashes are doubled before a quote, and before the  *)
(* closing one.                                                            *)
Plain(argument) == argument # <<>> /\ \A i \in DOMAIN argument : argument[i] \notin Blank \cup {"q"}

MutantCharacter(state, c) ==
    IF c = "\\" THEN [state EXCEPT !.slashes = @ + 1]
    ELSE [quoted |-> state.quoted \o Times("\\", state.slashes + IF c = "q" THEN 1 ELSE 0) \o <<c>>,
          slashes |-> 0]
Character(state, c) ==
    IF c = "\\" THEN [state EXCEPT !.slashes = @ + 1]
    ELSE [quoted |-> state.quoted \o
                        Times("\\", IF c = "q" THEN 2 * state.slashes + 1 ELSE state.slashes) \o <<c>>,
          slashes |-> 0]

MutantClosing(state) == state.quoted \o Times("\\", state.slashes) \o <<"q">>
Closing(state) == state.quoted \o Times("\\", 2 * state.slashes) \o <<"q">>

Quoted(argument) ==
    LET after[i \in 0..Len(argument)] ==
            IF i = 0 THEN [quoted |-> <<"q">>, slashes |-> 0]
            ELSE Character(after[i - 1], argument[i])
    IN  IF Plain(argument) THEN argument ELSE Closing(after[Len(argument)])

(* build_command_line                                                      *)
CommandLine(args) ==
    LET joined[i \in 1..Len(args)] ==
            IF i = 1 THEN Quoted(args[1]) ELSE joined[i - 1] \o <<" ">> \o Quoted(args[i])
    IN  joined[Len(args)]

Build ==
    /\ line = NotYet /\ line' = CommandLine(argv)
    /\ UNCHANGED <<argv, received, raw, exit>>

----------------------------------------------------------------------------
(* How a process splits its command line: an even number of backslashes    *)
(* before a quote is half as many, and the quote opens or closes; an odd   *)
(* number ends in a quote that is meant.  Its name has no escapes.         *)
Start0 == [done |-> <<>>, current |-> <<>>, slashes |-> 0, open |-> FALSE, any |-> FALSE]

Ended(s) ==
    IF s.any THEN [Start0 EXCEPT !.done = Append(s.done, s.current \o Times("\\", s.slashes))] ELSE s

Splits(s, c) ==
    IF c = "\\" /\ s.done # <<>> THEN [s EXCEPT !.slashes = @ + 1, !.any = TRUE]
    ELSE IF c = "q"
    THEN [s EXCEPT !.slashes = 0, !.any = TRUE,
                   !.open = IF s.slashes % 2 = 1 THEN @ ELSE ~@,
                   !.current = @ \o Times("\\", s.slashes \div 2)
                                 \o (IF s.slashes % 2 = 1 THEN <<"q">> ELSE <<>>)]
    ELSE IF c \in Blank /\ ~s.open THEN Ended(s)
    ELSE [s EXCEPT !.slashes = 0, !.any = TRUE, !.current = @ \o Times("\\", s.slashes) \o <<c>>]

Parts(text) ==
    LET after[i \in 0..Len(text)] ==
            IF i = 0 THEN Start0 ELSE Splits(after[i - 1], text[i])
    IN  Ended(after[Len(text)]).done

Split ==
    /\ line # NotYet /\ received = <<NotYet>>
    /\ received' = Parts(line)
    /\ UNCHANGED <<argv, line, raw, exit>>

----------------------------------------------------------------------------
(* The process ends with a code, which GetExitCodeProcess tells unsigned.  *)
Ends ==
    /\ received # <<NotYet>> /\ raw = 0 /\ exit = 0
    /\ \E code \in -Half..(Half - 1) : raw' = code % (2 * Half) /\ exit' = code
    /\ UNCHANGED <<argv, line, received>>

(* normalize_exit_code                                                     *)
MutantNormalized(code) == IF code > Half THEN code - 2 * Half ELSE code
Normalized(code) == IF code >= Half THEN code - 2 * Half ELSE code

Next == Build \/ Split \/ Ends
Spec == Init /\ [][Next]_vars

----------------------------------------------------------------------------
(* The process gets the arguments it was meant to get, however many quotes *)
(* and backslashes they have, and the code it ends with is the one that is *)
(* reported (docs/ARCHITECTURE.md:1698-1703: "quoting always round-trips").  *)
CommandsArriveWhole ==
    /\ received # <<NotYet>> => received = argv
    /\ Normalized(raw) = exit
=============================================================================
