----------------------------- MODULE ShellArgs ------------------------------
(***************************************************************************)
(* Shell_SplitCommand and Shell_HandleCommand (libs/xshell.c): the command *)
(* line is cut into arguments in place, by writing terminators into it and *)
(* keeping pointers, and argument 0 is looked up among the commands.       *)
(* A character is "a" (one of no meaning), a blank, a quote, a backslash   *)
(* or the terminator; blanks and tabs are treated alike by the code.       *)
(***************************************************************************)
EXTENDS Naturals, Sequences, SequencesExt, FiniteSetsExt

CONSTANTS
    MaxLength,  \* bound: characters of a command line
    ArgMax      \* SHELL_ARG_MAX

ArgsConstants == MaxLength \in Nat /\ ArgMax \in Nat \ {0}

Blank == " "
Quote == "quote"
Slash == "slash"
NUL == "NUL"
Chars == {"a", Blank, Quote, Slash}

VARIABLES
    input,      \* the line before it was cut
    buf,        \* pszData and the terminator the caller wrote behind it
    pos,        \* ui32Position; pszPtr is &pszData[pos] throughout
    argv,       \* apszArgv: positions in buf, as many as ui8Argc
    pc,         \* which loop runs
    looked      \* whether strcmp was called, and with a pointer that was set

vars == <<input, buf, pos, argv, pc, looked>>

Length == Len(input)
Char == buf[pos + 1]

Goto(l) == pc' = l

Advance(n) == pos' = pos + n

\* The strip loop takes one blank.
Strip ==
    /\ pc = "strip" /\ Char = Blank /\ pos < Length
    /\ buf' = [buf EXCEPT ![pos + 1] = NUL]
    /\ Advance(1)
    /\ UNCHANGED <<input, argv, pc, looked>>

\* Faulty StripEnds: an argument more than there is room for.
StripEndsLater ==
    /\ pc = "strip" /\ ~(Char = Blank /\ pos < Length)
    /\ Goto(CASE Len(argv) > ArgMax \/ pos >= Length -> "lookup"
              [] Char = Quote -> "quote"
              [] OTHER -> "word")
    /\ UNCHANGED <<input, buf, pos, argv, looked>>

\* It ends: with enough arguments, at the end of the line, or at the first
\* character of an argument.
StripEnds ==
    /\ pc = "strip" /\ ~(Char = Blank /\ pos < Length)
    /\ Goto(CASE Len(argv) >= ArgMax \/ pos >= Length -> "lookup"
              [] Char = Quote -> "quote"
              [] OTHER -> "word")
    /\ UNCHANGED <<input, buf, pos, argv, looked>>

BeginString ==
    /\ pc = "quote"
    /\ argv' = Append(argv, pos + 1)
    /\ Advance(1)
    /\ Goto("string")
    /\ UNCHANGED <<input, buf, looked>>

\* Faulty InString: a quote ends the string whatever is before it.
InStringPlain ==
    /\ pc = "string" /\ Char # Quote /\ pos < Length
    /\ Advance(1)
    /\ UNCHANGED <<input, buf, argv, pc, looked>>

\* Faulty InString: a backslash before anything else is not passed.
InStringStuck ==
    /\ pc = "string" /\ Char # Quote /\ pos < Length
    /\ Advance(IF Char # Slash THEN 1 ELSE IF buf[pos + 2] = Quote THEN 2 ELSE 0)
    /\ UNCHANGED <<input, buf, argv, pc, looked>>

\* A backslash takes the quote behind it along.
InString ==
    /\ pc = "string" /\ Char # Quote /\ pos < Length
    /\ Advance(IF Char = Slash /\ buf[pos + 2] = Quote THEN 2 ELSE 1)
    /\ UNCHANGED <<input, buf, argv, pc, looked>>

\* The quote is overwritten; a string without one ends with the line.
EndString ==
    /\ pc = "string" /\ ~(Char # Quote /\ pos < Length)
    /\ IF pos >= Length THEN Goto("lookup") /\ UNCHANGED <<buf, pos>>
       ELSE /\ buf' = [buf EXCEPT ![pos + 1] = NUL]
            /\ Advance(1)
            /\ Goto(IF pos + 1 < Length THEN "strip" ELSE "lookup")
    /\ UNCHANGED <<input, argv, looked>>

BeginWord ==
    /\ pc = "word"
    /\ argv' = Append(argv, pos)
    /\ Goto("inword")
    /\ UNCHANGED <<input, buf, pos, looked>>

InWord ==
    /\ pc = "inword" /\ Char # Blank /\ pos < Length
    /\ Advance(1)
    /\ UNCHANGED <<input, buf, argv, pc, looked>>

EndWord ==
    /\ pc = "inword" /\ ~(Char # Blank /\ pos < Length)
    /\ Goto(IF pos >= Length THEN "lookup" ELSE "strip")
    /\ UNCHANGED <<input, buf, pos, argv, looked>>

\* Shell_HandleCommand compares apszArgv[0] with the commands without a look
\* at the number of arguments.
Lookup ==
    /\ pc = "lookup"
    /\ looked' = IF argv # <<>> THEN "set" ELSE "unset"
    /\ Goto("done")
    /\ UNCHANGED <<input, buf, pos, argv>>

Done == pc = "done" /\ UNCHANGED vars

\* A line shorter than one character is not handled.
Init ==
    /\ input \in UNION {[1 .. n -> Chars] : n \in 1 .. MaxLength}
    /\ buf = Append(input, NUL)
    /\ pos = 0 /\ argv = <<>>
    /\ pc = "strip" /\ looked = "no"

Next ==
    \/ Strip \/ StripEnds \/ BeginString \/ InString \/ EndString
    \/ BeginWord \/ InWord \/ EndWord \/ Lookup \/ Done

Spec == Init /\ [][Next]_vars /\ WF_vars(Next)

-----------------------------------------------------------------------------
(* The arguments of a line, by a grammar.                                   *)

\* The number of characters before the first one that satisfies P(i), or all.
Before(s, P(_)) ==
    LET hits == {i \in 1 .. Len(s) : P(i)}
    IN  IF hits = {} THEN Len(s) ELSE Min(hits) - 1

\* A quote ends a string unless a backslash that is not itself skipped
\* stands before it: backslashes do not escape each other.
EndsString(s, i) == s[i] = Quote /\ (i = 1 \/ s[i - 1] # Slash)

RECURSIVE Arguments(_)
Arguments(s) ==
    IF s = <<>> THEN <<>>
    ELSE IF Head(s) = Blank THEN Arguments(Tail(s))
    ELSE LET quoted == Head(s) = Quote
             t == IF quoted THEN Tail(s) ELSE s
             Ends(i) == IF quoted THEN EndsString(t, i) ELSE t[i] = Blank
             n == Before(t, Ends)
         IN  <<SubSeq(t, 1, n)>> \o Arguments(SubSeq(t, n + 2, Len(t)))

StringAt(b, p) ==
    LET n == Before(b, LAMBDA i : i > p /\ b[i] = NUL)
    IN  SubSeq(b, p + 1, n)

-----------------------------------------------------------------------------
(* Properties.                                                              *)

\* No pointer leaves the line and its terminator, and no argument the array.
TypeOK ==
    /\ pos \in 0 .. Length
    /\ Len(buf) = Length + 1 /\ buf[Length + 1] = NUL
    /\ argv \in Seq(0 .. Length) /\ Len(argv) <= ArgMax

\* The strings the pointers show in the cut line are the arguments of the
\* line as it was typed, the first ArgMax of them: each pointer sees its own
\* argument, ended by a terminator that was written later.
ArgumentsFound ==
    pc = "done" =>
        LET all == Arguments(input)
        IN  [i \in 1 .. Len(argv) |-> StringAt(buf, argv[i])]
              = SubSeq(all, 1, IF Len(all) > ArgMax THEN ArgMax ELSE Len(all))

\* Every line is cut, although the loops advance in different ways.
SplitEnds == <>(pc = "done")
=============================================================================
