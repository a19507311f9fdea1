----------------------------- MODULE LineEditor -----------------------------
(***************************************************************************)
(* What Shell_GetCommand promises to the user of the console: a line of    *)
(* text with a cursor, one line of history and completion of commands.     *)
(***************************************************************************)
EXTENDS Naturals, Sequences, SequencesExt

CONSTANTS
    Typed,      \* the characters that can be typed
    NUL,        \* the one that ends a string
    Size,       \* SHELL_CMD_SIZE: a line this long is dropped
    Commands    \* the names in gsShellCommands, in their order

VARIABLES
    text, at,   \* the line, and how many of its characters are left of the
                \* cursor
    past,       \* the last command that was not empty, as a string
    result      \* the command returned, or <<>> while editing

editorVars == <<text, at, past, result>>

Edit(t, a) == text' = t /\ at' = a /\ UNCHANGED <<past, result>>

EdType(c) ==
    IF Len(text) + 1 < Size THEN Edit(InsertAt(text, at + 1, c), at + 1)
    ELSE Edit(<<>>, 0)

EdErase == at > 0 /\ Edit(RemoveAt(text, at), at - 1)
EdLeft == at > 0 /\ Edit(text, at - 1)
EdRight == at < Len(text) /\ Edit(text, at + 1)
EdRecall == Edit(past, Len(past))
EdClear == Edit(<<>>, 0)

\* A line as those who take it for a string see it.
Word(t) ==
    LET n == SelectInSeq(t, LAMBDA c : c = NUL)
    IN  IF n = 0 THEN t ELSE SubSeq(t, 1, n - 1)

\* The first command that begins with the line, or that the line, ended by a
\* NUL, names; and a blank.
EdComplete ==
    /\ text # <<>>
    /\ LET Fits(c) == IF Word(text) = text THEN IsPrefix(text, c)
                                           ELSE Word(text) = c
           fit == SelectSeq(Commands, Fits)
           t == IF fit = <<>> THEN text ELSE Append(Head(fit), " ")
       IN  Edit(t, Len(t))

EdReturn(t) ==
    /\ text' = t /\ at' = Len(t)
    /\ past' = IF t = <<>> THEN past ELSE Word(t)
    /\ result' = t

\* A tab on the empty line asks for help, the first command.
EdEnter == EdReturn(text) \/ (text = <<>> /\ EdReturn(Commands[1]))

EdPrompt ==
    /\ text' = <<>> /\ at' = 0
    /\ result' = <<>>
    /\ UNCHANGED past

EditorInit == text = <<>> /\ at = 0 /\ past = <<>> /\ result = <<>>

EditorNext ==
    \/ \E c \in Typed : EdType(c)
    \/ EdErase \/ EdLeft \/ EdRight \/ EdRecall \/ EdClear \/ EdComplete
    \/ EdEnter \/ EdPrompt

EditorSpec == EditorInit /\ [][EditorNext]_editorVars
=============================================================================
