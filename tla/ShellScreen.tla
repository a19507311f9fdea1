---------------------------- MODULE ShellScreen -----------------------------
(***************************************************************************)
(* Shell together with the terminal that shows what it prints.  Columns    *)
(* are counted from the end of the prompt, whose columns are negative.     *)
(* There are keys after which what is shown is no longer the line, since   *)
(* the shell does not reckon with the place of the terminal's cursor or    *)
(* with what lies behind the line: they are told apart here, and the       *)
(* display is followed up to the first of them.                            *)
(***************************************************************************)
EXTENDS Shell, Integers

CONSTANTS
    Margin,     \* columns of the prompt
    Columns     \* columns behind it

VARIABLES
    screen,     \* what the columns show
    col,        \* the column of the terminal's cursor
    strayed     \* one of those keys was pressed since the prompt

screenVars == <<vars, screen, col, strayed>>

Row == -Margin .. Columns - 1

Blank == [c \in Row |-> IF c < 0 THEN ">" ELSE " "]

\* A backspace moves the cursor only, and a NUL does nothing; in the last
\* column a character stays.
Displayed(t, b) ==
    IF b = NUL THEN t
    ELSE IF b = BS THEN [t EXCEPT !.col = IF @ > -Margin THEN @ - 1 ELSE @]
    ELSE [screen |-> [t.screen EXCEPT ![t.col] = b],
          col |-> IF t.col < Columns - 1 THEN t.col + 1 ELSE t.col]

\* Key b leads the display astray: up, down and tab take the cursor to be at
\* the end of the line, a full line begins again without a word, a NUL takes
\* no column, and a character put into the line is printed together with
\* what out-of-date characters follow the line.
Strays(b) ==
    \/ cur < len /\ (b = TAB \/ (key = "func" /\ b \in {"A", "B"}))
    \/ /\ Normal(b)
       /\ \/ b = NUL
          \/ Full(len + 1)
          \/ cur < len /\ StringAt(line, len + 1) # <<>>

\* The prompt begins a row of its own.
Display ==
    LET t == IF strayed' \/ pc' = "run" THEN [screen |-> Blank, col |-> 0]
             ELSE FoldLeft(Displayed, [screen |-> screen, col |-> col], out')
    IN  screen' = t.screen /\ col' = t.col

ScreenInit == Init /\ screen = Blank /\ col = 0 /\ strayed = FALSE

ScreenNext ==
    /\ \/ \E b \in Bytes :
            /\ GetCharacter(b)
            /\ strayed' = (pc' = "edit" /\ (strayed \/ Strays(b)))
       \/ Prompt /\ UNCHANGED strayed
    /\ Display

ScreenSpec == ScreenInit /\ [][ScreenNext]_screenVars

-----------------------------------------------------------------------------
(* Properties.                                                              *)

\* The user of the console sees the line as it will be returned, nothing
\* behind it, the prompt before it, and the cursor at its place, although
\* characters of older and longer lines may follow the line in the buffer;
\* until one of the keys above is pressed.
ScreenShowsLine ==
    pc = "edit" /\ ~strayed =>
        /\ col = cur
        /\ \A c \in Row : screen[c] = CASE c < 0 -> ">"
                                        [] c \in 0 .. len - 1 -> line[c]
                                        [] OTHER -> " "
=============================================================================
