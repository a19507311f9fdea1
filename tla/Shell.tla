------------------------------- MODULE Shell --------------------------------
(***************************************************************************)
(* Shell_GetCommand (libs/xshell.c): line editing in a buffer of           *)
(* SHELL_CMD_SIZE characters, byte by byte as the UART delivers them.  A   *)
(* character counted by the line is followed by a terminator only where    *)
(* the code writes one: out-of-date characters may lie behind the line.    *)
(* The variable out is what the last step printed; ShellScreen displays    *)
(* it.  Names of keys stand for their bytes.                               *)
(***************************************************************************)
EXTENDS Naturals, Sequences, SequencesExt

CONSTANTS
    Bytes,      \* what the UART delivers
    Letters,    \* those that arrive outside of an escape sequence; NUL may
                \* be one of them
    Size,       \* SHELL_CMD_SIZE
    Commands    \* the names in gsShellCommands; the first is "help"

NUL == "NUL"
ESC == "ESC"
TAB == "TAB"
BS == "BS"
CR == "CR"

ASSUME ShellConstants ==
    /\ Letters \subseteq Bytes \ {ESC, TAB, BS, CR}
    /\ Size \in Nat /\ Size > 1
    /\ Commands \in Seq(Seq(Letters \ {NUL})) /\ Commands # <<>>
    /\ \A i \in 1 .. Len(Commands) : Len(Commands[i]) \in 1 .. Size - 2

VARIABLES
    line,       \* aszLine
    len,        \* ui16LinePosition
    cur,        \* ui16LineCurrentPosition
    key,        \* eKeyState
    history,    \* the string in maszShellLineHistory
    pc,         \* "edit", or "run" while the caller handles the command
    command,    \* what was copied to the caller
    out         \* printed by the last step

vars == <<line, len, cur, key, history, pc, command, out>>

Cells == 0 .. Size - 1

\* The string at position i.  A line without a terminator is followed by
\* eKeyState, which is eWaitIdle, and so 0, whenever the line is printed.
RECURSIVE StringAt(_, _)
StringAt(b, i) ==
    IF i \notin Cells \/ b[i] = NUL THEN <<>>
    ELSE <<b[i]>> \o StringAt(b, i + 1)

\* Buffer b after s was stored from position i.
Stored(b, i, s) ==
    [k \in Cells |-> IF k \in i .. i + Len(s) - 1 THEN s[k - i + 1] ELSE b[k]]

Copied(b, i, s) == Stored(b, i, Append(s, NUL))     \* strcpy

Back(n) == [i \in 1 .. n |-> BS]
Wipe(n) == [i \in 1 .. 3 * n |-> IF i % 3 = 2 THEN " " ELSE BS]

Position(n, c) == len' = n /\ cur' = c

Editing == UNCHANGED <<history, pc, command>>

-----------------------------------------------------------------------------
(* Escape sequences.                                                        *)

Escape(b) ==
    /\ b = ESC
    /\ key' = "spec"
    /\ out' = <<>>
    /\ UNCHANGED <<line, len, cur>> /\ Editing

Bracket(b) ==
    /\ key = "spec" /\ b = "["
    /\ key' = "func"
    /\ out' = <<>>
    /\ UNCHANGED <<line, len, cur>> /\ Editing

Function(b, c) == key = "func" /\ b = c /\ key' = "idle" /\ Editing

Up(b) ==
    /\ Function(b, "A")
    /\ line' = Copied(line, 0, history)
    /\ Position(Len(history), Len(history))
    /\ out' = Wipe(len) \o history

Down(b) ==
    /\ Function(b, "B")
    /\ Position(0, 0)
    /\ out' = Wipe(len)
    /\ UNCHANGED line

Right(b) ==
    /\ Function(b, "C")
    /\ IF cur < len THEN Position(len, cur + 1) /\ out' = <<line[cur]>>
       ELSE Position(len, cur) /\ out' = <<>>
    /\ UNCHANGED line

\* Faulty Left: the terminal is not told.
LeftQuietly(b) ==
    /\ Function(b, "D")
    /\ Position(len, IF cur > 0 THEN cur - 1 ELSE cur)
    /\ out' = <<>>
    /\ UNCHANGED line

Left(b) ==
    /\ Function(b, "D")
    /\ IF cur > 0 THEN Position(len, cur - 1) /\ out' = Back(1)
       ELSE Position(len, cur) /\ out' = <<>>
    /\ UNCHANGED line

-----------------------------------------------------------------------------
(* Every other byte is a key of its own, and ends an escape sequence.       *)

InSequence(b) ==
    \/ b = ESC
    \/ key = "spec" /\ b = "["
    \/ key = "func" /\ b \in {"A", "B", "C", "D"}

Plain(b) == ~InSequence(b) /\ key' = "idle"

\* Faulty Full: one character too late.
FullLater(n) == n > Size

Full(n) == n >= Size

Text == [i \in 1 .. len |-> line[i - 1]]

\* strncmp of the len characters of the line with the name of a command: a
\* NUL in the line ends the comparison if the name ends there too.
Matches(c) ==
    IF NUL \in Range(Text) THEN StringAt(line, 0) = c ELSE IsPrefix(Text, c)

\* The characters of name c from its position len on.  Behind the terminator,
\* where a NUL in the line leads, lies what the linker put there: at most one
\* character of it that fits into the line, in this model.
Rest(c) ==
    IF len <= Len(c) THEN {SubSeq(c, len + 1, Len(c))}
    ELSE {<<>>} \cup {<<x>> : x \in IF Full(len + 1) THEN {} ELSE Letters \ {NUL}}

\* Shell_AutoComplete: the rest of the first command that matches, and a
\* blank in the place of its terminator.
Complete(b) ==
    /\ Plain(b) /\ b = TAB /\ len > 0
    /\ LET fit == SelectSeq(Commands, Matches)
           c == Head(fit)
       IN  \/ /\ fit = <<>>
              /\ Position(len, len) /\ out' = <<>> /\ UNCHANGED line
           \/ /\ fit # <<>>
              /\ \E rest \in Rest(c) :
                    /\ line' = [Copied(line, len, rest) EXCEPT ![Len(c)] = " "]
                    /\ out' = Append(rest, " ")
              /\ Position(Len(c) + 1, Len(c) + 1)
    /\ Editing

\* Faulty Erase: the character behind the shorter line stays.
EraseUnended(b) ==
    /\ Plain(b) /\ b = BS
    /\ IF cur = 0 THEN Position(len, cur) /\ out' = <<>> /\ UNCHANGED line
       ELSE /\ line' = [k \in Cells |-> IF k \in cur - 1 .. len - 2
                                         THEN line[k + 1] ELSE line[k]]
            /\ Position(len - 1, cur - 1)
            /\ out' = IF cur < len
                        THEN Back(1) \o StringAt(line', cur - 1) \o <<" ">>
                             \o Back(len - cur + 1)
                        ELSE Wipe(1)
    /\ Editing

\* The backspace key.
Erase(b) ==
    /\ Plain(b) /\ b = BS
    /\ IF cur = 0 THEN Position(len, cur) /\ out' = <<>> /\ UNCHANGED line
       ELSE /\ line' = [k \in Cells |->
                          CASE k = len - 1 -> NUL
                            [] k \in cur - 1 .. len - 2 -> line[k + 1]
                            [] OTHER -> line[k]]
            /\ Position(len - 1, cur - 1)
            /\ out' = IF cur < len
                        THEN Back(1) \o StringAt(line', cur - 1) \o <<" ">>
                             \o Back(len - cur + 1)
                        ELSE Wipe(1)
    /\ Editing

Normal(b) == ~InSequence(b) /\ b \notin {TAB, BS, CR}

\* A normal character, and NUL is one.  It does not end the string: that is
\* what the zeros of the buffer are for.  A full line starts again at the
\* beginning.
Insert(b) ==
    /\ Normal(b) /\ Plain(b)
    /\ line' = [k \in Cells |->
                  CASE k = cur -> b
                    [] k \in cur + 1 .. len -> line[k - 1]
                    [] OTHER -> line[k]]
    /\ out' = IF cur < len THEN StringAt(line', cur) \o Back(len - cur)
              ELSE <<b>>
    /\ IF Full(len + 1) THEN Position(0, 0) ELSE Position(len + 1, cur + 1)
    /\ Editing

-----------------------------------------------------------------------------
(* The end of the line.                                                     *)

\* Line l of n characters is remembered up to its first NUL, and copied to
\* the caller with those it has.
Return(l, n) ==
    /\ line' = l
    /\ Position(n, n)
    /\ history' = IF n > 0 THEN StringAt(l, 0) ELSE history
    /\ command' = [i \in 1 .. n |-> l[i - 1]]
    /\ pc' = "run"
    /\ out' = <<CR>>

\* A tab on the empty line is the command "help".
Help(b) ==
    /\ Plain(b) /\ b = TAB /\ len = 0
    /\ Return(Copied(line, 0, Commands[1]), Len(Commands[1]))

\* Faulty Enter: the line is not ended.
EnterUnended(b) ==
    /\ Plain(b) /\ b = CR
    /\ Return(line, len)

Enter(b) ==
    /\ Plain(b) /\ b = CR
    /\ Return([line EXCEPT ![len] = NUL], len)

GetCharacter(b) ==
    /\ pc = "edit"
    /\ Normal(b) => b \in Letters
    /\ \/ Escape(b) \/ Bracket(b)
       \/ Up(b) \/ Down(b) \/ Right(b) \/ Left(b)
       \/ Complete(b) \/ Help(b) \/ Erase(b) \/ Enter(b) \/ Insert(b)

\* The command was handled and Shell_GetCommand is called again.
Prompt ==
    /\ pc = "run"
    /\ line' = [k \in Cells |-> NUL]
    /\ Position(0, 0)
    /\ key' = "idle" /\ pc' = "edit" /\ command' = <<>>
    /\ out' = <<>>
    /\ UNCHANGED history

Init ==
    /\ line = [k \in Cells |-> NUL]
    /\ len = 0 /\ cur = 0
    /\ key = "idle"
    /\ history = <<>>
    /\ pc = "edit" /\ command = <<>>
    /\ out = <<>>

Next == (\E b \in Bytes : GetCharacter(b)) \/ Prompt

Spec == Init /\ [][Next]_vars

-----------------------------------------------------------------------------
(* Properties.                                                              *)

\* Both positions stay inside the buffer, with room for the terminator, and
\* the cursor inside the line.
TypeOK ==
    /\ line \in [Cells -> Letters \cup {" ", NUL}]
    /\ history \in Seq((Letters \cup {" "}) \ {NUL}) /\ Len(history) < Size
    /\ len \in Cells /\ cur \in 0 .. len
    /\ key \in {"idle", "spec", "func"}
    /\ pc \in {"edit", "run"}
    /\ command \in Seq(Letters \cup {" "})

Editor == INSTANCE LineEditor WITH
    Typed <- Letters, text <- Text, at <- cur, past <- history,
    result <- command

\* The buffer with its out-of-date characters, lost terminators, NULs that
\* were typed and escape sequences is a line editor: no out-of-date character
\* ever gets into a command or into the history.
ImplementsEditor == Editor!EditorSpec
=============================================================================
