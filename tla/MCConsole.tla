----------------------------- MODULE MCConsole ------------------------------
(* Small instances of the console's parts: the line editor of the shell with *)
(* the terminal that shows it, the cutting of a line into arguments and the  *)
(* conversions of xprintf; and of the checksums, which are as little tied to *)
(* the rest.  Each behaviour is one of one of them, while the variables of   *)
(* the others stand still.                                                   *)
EXTENDS ShellScreen

VARIABLES
    part,       \* "shell", "args", "print" or "sums"
    \* The variables of ShellArgs,
    input, buf, pos, argv, cutting, looked,
    \* those of Xprintf,
    seq, arg, val, digits, idx, num, signed, converting, written,
    \* and those of Checksums.
    msg, value, ui16Crc

\* The letter "C" also ends the escape sequence of the right key.
TwoCommands == <<<<"h", "C">>, <<"C">>>>

Args == INSTANCE ShellArgs WITH MaxLength <- 6, ArgMax <- 2, pc <- cutting

\* Words of eight bits and a buffer of four characters, too short for most.
Format == INSTANCE Xprintf WITH
    Bits <- 8, Size <- 4, Widths <- {0, 2, 5}, Lengths <- {0, 1, 3, 6},
    v <- val, s <- digits, i <- idx, j <- num, pc <- converting,
    out <- written

\* Bytes such that each bit is 0 and each bit is 1 in some of them.
SomeBytes == {{}, {0, 2, 4, 6}, {7}, 0 .. 7}

Sums == INSTANCE Checksums WITH MaxLength <- 4, Later <- SomeBytes

ASSUME Instances ==
    Args!ArgsConstants /\ Format!XprintfConstants /\ Sums!ChecksumConstants

args == <<input, buf, pos, argv, cutting, looked>>
print == <<seq, arg, val, digits, idx, num, signed, converting, written>>
sums == <<msg, value, ui16Crc>>

\* The variables of the other parts where they stand still.
ArgsOff ==
    /\ input = <<>> /\ buf = <<>> /\ pos = 0 /\ argv = <<>>
    /\ cutting = "off" /\ looked = "no"

PrintOff ==
    /\ seq = 0 /\ arg = 0 /\ val = 0 /\ digits = <<>> /\ idx = 0 /\ num = 0
    /\ signed = FALSE /\ converting = "off" /\ written = <<>>

MCInit ==
    /\ ScreenInit /\ Sums!Init
    /\ \/ part \in {"shell", "sums"} /\ ArgsOff /\ PrintOff
       \/ part = "args" /\ Args!Init /\ PrintOff
       \/ part = "print" /\ ArgsOff /\ Format!Init

MCNext ==
    \/ part = "shell" /\ ScreenNext /\ UNCHANGED <<part, args, print, sums>>
    \/ part = "args" /\ Args!Next /\ UNCHANGED <<part, screenVars, print, sums>>
    \/ part = "print" /\ Format!Next /\ UNCHANGED <<part, screenVars, args, sums>>
    \/ part = "sums" /\ Sums!Next /\ UNCHANGED <<part, screenVars, args, print>>

MCSpec ==
    /\ MCInit /\ [][MCNext]_<<part, screenVars, args, print, sums>>
    /\ WF_args(part = "args" /\ Args!Next)

-----------------------------------------------------------------------------
(* Properties; that the shell is a line editor is its own.                   *)

\* No index of the shell leaves its line, and the terminal shows the line that
\* will be executed, with characters of older lines behind it in the buffer,
\* unless a key was pressed that leads the display astray (Strays): in the
\* middle of a line with such characters behind it a character is one.
TerminalShowsLine == TypeOK /\ ScreenShowsLine

\* No pointer leaves the line that is cut, no argument the array, and the
\* strings the pointers show are the arguments of the line as typed.
ArgumentsAreThose == part = "args" => Args!TypeOK /\ Args!ArgumentsFound

\* Every line is cut, although the loops advance in different ways.
CuttingEnds == (part = "args") ~> (cutting = "done")

\* The index of xprintf never leaves its buffer, the sign included, and what
\* it writes is the numeral or the string, filled up to its width.
NumeralIsRight == part = "print" => Format!BufferFits /\ Format!Converted

\* CRC_Calc and YmodemCrc16 are divisions by their polynomials, the first one
\* short of the complement at its end.
ChecksumsAreRight == part = "sums" => Sums!ChecksumsAreRemainders
=============================================================================
