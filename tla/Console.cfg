SPECIFICATION MCSpec
CONSTANTS
    Bytes = {"ESC", "[", "A", "B", "C", "D", "h", "NUL", "TAB", "BS", "CR"}
    Letters = {"C", "h", "NUL"}
    Size = 4
    Commands <- TwoCommands
    Margin = 2
    Columns = 8
INVARIANTS TerminalShowsLine ArgumentsAreThose NumeralIsRight ChecksumsAreRight
PROPERTIES ImplementsEditor CuttingEnds
