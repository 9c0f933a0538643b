\* Every pair of ratings two new accounts can reach, up to a lead of 600.
SPECIFICATION RivalsSpec
CONSTANTS
    Start = 1200
    Spread = 600
INVARIANTS
    EloZeroSum
    WinFollowsFormula
