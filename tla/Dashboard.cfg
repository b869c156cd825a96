\* Two runs of one tool that leaves a helper on its stderr: the second run can
\* supersede the first in every phase, and a Stop can reach either in any phase.
CONSTANTS
    r1 = r1  r2 = r2  bunyan = bunyan  NoRun = NoRun
    Runs = {r1, r2}
    Tools <- BunyanTool
    ToolOf <- BunyanRuns
    Lingering <- BunyanTool
    PipeCap = 1
SPECIFICATION Spec
CHECK_DEADLOCK FALSE
INVARIANTS TypeOK NoOrphan SlotIsLive DoneIsLast
PROPERTIES SlotHandover StopEndsRun ImplementsToolRuns
