\* Stop while the tool's helper is up.
CONSTANTS
    r1 = r1  r2 = r2  bunyan = bunyan  NoRun = NoRun
    Runs = {r1, r2}
    Tools <- BunyanTool
    ToolOf <- BunyanRuns
    Lingering <- BunyanTool
    PipeCap = 1
SPECIFICATION Spec
CHECK_DEADLOCK FALSE
PROPERTIES StoppedStreamEnds
