SPECIFICATION FilesSpec
CONSTANTS
    Names <- MCNames
    Volume <- MCVolume
    MaxUnits = 2
    MaxDentries = 6
    MaxMounts = 4
    MAX_FDS = 1
    BlockSize = 4
    NDir = 2
    PerBlock = 2
    Chunks = {2, 4, 8, 16}
    MaxSize = 52
    MAX_ARG_LEN = 4
    APP_HIST_DEPTH = 4
    Letters = {1, 2}
    BuiltIn <- MCBuiltIn
    Exe <- MCExe
    MaxLines = 3
    MaxKeys = 9
    SECT = 2
    WORD = 32
    Capacity = 20
    MMC_CMD_RETRIES = 3
    Starts = {3, 14}
    Sects = {0, 4}
    MaxLost = 2
CHECK_DEADLOCK FALSE
INVARIANTS VfsTypeOK CwdRoundTrip ListingComplete FileLoaded CardUsable ScreenShowsLine HistoryKept
PROPERTY NamesStable
