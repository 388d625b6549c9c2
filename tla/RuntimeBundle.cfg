SPECIFICATION BundleSpec
CONSTANTS
    norm = norm
    embed = embed
    extra = extra
    o1 = o1
    o2 = o2
    w = w
    s = s
    sh1 = sh1
    sh2 = sh2
    old = old
    MTP = MTP
    Nothing = Nothing
    Runs = {1, 2}
    Pids = {"p1", "p2"}
    Outputs = {o1, o2}
    Shards = {sh1, sh2, old}
    Core = {norm, embed, extra}
    SegSeq <- MCSegSeq
    Size <- MCSize
    NE = 2
    Sources <- MCSources
INVARIANTS
    OutputWhole
    NothingLost
CHECK_DEADLOCK FALSE
