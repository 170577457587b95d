SPECIFICATION FairSpec
CONSTANTS
    p = p
    q = q
    f1 = f1
    f2 = f2
    Packets = {p, q}
    Fields = {f1, f2}
    Gens = 4
    Attempts = 2
    During <- OneDuring
    Empty = p
    None = None
PROPERTIES CopyWasCurrent LatestIsShown
