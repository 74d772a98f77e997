SPECIFICATION TimelySpec
CONSTANTS
    a = a  b = b
    u1 = u1  u2 = u2  u3 = u3
    p1 = p1  p2 = p2
    d1 = d1  d2 = d2
    Uploads = {u1, u2, u3}
    Sha = {a}
    Paths = {p1, p2}
    Shards = {d1}
    ShardOf <- OneShard
    Content <- SameBytes
    Target <- TwoPaths
    NoSha = NoSha
    NoUpload = NoUpload
    MaxCrashes = 1
INVARIANTS
    TypeOK
    FreshReferenceIsBacked
    RenameNeverOverwrites
