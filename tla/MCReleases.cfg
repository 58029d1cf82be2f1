SPECIFICATION Spec
CONSTANTS
    Admins = {a1, a2}
    Readers = {r1}
    Channels = {stable, beta}
    Stable = stable
    Archs = {universal}
    Universal = universal
    Roots = {platform}
    Versions = {1, 2}
    MaxUploads = 2
    MaxPublishes = 2
    MaxReads = 1
    MaxTime = 2
    MaxFaults = 1
INVARIANTS
    TypeOK
    LatestIsThePublished
    AcceptedKeepsItsFile
    ManifestsFollowPublish
    OfferIsBestPublished
CHECK_DEADLOCK FALSE
SYMMETRY Symmetry
