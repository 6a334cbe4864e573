SPECIFICATION FairSpec
CONSTANTS
    home = home
    images = images
    log = log
    doc = doc
    db = db
    blob = blob
    Files = {log, doc, db, blob}
    Dirs = {home, images}
    DirOf <- MCDirOf
    Mounts <- MCMounts
    MountOf <- MCMountOf
    Above <- MCAbove
    Ext <- MCExt
    Prefixes = {"/proc", "/vault"}
    Extensions = {"img"}
    Traits <- MCTraits
    NoFile = NoFile
    WATCHABLE_FS_TYPES = {"ext4"}
    SKIP_MOUNT_PREFIXES = {"/proc"}
    MAX_QUEUED_EVENTS = 1
    BOUNDED_MAP_CAP = 1
    SWEEP_YIELD_AT = 1
    SWEEP_FLUSH_BATCH = 2
    MaxCalls = 4
INVARIANTS
    NoWriteForgotten
    StatusTellsOfSweep
    OncePerCooldown
PROPERTIES
    EveryWriteIsScanned
CHECK_DEADLOCK FALSE
