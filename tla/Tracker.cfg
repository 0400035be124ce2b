CONSTANTS
    t1 = t1
    t2 = t2
    p1 = p1
    p2 = p2
    v1 = v1
    Tabs = {t1, t2}
    Products = {p1, p2}
    Variations = {v1}
    Variable = {p2}
    None = None
    Shops <- AllShops
    MaxLoads = 2
SPECIFICATION Spec
CHECK_DEADLOCK FALSE
INVARIANTS TypeOK OneIdPerAttempt NoStaleId OnePageWaits FallbackCovers AddOnce OneLossPerAnswer SurfaceHasCheck ViewHasTimer
