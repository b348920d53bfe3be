CONSTANTS
    h1 = h1
    h2 = h2
    g1 = g1
    s1 = s1
    s2 = s2
    x1 = x1
    o1 = o1
    o2 = o2
    m1 = m1
    m2 = m2
    r1 = r1
    z1 = z1
    None = None
    Requests <- GoRequests
    Kind <- GoKind
    VenueRequests <- ToVenue
    VenueKind <- KindToVenue
SPECIFICATION MCSpec
PROPERTIES
    ServesOneAtATime
    HandlersAreAtomic
    EveryGoRequestAnswered
    EveryQueuedRequestSettles
CHECK_DEADLOCK FALSE
