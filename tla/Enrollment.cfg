SPECIFICATION Spec
CONSTANTS
    d1 = d1
    d2 = d2
    s1 = s1
    s2 = s2
    k1 = k1
    Devices = {d1, d2}
    Sources = {s1, s2}
    Codes = {k1}
    Quota = 2
    Total = 2
    Lifetime = 1
    MaxClock = 2
    MaxRequests = 2
    MaxCrashes = 1
    MaxLost = 1
SYMMETRY Alike
INVARIANTS TypeOK GrantedOnce
PROPERTIES CredentialIsKept TicketIsKept
