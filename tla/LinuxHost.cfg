CONSTANTS
    Servers = {s4, s6}
    V6Servers = {s6}
    Configs = {{"ks", "dns"}, {"ks", "dns", "v6", "via"}, {"ks", "noroutes"}, {"dns", "anon", "oneshot"}}
    UserRoutes = {{"low", "default", s4}}
    None = None
    MaxFail = 1
    MaxCrash = 1
    MaxFlip = 1
SPECIFICATION Spec
INVARIANTS SetUpSound Restored Protected InForce
CHECK_DEADLOCK FALSE
