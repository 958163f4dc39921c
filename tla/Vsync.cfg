SPECIFICATION MCSpec
CONSTANTS
    Layer = {a, b}
    SoftwareVsync = FALSE
    Tunnels = {t1, t2, t3}
    Errors = TRUE
INVARIANTS TunnelOn
PROPERTIES Delivers ThreadStops
