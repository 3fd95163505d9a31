SPECIFICATION Spec
SYMMETRY Alike
CONSTANTS
    Main = Main
    Handlers = {a, b}
    Settings <- OneSetting
    Ports = {p, q}
    Off = Off
    NoFile = NoFile
    PostUrls = TRUE
    WSOn = FALSE
    ReverseOn = FALSE
    NoConf = NoConf
    MaxClients = 3
    MaxEvents = 1
    a = a
    b = b
    p = p
    q = q
INVARIANT BotFollowsClient
INVARIANT SessionKept
INVARIANT ListenerIsKnown
CHECK_DEADLOCK FALSE
