SPECIFICATION Spec
CONSTANTS
    Main = Main
    Handlers = {a}
    Settings <- TwoSettings
    NoConf = NoConf
    Ports = {p}
    Off = Off
    NoFile = NoFile
    PostUrls = FALSE
    WSOn = TRUE
    ReverseOn = TRUE
    MaxClients = 3
    MaxEvents = 1
    a = a
    p = p
PROPERTY RestartTakesEffect
CHECK_DEADLOCK FALSE
