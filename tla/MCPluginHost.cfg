SPECIFICATION Spec
CONSTANTS
    Plugins = {1, 2}
    Builtin <- MCBuiltin
    Versions = {1, 2}
    Assets = {1}
    Scripted <- MCScripted
    Autostart = {1}
    Exposed = {1, 2}
    Refused <- MCRefused
    Actors = {startup, user}
    Startup = startup
    Torn = Torn
    NoRequest = NoRequest
    MaxAsked = 2
    MaxFaults = 1
INVARIANTS TypeOK Repairs InstalledFirst
CHECK_DEADLOCK FALSE
