\* three ports, so that a second move can begin before the first is finalised
CONSTANTS
    Ports = {22, 2200, 2222}
    DefaultPort = 22
    NoPort = 0
SPECIFICATION Spec
INVARIANTS ReloadNeverStrands
