\* Two apps, two listeners, one intent with two plugins and a system intent,
\* and one raise at a time.
SPECIFICATION Spec
CONSTANTS
    i1 = i1
    n1 = n1
    n2 = n2
    Apps = {i1, i2}
    Bridge = Bridge
    Admin = Admin
    Raises = {r1}
    Intents = {n1, n2}
    SystemIntents = {n2}
    PluginsFor <- MCPluginsFor
    Declared <- MCDeclared
    MaxListeners = 2
    NoApp = NoApp
    NoIntent = NoIntent
INVARIANTS
    NamedAppIsTold
    FirstTakerKeepsIt
    ListenersAreRegistered
PROPERTY RaisesEnd
CHECK_DEADLOCK FALSE
