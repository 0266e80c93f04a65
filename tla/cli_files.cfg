\* Two processes that run commands, and the daemon.
CONSTANTS
    Proc = {p1, p2}
    Whitelist = whitelist
    Blacklist = blacklist
    Yaml = yaml
    a = a
    longA = longA
    keyA = keyA
    keyB = keyB
    admin = admin
    peer = peer
    Texts = {a, longA}
    Key <- MCKey
    AdminKeys = {admin}
    SshKeys = {peer}
    Countries = {cn, ru}
    Settings = settings
    KeyLine = keyLine
    YamlFiles <- MCYamlFiles
    HandFiles <- MCHandFiles
    Parts <- MCParts
    Torn = torn
    Defaults = defaults
    Invalid = invalid
    MaxCommands = 3
SPECIFICATION Spec
SYMMETRY Symmetric
INVARIANTS TypeOK AddedStay RemovedStayGone ReloadKeepsSettings
