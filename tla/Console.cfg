CONSTANTS
    Clicks = {"first", "second"}
    MaxClicks = 2
    MaxLate = 1
    MaxOthers = 1
    n1 = n1
    n2 = n2
    p1 = p1
    p2 = p2
    Networks = {n1, n2}
    Passwords = {p1, p2}
    Key <- MCKey
    DefaultWifi <- MCDefault
    Servers = {s1, s2}
    Zones = {z1, z2}
    DefaultServer = s1
    DefaultZone = z1
    None = None
    MaxResets = 2
SPECIFICATION MCSpec
INVARIANTS ConsoleTypeOK NetTypeOK ClockFollowsSettings
PROPERTIES  PageCatchesUp RejoinsNetwork
