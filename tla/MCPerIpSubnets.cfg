SPECIFICATION Spec
CONSTANTS
    host = host  net = net  wide = wide  narrow = narrow
    Keys = {net}
    Hosts = {}
    Subnets = {narrow, wide}
    Network <- OneNetwork
    Destinations = {net}
    Covering <- Around
    Slots = {s1, s2}
    Lcores = {l1}
    ExportMax = 2
    MaxPackets = 1
    None = None
PROPERTY TrackedWhileProtected
