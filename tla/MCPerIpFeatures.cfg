SPECIFICATION FairSpec
CONSTANTS
    host = host  net = net  wide = wide  narrow = narrow
    Keys = {host, net}
    Hosts = {host}
    Subnets = {narrow}
    Network <- OneNetwork
    Destinations = {host}
    Covering <- Around
    Slots = {s1, s2}
    Lcores = {l1, l2}
    ExportMax = 1
    MaxPackets = 1
    None = None
INVARIANTS TypeOK OwnSlot EveryPacketOnce
PROPERTY SlotsReturn
