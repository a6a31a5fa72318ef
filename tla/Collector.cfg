SPECIFICATION Spec
CONSTANTS
    Device = {sda}
    Iface = {eth0, eth1}
    MaxCount = 2
    MaxTime = 2
    None = None
INVARIANT DiskRateIsTraffic
INVARIANT NetRateIsTraffic
