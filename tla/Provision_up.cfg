SPECIFICATION LiveSpec
CONSTANTS
    Names <- MCNames
    Primary = "dc1"
    IndexOf <- MCIndexOf
    Configs <- Varied
    Edits <- Changes
    None = None
    MaxEdits = 2
    MaxInterrupts = 1
    MaxDowns = 1
    MaxIndex = 2
INVARIANTS TypeOK CertificatesReady K8sFilesReady AddressesUnique AddressesReachable PortsOpen
PROPERTY EventuallyBooted
CHECK_DEADLOCK FALSE
