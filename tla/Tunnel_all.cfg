SPECIFICATION FairSpec
CONSTANTS
    t1 = t1
    t2 = t2
    Tunnels = {t1, t2}
    Addresses = {1, 2, 3}
    Settings <- MCSettings
INVARIANTS
    AddressesAgree
    SearchSound
    
PROPERTIES
    CallsReturn
    GatewayJudged
