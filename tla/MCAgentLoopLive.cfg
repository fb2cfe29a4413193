SPECIFICATION FairSpec
CONSTANTS
    block_ip = block_ip
    investigate_ioc = investigate_ioc
    blocklist_check = blocklist_check
    ip1 = ip1
    Tools = {block_ip, investigate_ioc, blocklist_check}
    Protected = {block_ip}
    RoleTools = {block_ip, investigate_ioc, blocklist_check}
    EnrichSources = {investigate_ioc}
    EnrichTools = {blocklist_check}
    Fallback = investigate_ioc
    Params = {ip1}
    MaxSteps = 2
    MaxFaults = 1
    MayCrash = FALSE
PROPERTY Terminates
