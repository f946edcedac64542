CONSTANTS
    pVersions = pVersions
    pLoginR0 = pLoginR0
    pLoginV3 = pLoginV3
    pStateR0 = pStateR0
    pStateV3 = pStateV3
    pStateR0Slash = pStateR0Slash
    pStateV3Slash = pStateV3Slash
    pKeys = pKeys
    pKeysId = pKeysId
    pEvent = pEvent
    pSyncR0 = pSyncR0
    pSyncV3 = pSyncV3
    pUnknown = pUnknown
    hVersions = hVersions
    hLoginTypes = hLoginTypes
    hLogin = hLogin
    hGetStateEmpty = hGetStateEmpty
    hSendStateEmpty = hSendStateEmpty
    hKeys = hKeys
    hKeysOld = hKeysOld
    hEvent = hEvent
    hInitialSync = hInitialSync
    NoHandler = NoHandler
    Paths <- MCPaths
    Handlers <- MCHandlers
    InitialSync = hInitialSync
    ServerKeys <- MCServerKeys
    RouteLists <- MCRouteLists
    ReqMethods <- MCReqMethods
    MaxRequestSize = 1
SPECIFICATION Spec
INVARIANT TypeOK AliasesAgree UnservedIsUnrecognized BodyLimitExact
