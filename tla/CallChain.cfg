SPECIFICATION Spec
CONSTANTS
  Uint32 <- MCUint32
  AdminRoles <- MCAdminRoles
  ByteSize = 4
  Pairs <- MCPairs
  Configs <- MCConfigs
  CertOf <- MCCertOf
  Ops = {"get", "health"}
  Vias = {"grpc", "http", "local"}
  Metas <- MCMetas
  Tenants = {7}
  GatewaySecret = "k"
  MaxRetries = 1
  MaxCalls = 2
  MaxTime = 1
  MaxBoots = 2
INVARIANTS ProtectedCallsAuthenticated ClaimsBound CallsAccounted EntriesVerifiable
PROPERTIES CompleteDirGivesTLS
CHECK_DEADLOCK FALSE
