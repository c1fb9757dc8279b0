CONSTANTS
  Modules = {m1}
  Requests = {r1}
  MaxChanges = 4
  MaxRetries = 3
  DefaultRetries = 3
SPECIFICATION MCSpec
INVARIANTS TypeOK RoutesFollowRegistry HandlerBacked NoStaleRoute OpenAccounted RegTypeOK HeartbeatMeansRegistered CleanStop
PROPERTIES RequestsAnswered GoroutinesEnd StopReturns
