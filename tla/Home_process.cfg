\* Files of every schema, an installation, updates, and logins.
SPECIFICATION Spec
CONSTANTS
  v0 = v0
  v1 = v1
  v2 = v2
  Handlers = {h1, h2}
  Addrs = {a1}
  Users = {u1}
  NoUser = NoUser
  Tokens = {t1, t2}
  NoToken = NoToken
  maxAttempts = 2
  blockDur = 2
  failedAuthTTL = 1
  sessionTTL = 2
  Day = 2
  Versions = {v0, v1, v2}
  NoVersion = NoVersion
  Package = "targz"
  Rejecting = {v0}
  UpdFaults = 1
  NoConf = NoConf
  SchemaOf <- MCSchemaOf
  Samples <- MCSamples
  Scenarios <- MCScenarios
INVARIANTS
  
  
  AttemptsBounded
  
CHECK_DEADLOCK FALSE
