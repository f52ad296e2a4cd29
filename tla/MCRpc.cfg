SPECIFICATION MCSpec
CONSTANTS
  sm = sm
  sm2 = sm2
  mdx = mdx
  Clients = {sm, sm2, mdx}
  IdentityOf <- MCIdentity
  MaxConns = 1
  NumSlots = 2
  Tracked = {"SM", "MDX1"}
  Singletons = {"SM", "MDX1"}
  Required = {"MDX1"}
  RequiredPipelines = {1}
  WarnThreshold = 1
  MaxHbFailures = 2
  RejectThreshold = 2
  MaxTicksPerLoop = 1
  Reports <- MCReports
  MaxAckFailures = 1
  NumberSpan = 3
  Backlog = 2
  AutoCauses = {"gateway_hb"}
  ManualCauses = {"pss"}
  Pipelines = {1, 2}
  MaxPersons = 1
  MaxUnread = 2
  MaxAttempts = 1
SYMMETRY SmSymmetry
CHECK_DEADLOCK FALSE
INVARIANTS LossAnnounced PublishedExact SuccessGenuine ReleaseWarranted
