SPECIFICATION Spec
CONSTANTS
  c1 = c1 c2 = c2 c3 = c3 c4 = c4 NoCall = NoCall
  Calls <- MCCalls Workloads <- MCWorkloads Matching = {c2}
  w1 = w1 w2 = w2 e1 = e1 e2 = e2 NoRoute = NoRoute
  Readers = {d1, d2} Writers <- MCWriters Plans <- MCPlans Routes = {e1, e2}
  f1 = f1 f2 = f2
  r1 = r1 r2 = r2 k1 = k1 k2 = k2 k3 = k3 k4 = k4 p1 = p1 p2 = p2 p3 = p3 n1 = n1 n2 = n2
  Keywords <- MCKeywords KeywordOrder <- MCKeywordOrder PrefixOf <- MCPrefixOf NodeOf <- MCNodeOf
  Nodes <- MCNodes Requests <- MCRequestIds Jobs <- MCJobs Contents <- MCContents
  MaxInflight = 2 MaxPerStorager = 1 DeleteRetries = 2 MaxFaults = 2
  Parts = {"gate", "cache", "query", "manager"}
INVARIANTS CallsKeptApart RoutesAreCurrent ExpressionSurvives HonestProofsVerify
  AcknowledgedIsDone FailedUpdateUndone RootsFollow QuietQueriesAnswered
PROPERTIES StoragerWaitsEnd HandlersEnd
CHECK_DEADLOCK FALSE
