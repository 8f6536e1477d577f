SPECIFICATION MCSpec
CONSTANTS
  k1 = k1 k2 = k2 k3 = k3 f1 = f1 f2 = f2 n0 = n0 n1 = n1 n2 = n2 s1 = s1 s2 = s2
  Nil = Nil NoKey = NoKey ZeroHash = ZeroHash Garbled = Garbled
  Keys <- MCKeys KeyOrder <- MCOrder Files <- MCFiles FileOrder <- TreeFiles
  MigratedPrefixes <- MCPrefixes Batches <- MCPairSets Segments <- TreeSegments
  Explored <- TreeExplored MaxRequests <- TreeRequests
  Indexes = {"mpt", "acctree", "mest", "acctrie"}
  TrieModes = {"kvdb", "page"}
  Situations <- Promised
  Budget <- MCBudget
INVARIANTS MptProofsVerify LanesFollowRecords CleanLanesStored MatchesProve
  MestDirectoryRoutes MestStoredKeysProve TrieUpkeepIsRebuild TrieProofsAreTrue TrieStoreFollows
  TrieKillKeepsListed
PROPERTIES Implements
CHECK_DEADLOCK FALSE
