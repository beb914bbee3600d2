SPECIFICATION FairSpec
CONSTANTS
  Threads = {t1, t2}
  Addrs = {a1, a2}
  Copies = {c1}
  MaxDepth = 2
  GenMod = 4
  MaxNews = 3
INVARIANTS TypeOK NoUseAfterFree PinsCountBorrows StaleCopyNeverResolves ReclaimIsExclusive PublishedAdmits
PROPERTIES FreeReturns
