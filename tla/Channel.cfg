SPECIFICATION FairSpec
CONSTANTS
  Thread = {t1, t2}
  Address = {a1, a2}
  Channel = {c1, c2, c3}
  Null = Null
INVARIANTS TypeOK CallsGoWhereResolved FailedChannelsGo
PROPERTIES OnlyFailedAreDropped CacheConverges
