CONSTANTS
  Tabs = {t1, t2}
  NoTab = NoTab
  Slots = 2
  MaxTime = 2
  AccessTTL = 1
  RefreshTTL = 2
  MaxFaults = 2
SPECIFICATION Spec
SYMMETRY Interchangeable
INVARIANTS TypeOK CookiesMatchStores LogoutEnds
