CONSTANTS
  r1 = r1
  r2 = r2
  c1 = c1
  c2 = c2
  t1 = t1
  t2 = t2
  s1 = s1
  s2 = s2
  a1 = a1
  a2 = a2
  n1 = n1
  n2 = n2
  p1 = p1
  k1 = k1
  k2 = k2
  ReturnIds = {r1, r2}
  AskSlots = {t1, t2}
  Calls = {c1, c2}
  Units = 2
  Shipping = 1
  Rest = 0
  Typed = {0, 2}
  None = None
  Subs = {s1, s2}
  Mine = s1
  AddressIds = {a1, a2}
  AddressSlots = {t1, t2}
  NoAddress = NoAddress
  Notes = {n1, n2}
  NoteSlots = {t1}
  Kinds = {k1, k2}
  Slugs = {p1}
  Tabs = {"ALL", "ACTIVE"}
  Skus = {k1, k2}
  UploadSlots = {t1, t2}
  NoFile = NoFile
  Applicants = {s1, s2}
  Rates = {"low", "high"}
  Rated = {s1}
  RateSlots = {t1, t2}
  BannerIds = {r1, r2}
  NewBanner = NewBanner
  Edited = {r1}
  BannerSlots = {t1, t2}
  NoData = NoData
SPECIFICATION DesksSpec
VIEW DeskView
CHECK_DEADLOCK FALSE
INVARIANTS DesksTypeOK RestockedOnce ChargedOnce ReturnedWithinOrdered ClaimHeld
  OrderPageFollows OneDefault AddressesFollow NotificationsFollow
  ImportsWhatIsShown ImportedWhole RateAsEntered StarMeans ProductsFollow
PROPERTIES DecidedOnce DecidedWhilePending FormKeepsSwitch
