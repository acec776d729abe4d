SPECIFICATION Spec
CONSTANTS
  Accounts = {alice, bob}
  Browsers = {phone, desk}
  Requests = {r1, r2}
  SessionIds = {s1, s2}
  None = None
  Keep = Keep
SYMMETRY Symmetry
INVARIANTS
  TypeOK
  CookieIsOwn
  ActsForItsAccount
PROPERTIES
  EndedForGood
  LogoutEndsItsOwn
