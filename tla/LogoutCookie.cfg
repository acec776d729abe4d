SPECIFICATION Spec
CONSTANTS
  Accounts = {alice}
  Browsers = {desk}
  Requests = {r1, r2}
  SessionIds = {s1, s2}
  None = None
  Keep = Keep
INVARIANT
  LogoutRemovesCookie
