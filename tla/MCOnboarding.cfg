SPECIFICATION Spec
CONSTANTS
  k0 = k0
  k1 = k1
  k2 = k2
  old = old
  s1 = s1
  s2 = s2
  Clients = {c1, c2}
  Keys = {k0, k1, k2}
  Attempts = 2
  MaxCrashes = 1
  Tokens = {t1, t2}
  Proxmox = {t1}
  Sources = {s1, s2}
  Capacity = 2
  EarlierRows <- MCEarlierRows
SYMMETRY Symmetry
INVARIANT FailureLeavesNoSecret
INVARIANT OneRegistrationPerTest
PROPERTY SecretsAreWriteOnce
PROPERTY RegistrationIsAtomic
CHECK_DEADLOCK FALSE
