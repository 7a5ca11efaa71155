\* Two tabs of a browser, one room instance, two identities and three
\* attempts in all.
CONSTANTS
  Instances = {1}
  Secrets = {s1}
  Devices = {1, 2}
  MaxProvisional = 1
  MaxProvisionalGlobal = 1
  Tabs = {t1, t2}
  None = None
  MaxReconnects = 1
  MaxStarts = 3
SPECIFICATION Spec
INVARIANTS RegistryExact SentIsMarked EngineIsCurrent
PROPERTIES EraseOnlyOwn
SYMMETRY TabSymmetry
CHECK_DEADLOCK FALSE
