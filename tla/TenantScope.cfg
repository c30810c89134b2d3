SPECIFICATION Spec
CONSTANTS
  Callers = {c1, c2, c3}
  Tenants = {t1, t2}
  Values = {v1, v2, v3}
  None = None
  DefaultTenant = t1
  Lazy = TRUE
INVARIANT TypeOK
PROPERTY ImplementsAtomic
CHECK_DEADLOCK FALSE
