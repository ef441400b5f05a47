SPECIFICATION Spec
CONSTANTS
  f1 = f1
  f2 = f2
  n1 = n1
  n2 = n2
  Functions = {f1, f2}
  Namespaces = {n1, n2}
  DefaultNamespace = n1
  HomeOf <- OneEach
  Counts = {1}
  Scrapes = {s1, s2}
INVARIANT TypeOK
PROPERTY LoneScrapeIsExact
PROPERTY PublishedIsRecent
PROPERTY SettlesWhenQuiet
