\* The same instance of the wizard.
SPECIFICATION MCSpec
CONSTANTS
  Field = {f1, f2}
  Editor = {e1, e2}
  Job = {j1, j2}
  MaxEdits = 2
  Subject = {"wizard"}
  Host = {"store", "other"}
  MaxProducts = 1
  MaxOffers = 1
  MinPrivacy = 2
  Walked = {"trust", "legal", "seo"}
  Required = {"business_name", "title"}
  MaxLength <- MCMaxLength
  Draft <- MCDraft
  Deployed <- MCDeployed
  MaxBuilds = 2
  Panel = {p1, p2}
  Client = {c1}
  Value = {"new"}
  MaxClaim = 1
  MaxSaved = 1
  MaxMinted = 3
  Template = {t1, t2}
  Store = {a1, a2}
  HostList = {{}}
  FormEdits = 1
  MaxFailures = 1
  Task = {k1, k2}
  Campaign = {"brand"}
  MaxChanges = 1
  Query <- MCQuery
  Product <- MCProduct
  Curated <- MCCurated
  Category <- MCCategory
  Hashes = 2
  MaxFound = 2
  MaxRows = 2
  LimitCats = 2
  PerCat = 2
  Featured = 2
  Related = 2
SYMMETRY SlotSymmetry
INVARIANT TagsAreSaved
