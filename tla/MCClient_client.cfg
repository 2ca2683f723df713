SPECIFICATION ClientSpec
CONSTANTS
  Lines = {l1, l2}
  MaxLines = 4
  Titles = {l1, l2, l3}
  MaxDiffCells = 12
  Refused = Refused
  l1 = l1
  l2 = l2
  l3 = l3
  Notes = {n1}
  NewNotes = {m1}
  None = None
  MaxTasks = 2
  Tabs = {tab1, tab2}
  MaxVaults = 3
  Phrases = {p1, p2}
  MaxKeys = 3
  MaxOpens = 2
  MaxEdits = 1
  Pages = {t1}
  MaxRevision = 2
  MaxDeploys = 2
  Names = {a, b}
  MaxHistory = 2
  v1 = v1
  v2 = v2
  Devices = {d1, d2}
  Plain = {theme}
  Nested = {k1, k2}
  Values = {v1, v2}
  Default = v1
  MaxChanges = 2
  MaxLoads = 1
  MaxDocument = 5
SYMMETRY Symmetry
CHECK_DEADLOCK FALSE
INVARIANTS
  MergeAppliesBoth
  ScreenFollowsRoute
  TypedTextIsSaved
  LocalVaultConsistent
  DatasetsStayApart
  EditsKept
  OnlyConfirmedSecrets
  ShellIsWhole
  PreviewShowsSource
  EditsHitWhatIsShown
  NoBlindOverwrite
  ChoicesAccounted
