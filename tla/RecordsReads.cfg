SPECIFICATION Spec
CONSTANTS
  abe = abe
  bea = bea
  cyd = cyd
  x = x
  y = y
  z = z
  food = food
  press = press
  farm = farm
  None = None
  Users <- MCUsers
  Groups = {food}
  Commodities = {x, y, z}
  Recipes = {press}
  Keys = {1, 2, 3, 4, 5, 6, 7, 8, 9}
  Workers = {1, 2}
  Seasons = {1, 2}
  Plots = {farm}
  BatchSize = 2
  PageSize = 1
  Volume <- MCVolume
  Requests <- MCRequests
  Supplied <- MCSupplied
  Uploads <- MCUploads
  SeasonEdits <- MCSeasonEdits
  RecipeEdits <- MCRecipeEdits
  CommodityEdits <- MCCommodityEdits
  FirstTables <- MCFirstTables
  Walks <- MCWalks
  Lists <- MCLists
  Screens <- MCScreens
  FirstCache <- MCFirstCache
  MaxEvents = 2
INVARIANTS
  TypeOK
  ReferencesHold
  HistoryAgrees
  ChainIsBracketed
  SkipsAreDepartures
  MetricsAreOwn
PROPERTIES
  TransactionsAreKept
  SeasonsAreFound
