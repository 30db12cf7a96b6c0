CONSTANTS
  NoFigure = NoFigure
  Readers = {r1, r2}
  Symbols = {stock, option, coin}
  Crypto = {coin}
  CryptoTtl = 1
  StockTtl = 2
  CallTimeout = 1
  StaleCap = 2
  Pruned = 1
  Hour = 2
  Day = 3
  Requests = {d1, d2}
  Trades <- TradeNames
  Trade <- TradeRows
  Minutes = {1, 2, 3, 4, 5}
  Candle <- CandleRows
  Window <- Windows
  CandleLife = 2
  Clients = 2
  Deadline = 2
  ClientLimit = 1
  Deals <- SomeDeals
  MaxTrades = 5
  Fetches = {job, route}
  Picks <- AllPicks
  Malformed <- NoSymbol
  MaxPicks = 2
  MaxRows = 2
  TradeIds = {1, 2, 3}
  Rows <- JournalRows
  Specs <- JournalSpecs
  Dates = {"tue"}
  DatesOf <- TradeDates
  Urls <- JournalUrls
  Compound <- JournalCompound
  CommaLists = {"trend,fast"}
  PresetNames = {star}
  PageSize = 1
  MaxPageNumber = 3
  NoValue = NoValue
SPECIFICATION Spec
INVARIANTS
  TypeOK
  AnswersAreHonest
  LonePinsAreWhole
  DrawdownIsDeepest
  ChipsKeepTheirPromise
  PagesShowTheSelection
CHECK_DEADLOCK FALSE
