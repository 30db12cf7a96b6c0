CONSTANTS
  NoFigure = NoFigure
  Readers = {r1}
  Symbols = {stock}
  Crypto = {}
  CryptoTtl = 1
  StockTtl = 2
  CallTimeout = 1
  StaleCap = 2
  Pruned = 1
  Hour = 2
  Day = 3
  Requests = {d1}
  Trades <- TradeNames
  Trade <- TradeRows
  Minutes = {1, 2, 3, 4, 5}
  Candle <- CandleRows
  Window <- Windows
  CandleLife = 2
  Clients = 2
  Deadline = 2
  ClientLimit = 1
  Deals <- SomeDeals
  MaxTrades = 1
  Fetches = {job}
  Picks <- AllPicks
  Malformed <- NoSymbol
  MaxPicks = 2
  MaxRows = 2
  TradeIds = {1, 2, 3}
  Rows <- JournalRows
  Specs <- JournalSpecs
  Dates = {"tue"}
  DatesOf <- TradeDates
  Urls <- JournalUrls
  Compound <- JournalCompound
  CommaLists = {"trend,fast"}
  PresetNames = {star}
  PageSize = 1
  MaxPageNumber = 3
  NoValue = NoValue
SPECIFICATION Spec
INVARIANT PageIsShown
CHECK_DEADLOCK FALSE
