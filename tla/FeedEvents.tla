----------------------------- MODULE FeedEvents -----------------------------
(***************************************************************************)
(* The market events of the feed (src/src/feed/events.rs) and how serde    *)
(* reads them from JSON and writes them back.  A JSON value is the kind of *)
(* value it is; a JSON object is a function from field names to kinds.     *)
(***************************************************************************)
EXTENDS Naturals, FiniteSets

\* "numeric" is a string that parses as a finite number, "NaN", "Infinity" and
\* "-Infinity" are the strings that parse as those, "text" is any other string.
\* "empty" is the object without keys, "object" one with keys (other than the
\* private one by which serde_json marks numbers of arbitrary precision, a
\* feature the crate does not turn on).
Strings == {"numeric", "NaN", "Infinity", "-Infinity", "text"}
ValueKinds == Strings \cup {"null", "bool", "natural", "number", "array", "object", "empty"}

-----------------------------------------------------------------------------
(* JSONDouble *)

Doubles == {"Number", "NaN", "Infinity", "NegInfinity"}

\* What the JSONDouble visitor makes of a value; "error" where it refuses.
ReadDouble(v) ==
    CASE v \in {"natural", "number", "numeric", "bool"} -> "Number"
      [] v \in {"NaN", "null", "empty"}                 -> "NaN"
      [] v = "Infinity"                                 -> "Infinity"
      [] v = "-Infinity"                                -> "NegInfinity"
      [] OTHER                                          -> "error"

\* Mutant: specials are written as f64, which JSON has only null for.
WriteDoubleAsF64(d) == IF d = "Number" THEN "number" ELSE "null"

\* A number is written with its fraction (100.0 even if it came as 100), a
\* special as its string.
WriteDouble(d) ==
    CASE d = "Number"      -> "number"
      [] d = "NaN"         -> "NaN"
      [] d = "Infinity"    -> "Infinity"
      [] d = "NegInfinity" -> "-Infinity"

-----------------------------------------------------------------------------
(* The structs.  A schema gives the fields of each kind and the one field    *)
(* that may not be missing; all others are Options.                          *)

Schema(strings, longs, doubles, bools, anys, required) ==
    [string |-> strings, long |-> longs, double |-> doubles, bool |-> bools,
     any |-> anys, required |-> required]

\* Nearly every event has a symbol it cannot do without, and a time.
Event(strings, longs, doubles) ==
    Schema({"eventSymbol"} \cup strings, {"eventTime"} \cup longs, doubles, {}, {},
           "eventSymbol")

WithBools(schema, bools) == [schema EXCEPT !.bool = bools]

QuoteEvent ==
    Event({"bidExchangeCode", "askExchangeCode"},
          {"sequence", "timeNanoPart", "bidTime", "askTime"},
          {"bidPrice", "bidSize", "askPrice", "askSize"})

ProfileEvent ==
    Event({"description", "shortSaleRestriction", "tradingStatus"},
          {"haltStartTime", "haltEndTime", "exDividendDayId"},
          {"highLimitPrice", "lowLimitPrice", "high52WeekPrice", "low52WeekPrice", "beta",
           "earningsPerShare", "dividendFrequency", "exDividendAmount", "shares", "freeFloat"})

TradeEvent ==
    WithBools(Event({"exchangeCode", "tickDirection"},
                    {"sequence", "timeNanoPart", "time", "dayId"},
                    {"price", "change", "size", "dayVolume", "dayTurnover"}),
              {"extendedTradingHours"})

\* A struct of its own, field for field that of Trade.
TradeETHEvent == TradeEvent

CandleEvent ==
    Event({}, {"dayId", "time", "sequence"},
          {"open", "high", "low", "close", "volume", "vwap", "bidVolume", "askVolume",
           "impVolatility", "openInterest"})

\* openInterest is a u64 here and a JSONDouble in a candle.
SummaryEvent ==
    Event({"dayClosePriceType", "prevDayClosePriceType"},
          {"dayId", "prevDayId", "openInterest"},
          {"dayOpenPrice", "dayHighPrice", "dayLowPrice", "dayClosePrice",
           "prevDayClosePrice", "prevDayVolume"})

TimeAndSaleEvent ==
    WithBools(Event({"exchangeCode", "exchangeSaleConditions", "tradeThroughExempt",
                     "aggressorSide"},
                    {"time", "sequence"}, {"price", "size", "bidPrice", "askPrice"}),
              {"spreadLeg", "extendedTradingHours"})

GreeksEvent ==
    Event({}, {}, {"price", "volatility", "delta", "gamma", "theta", "rho", "vega"})

TheoPriceEvent ==
    Event({}, {"eventFlags"},
          {"price", "underlyingPrice", "delta", "gamma", "dividend", "interest"})

UnderlyingEvent ==
    Event({}, {}, {"volatility", "frontVolatility", "backVolatility", "callVolume",
                   "putVolume", "putCallRatio"})

OptionSaleEvent ==
    Event({"exchangeCode", "saleConditions", "side", "optionSymbol"}, {"time"},
          {"price", "size", "volatility", "delta"})

SeriesEvent ==
    Event({"series"}, {"expiration"},
          {"volatility", "callVolume", "putVolume", "putCallRatio", "forwardPrice",
           "dividend", "interest"})

OrderEvent ==
    Event({"exchangeCode", "orderSide", "scope"},
          {"eventFlags", "index", "time", "sequence", "count", "tradeId"},
          {"price", "size", "executedSize", "tradePrice", "tradeSize"})

SpreadOrderEvent == OrderEvent

\* An order, with what is known of an iceberg.
AnalyticOrderEvent ==
    [OrderEvent EXCEPT
        !.string = @ \cup {"icebergType", "marketMaker"},
        !.double = @ \cup {"icebergPeakSize", "icebergHiddenSize", "icebergExecutedSize"}]

ConfigurationEvent ==
    Schema({"eventSymbol"}, {"eventTime"}, {}, {}, {"configuration"}, "eventSymbol")

\* The one event whose symbol is optional.
MessageEvent ==
    Schema({"eventSymbol", "message", "messageType", "messageCode"}, {"eventTime"}, {}, {},
           {}, "message")

EventTypes == {"Quote", "Profile", "Trade", "TradeETH", "Candle", "Summary", "TimeAndSale",
               "Greeks", "TheoPrice", "Underlying", "OptionSale", "Series", "Order",
               "SpreadOrder", "AnalyticOrder", "Configuration", "Message"}

\* FeedEvent is tagged with eventType, which picks the struct.
FeedEvent(type) ==
    CASE type = "Quote" -> QuoteEvent           [] type = "Profile" -> ProfileEvent
      [] type = "Trade" -> TradeEvent           [] type = "TradeETH" -> TradeETHEvent
      [] type = "Candle" -> CandleEvent         [] type = "Summary" -> SummaryEvent
      [] type = "TimeAndSale" -> TimeAndSaleEvent
      [] type = "Greeks" -> GreeksEvent         [] type = "TheoPrice" -> TheoPriceEvent
      [] type = "Underlying" -> UnderlyingEvent [] type = "OptionSale" -> OptionSaleEvent
      [] type = "Series" -> SeriesEvent         [] type = "Order" -> OrderEvent
      [] type = "SpreadOrder" -> SpreadOrderEvent
      [] type = "AnalyticOrder" -> AnalyticOrderEvent
      [] type = "Configuration" -> ConfigurationEvent
      [] type = "Message" -> MessageEvent

Fields(s) == s.string \cup s.long \cup s.double \cup s.bool \cup s.any

-----------------------------------------------------------------------------
(* Reading and writing one event. *)

\* Field f of schema s can be read from v.  Null stands for a missing Option.
Fits(s, f, v) ==
    IF v = "null" THEN f # s.required
    ELSE /\ f \in s.double => ReadDouble(v) # "error"
         /\ f \in s.string => v \in Strings
         /\ f \in s.long   => v = "natural"
         /\ f \in s.bool   => v = "bool"

\* The object is an event of its type: the required field is there, and every
\* field of the struct fits.  Other keys are ignored.
Readable(type, obj) ==
    /\ type \in EventTypes
    /\ LET s == FeedEvent(type) IN
          /\ s.required \in DOMAIN obj
          /\ \A f \in DOMAIN obj \cap Fields(s) : Fits(s, f, obj[f])

\* The fields the struct then holds.
ReadEvent(type, obj) ==
    LET s == FeedEvent(type) IN
    [f \in {f \in DOMAIN obj \cap Fields(s) : obj[f] # "null"} |->
        IF f \in s.double THEN ReadDouble(obj[f]) ELSE obj[f]]

\* Serialized again: only Quote leaves out what it does not hold.
WriteEvent(type, event) ==
    LET s == FeedEvent(type) IN
    [f \in (IF type = "Quote" THEN DOMAIN event ELSE Fields(s)) |->
        IF f \notin DOMAIN event THEN "null"
        ELSE IF f \in s.double THEN WriteDouble(event[f]) ELSE event[f]]
=============================================================================
