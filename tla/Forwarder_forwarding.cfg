SPECIFICATION Spec
CONSTANTS
    HtmlWorlds <- MCHtmlWorlds
    JsonWorlds <- MCJsonWorlds
    HopByHop <- MCHopByHop
    Numerals <- MCNumerals
    MaxEntries = 1
    MaxPathLen = 8
INVARIANTS TypeOK RenderersIdempotent FramingMatches StampsAgree SiteHeadersWin JourneyAgrees
