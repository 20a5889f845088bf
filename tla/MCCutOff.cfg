SPECIFICATION ChatSpec
CONSTANTS
    ShortNames = {"read"}
    LongNames = {"mcp__long"}
    Cut <- MCCut
    Dates <- MCDates
    Markers <- MCMarkers
    Schemas <- MCSchemas
    Listed <- MCListed
    Models <- MCModels
    Questions <- MCQuestions
    Offers <- MCOffers
    Texts <- MCTexts
    MaxExchanges = 2
INVARIANT TruncationTold
