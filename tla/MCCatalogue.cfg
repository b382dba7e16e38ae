SPECIFICATION CatalogueSpec
CONSTANTS
    Editors = {e1}
    Publishers = {p1, p2}
    Quoters = {q1}
    Rows = {row1, row2}
    Amounts = {1, 2}
    Rates = {2, 4}
    MaxPrice = 4
    MaxRevision = 3
    Admins = {a1, a2}
    Names = {x, y}
    Units = {kg, dona}
    Imported = Imported
    NoUnit = NoUnit
    MaxProducts = 3
    MaxOffers = 1
    Captions <- PhotoCaptions
    Lines <- TextLines
    CatalogOf <- Known
    PackSizes = {"kg50"}
    ShopPrices = {1}
    Photos = {ph1, ph2}
    Albums = {al1}
    MaxPhotos = 2
    Uploads = {u1, u2}
    MaxDrafts = 2
    Batches = {b1}
    Files <- PriceFiles
    gips = gips
    Goods = {gips}
    Imports = {h1, h2}
    MaxPriced = 2
    fanera = fanera
    fanera18 = fanera18
    paner = paner
    Wordings = {fanera, fanera18, paner}
    Finds <- FoundBy
    Stated <- SizeOf
    VariantOf <- Sizes
    Requests = {r1, r2}
    Canonical = {1, 2}
    MaxLines = 1
    Shops = {1, 2, 3, 4}
    ExactPool = 3
    MaxSplit = 2
    GreedyAdds = 2
    LocalMoves = 3
    Transcribed = {1}
    Unlisted = {}
    ListPriced = {1}
    Sheet = {1}
    Spoken <- OneWord
    Crafted = {1}
    Keepers = {k1}
    MaxDeploys = 3
SYMMETRY Symmetry
INVARIANTS
    QuoteHoldsRate
    
    NoHalfBuiltOffer
    
    
    ReleasesKeepTheCatalogue
PROPERTIES
    RepricedTogether
    
CHECK_DEADLOCK FALSE
