CONSTANTS
    u1 = u1
    u2 = u2
    p1 = p1
    p2 = p2
    t1 = t1
    none = none
    miss = miss
    empty = empty
    all = all
    movies = movies
    None = none
    Zero = zero
    User = {u1, u2}
    Profile = {p1, p2}
    Title = {t1}
    OwnerOf <- MCOwnerOf
    MaxInputs = 3
    Query = {t1, miss, empty}
    Empty = empty
    Short = {empty}
    Hits <- MCHits
    Filter = {all, movies}
    All = all
    Category = {"Movies", "Series"}
    Sort = {"date_desc", "title_asc"}
    Newest = "date_desc"
    PagesOf <- MCPagesOf
    Place = {"row", "grid"}
    MaxRows = 2
    CategoryAt <- MCCategoryAt
    FirstPage <- MCFirstPage
SPECIFICATION ViewerSpec
INVARIANTS
    ProfileOfUser
    SuggestionsMatch
    ResultsMatch
    LibraryShowsWhatIsAsked
    
PROPERTIES
    LibraryLoads
CHECK_DEADLOCK FALSE
