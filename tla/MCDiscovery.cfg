SPECIFICATION DiscoverySpec
CONSTANTS
    Vacancies = {1, 2, 3}
    Unwanted = {3}
    PerPage = 1
    Combinations = 2
    Limit = 2
    PageLimit = 2
    Tabs = {1, 2, 3, 4}
    MaxSearches = 2
INVARIANTS FoundOnceInOrder TabsAreClosed
CHECK_DEADLOCK FALSE
