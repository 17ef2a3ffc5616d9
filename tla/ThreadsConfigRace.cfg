CONSTANTS
    Workers = {"neighbors", "health"}
    Sessions = {s1}
    Scrapers = {good, slow}
    Prompt = {good}
    MaxIo = 1
    Keys = {1, 2}
    MaxEntries = 1
SPECIFICATION ThSpec
INVARIANT ConfigReadAlone
