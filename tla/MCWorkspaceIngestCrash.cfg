CONSTANTS
    Paths = {1, 2}
    Contents = {a, b}
    Oversized = {b}
    NotUtf8 = NotUtf8
    None = None
    MaxRevision = 3
SPECIFICATION Spec
INVARIANT IngestIndexesSources
