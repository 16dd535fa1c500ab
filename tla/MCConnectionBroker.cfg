CONSTANTS
    m = m
    n = n
    Providers = {p}
    Names = {m, n}
    Blank = Blank
    Semantic = {m, n}
    Schemas <- MCSchemas
    BadSchema = BadSchema
    NoSchema = NoSchema
    Tasks = {t1, t2}
    Listings <- MCListings
    Inputs <- MCInputs
    Policy <- MCPolicy
    GlobalLimit = 2
    ProviderLimit = 1
    MaxConnections = 3
SPECIFICATION Spec
INVARIANTS
    BrokerTypeOK
    CatalogConsistent
    ConnectionHonest
    CallsAdmitted
    RoutedIsCallable
