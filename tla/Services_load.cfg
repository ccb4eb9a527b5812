CONSTANTS
    Handlers = {h1, h2}
    Urls = {"u1", "u2"}
    Builtin = {"s1"}
    Offers <- MCOffers
    None = None
    MaxRequests = 2
    MaxLoaders = 2
SPECIFICATION Spec
CHECK_DEADLOCK FALSE
PROPERTIES
    RequestsAnswered
