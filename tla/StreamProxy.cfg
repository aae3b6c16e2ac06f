CONSTANTS
    r1 = r1  r2 = r2
    Request = {r1, r2}
    Height = {144, 240}
    Offer <- MCOffers
    Scenario <- MCScenarios
    Ttl = 1
SPECIFICATION StreamSpec
INVARIANTS RefusedIsGone RelayHonest
PROPERTIES FreshFromCache RequestsAnswered
