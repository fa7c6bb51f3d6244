CONSTANTS
    Gateways = {g1}
    Instances = {i1, i2}
    Cut = {i1}
    Wants <- MCWants
    Interval = 2
SPECIFICATION FairSpec
INVARIANTS UpMeansKnown ForgottenInTime
PROPERTIES LiveComesBack DeadIsForgotten
