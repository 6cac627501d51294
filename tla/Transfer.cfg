CONSTANTS
    Users = {u1, u2}
    Datasets = {"backup", "old", "external"}
    Content <- ThreeImports
    Stores <- TwoStores
    MaxPlans = 2
    MaxSubmits = 2
    MaxFaults = 2
    MaxEvents = 2
SPECIFICATION Spec
PROPERTIES AllOrNothing NoCredentialLost
SYMMETRY AnyUser
CHECK_DEADLOCK FALSE
