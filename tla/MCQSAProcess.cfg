SPECIFICATION Spec
CONSTANTS
    Names <- NamesValue
    Inside <- InsideValue
    Upstream <- UpstreamValue
    Properties = {"prop"}
    Configure = "conf"
    Packages <- PackagesValue
    Environments <- EnvironmentsValue
    MaxForeign = 1
    Context = 4
    Page = 2
    RawCell = 2
    QsaCell = 1
    RingBytes = 3
    ArgumentSpace <- ArgumentsValue
    Rids = {"a", "b"}
    Layers = 2
    MinPrompt = 5
    MaxSeq = 9
    RequestRows = {1, 2}
    MaxLeases = 3
    MaxTokens = 4
    MaxGraphFaults = 1
    Machines <- MachinesValue
    LayerKinds <- LayersValue
    MaxAttended = 6
    MaxServed = 2
INVARIANTS AllOrNothing StartAgrees ForwardMatches OneOwner ReplayOwn WritebackHeld AttentionExact
PROPERTY RecordTrue
CONSTRAINT Explored
CHECK_DEADLOCK FALSE
