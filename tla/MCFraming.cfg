CONSTANTS
    Reports <- TwoReports
    MaxFrames = 3
    Buffer = 9
SPECIFICATION Spec
INVARIANTS
    TypeOK
    ReportUnderstood
PROPERTIES
    ImplementsChannel
