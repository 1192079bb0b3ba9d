SPECIFICATION Spec
CONSTANTS
    Omitted = Omitted
    Pins <- MCPins
INVARIANTS
    ReportedIsConfigured
