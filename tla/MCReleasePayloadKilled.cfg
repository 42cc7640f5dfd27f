SPECIFICATION Spec
CONSTANTS
    MaxGeneration = 4
    Packages <- ThreeReleases
    Faults = {"kill","power"}
    MaxFaults = 3
INVARIANTS
    ActivePayloadSurvives
