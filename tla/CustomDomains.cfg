SPECIFICATION Spec
CONSTANTS
  a1 = a1
  a2 = a2
  apex = apex
  wwwApex = wwwApex
  nowhere = nowhere
  Apps = {a1, a2}
  Names = {apex, wwwApex}
  Apexes = {apex}
  Www <- MCWww
  Workspace <- MCWorkspace
  NoApp = NoApp
  Stranger = Stranger
  Foreign = {}
  MayWant <- MCMayWant
  Ageing = {1}
  Deletable = {a1}
  MaxRows = 2
  MaxFaults = 1
INVARIANTS NoSharedName ProofBeforeReuse
PROPERTIES DemotedAfterTwoInARow RemovalFinishes
CHECK_DEADLOCK FALSE
