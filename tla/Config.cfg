SPECIFICATION Spec
CONSTANTS
  Params = {p1}
  Default = default
  System = system
  User = user
  Locals = {sheets}
  system = system
  user = user
  h1 = h1
  Procs = {h1}
  Listens <- MCListens
  NoContext = none
CONSTRAINT DefaultStays
INVARIANTS TypeOK AlteredIsMarked HandlersSeeTheLast EventsFlowDown
