\* The JTAG transport, its socket and the coroutines, one at a time.
SPECIFICATION Spec
CONSTANTS
  RequiredRtiCycles = 2
  Garbage = 2
  BufSize = 2
  MaxCommands = 5
  Contexts = {c1, c2, c3}
  MainContext = c1
  Nobody = nobody
INVARIANTS TypeOK AccessOncePerGrantedScan SocketServes NoWakeupLost
PROPERTIES IdlingSuffices CommandsInTurn CommandsServed SwitchArrives ProvidesCoroutines
