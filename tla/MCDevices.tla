----------------------------- MODULE MCDevices ------------------------------
(***************************************************************************)
(* The components that share no state with each other, in one run: each    *)
(* behaviour is of one of them, chosen at the start, and the others stay   *)
(* as they begin.  The state space is the sum of theirs.  The two that     *)
(* compute only have no steps.                                             *)
(***************************************************************************)
EXTENDS Plic, Uart, VectorMemory, CacheSim, Cosim, SystemBus, Reduction, MemoryImage, Counters,
        Arithmetic, BitManip

VARIABLE component

computations == <<operands, bitManipVars>>
devicesVars ==
  <<component, computations, vars, uartVars, vectorVars, cacheVars,
    cosimVars, systemBusVars, reductionVars, memoryImageVars, countersVars>>

DevicesTypeOK ==
  /\ TypeOK /\ UartTypeOK /\ VectorTypeOK /\ CacheTypeOK /\ CosimTypeOK /\ SystemBusTypeOK
  /\ ReductionTypeOK /\ MemoryImageTypeOK /\ CountersTypeOK
  /\ ArithmeticTypeOK /\ BitManipTypeOK

FirstCall ==
  [kind |-> "plain", lanes |-> 1, accums |-> 1, parts |-> 1, vl |-> 1,
   masking |-> FALSE, active |-> {0}, treeIntra |-> FALSE, treeInter |-> FALSE]

(* What the reduction and the bit manipulation have when not chosen        *)
ASSUME DevicesAssumption == FirstCall \in LegalCalls /\ {} \in Seconds

(* Those with several initial states stay in one of them when not chosen   *)
DevicesInit ==
  /\ component \in {"plic", "uart", "vector", "cache", "cosim", "bus", "reduction", "memory",
                    "counters", "arithmetic", "bits"}
  /\ Init /\ UartInit /\ CacheInit /\ CosimInit /\ SystemBusInit
  /\ VectorInit
  /\ component # "vector" => /\ instruction = "load" /\ standard /\ nf = 1
                             /\ active = {} /\ origin = 0 /\ mapped = {}
  /\ IF component = "reduction" THEN ReductionInit ELSE arguments = FirstCall /\ result = <<>>
  /\ MemoryImageInit
  /\ component # "memory" => layout = <<[base |-> 0, size |-> 8]>>
  /\ CountersInit /\ (component # "counters" => quantum = 1)
  /\ IF component = "arithmetic" THEN ArithmeticInit ELSE operands = [x |-> 0, y |-> 0, z |-> 0]
  /\ IF component = "bits" THEN BitManipInit ELSE data = {} /\ mask = {}

PlicStep ==
  /\ component = "plic" /\ Next
  /\ UNCHANGED <<component, computations, uartVars, vectorVars, cacheVars,
                 cosimVars, systemBusVars, reductionVars, memoryImageVars,
                 countersVars>>
UartStep ==
  /\ component = "uart" /\ UartNext
  /\ UNCHANGED <<component, computations, vars, vectorVars, cacheVars,
                 cosimVars, systemBusVars, reductionVars, memoryImageVars,
                 countersVars>>
VectorStep ==
  /\ component = "vector" /\ VectorNext
  /\ UNCHANGED <<component, computations, vars, uartVars, cacheVars,
                 cosimVars, systemBusVars, reductionVars, memoryImageVars,
                 countersVars>>
CacheStep ==
  /\ component = "cache" /\ CacheNext
  /\ UNCHANGED <<component, computations, vars, uartVars, vectorVars,
                 cosimVars, systemBusVars, reductionVars, memoryImageVars,
                 countersVars>>
CosimStep ==
  /\ component = "cosim" /\ CosimNext
  /\ UNCHANGED <<component, computations, vars, uartVars, vectorVars,
                 cacheVars, systemBusVars, reductionVars, memoryImageVars,
                 countersVars>>
SystemBusStep ==
  /\ component = "bus" /\ SystemBusNext
  /\ UNCHANGED <<component, computations, vars, uartVars, vectorVars,
                 cacheVars, cosimVars, reductionVars, memoryImageVars,
                 countersVars>>
ReductionStep ==
  /\ component = "reduction" /\ DoReduction
  /\ UNCHANGED <<component, computations, vars, uartVars, vectorVars,
                 cacheVars, cosimVars, systemBusVars, memoryImageVars,
                 countersVars>>
MemoryImageStep ==
  /\ component = "memory" /\ MemoryImageNext
  /\ UNCHANGED <<component, computations, vars, uartVars, vectorVars,
                 cacheVars, cosimVars, systemBusVars, reductionVars,
                 countersVars>>
CountersStep ==
  /\ component = "counters" /\ CountersNext
  /\ UNCHANGED <<component, computations, vars, uartVars, vectorVars,
                 cacheVars, cosimVars, systemBusVars, reductionVars,
                 memoryImageVars>>

DevicesNext ==
  \/ PlicStep \/ UartStep \/ VectorStep \/ CacheStep \/ CosimStep
  \/ SystemBusStep \/ ReductionStep \/ MemoryImageStep \/ CountersStep

DevicesSpec == DevicesInit /\ [][DevicesNext]_devicesVars

(* What instructions compute is what they are defined to compute: the      *)
(* arithmetic that they share (arith.h, the rounding of the vector unit)   *)
(* and the bit manipulation.                                               *)
ComputationsExact == ArithmeticExact /\ BitsExact

(* There is no memory at the last address of the first window *)
NoMemory == {<<0, 3>>}
=============================================================================
