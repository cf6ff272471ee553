-------------------------------- MODULE Uart --------------------------------
(***************************************************************************)
(* The serial port (riscv/ns16550.cc): a receive queue that the scheduler  *)
(* fills from the terminal, and one interrupt line that must follow it.    *)
(*                                                                         *)
(* Bytes that come in are all alike, and so are those that go out.  A load *)
(* of a register other than the receive buffer, and a store to the line,   *)
(* modem status or scratch register, change nothing here.  The transmitter *)
(* is always empty: nothing clears TEMT and THRE once they are set.        *)
(***************************************************************************)
EXTENDS Integers

CONSTANT QueueSize  \* UART_QUEUE_SIZE

ASSUME UartAssumption == QueueSize \in Nat \ {0}

VARIABLES
  rxCount,      \* the bytes in rx_queue
  ier,          \* the interrupts enabled, of RDI and THRI
  dlab,         \* the bit of lcr that gives the addresses another meaning
  fifoEnabled,  \* of fcr
  loopback,     \* of mcr
  dataReady,    \* of lsr
  iir,          \* the causes that iir reports
  line          \* the level of the interrupt

uartVars == <<rxCount, ier, dlab, fifoEnabled, loopback, dataReady, iir, line>>

UartTypeOK ==
  /\ rxCount \in 0 .. QueueSize
  /\ ier \in SUBSET {"RDI", "THRI"} /\ iir \in SUBSET {"RDI", "THRI"}
  /\ dlab \in BOOLEAN /\ fifoEnabled \in BOOLEAN /\ loopback \in BOOLEAN
  /\ dataReady \in BOOLEAN /\ line \in BOOLEAN

UartInit ==
  /\ rxCount = 0 /\ ier = {} /\ iir = {}
  /\ dlab = FALSE /\ fifoEnabled = FALSE /\ loopback = FALSE
  /\ dataReady = FALSE /\ line = FALSE

(* A mutant of UpdateInterrupt: the queue is emptied and LSR_DR stays *)
UpdateInterruptKeepingReady(count, ready, enabled, clearReceiver) ==
  /\ rxCount' = IF clearReceiver THEN 0 ELSE count
  /\ dataReady' = ready
  /\ ier' = enabled
  /\ iir' = {cause \in enabled : cause = "RDI" => ready}
  /\ line' = (iir' # {})

(* update_interrupt, on the registers as the caller leaves them.  The two  *)
(* bits that ask for a queue to be emptied are looked for in lcr.          *)
UpdateInterrupt(count, ready, enabled, clearReceiver) ==
  LET stillReady == ready /\ ~clearReceiver IN
  /\ rxCount' = IF clearReceiver THEN 0 ELSE count
  /\ dataReady' = stillReady
  /\ ier' = enabled
  /\ iir' = {cause \in enabled : cause = "RDI" => stillReady}
  /\ line' = (iir' # {})

(* rx_byte and what load does after it; with DLAB the divisor is read *)
LoadReceiveBuffer ==
  /\ IF dlab THEN UpdateInterrupt(rxCount, dataReady, ier, FALSE)
     ELSE IF rxCount = 0 THEN UpdateInterrupt(0, FALSE, ier, FALSE)
     ELSE UpdateInterrupt(rxCount - 1, dataReady /\ rxCount > 1, ier, FALSE)
  /\ UNCHANGED <<dlab, fifoEnabled, loopback>>

StoreTransmitBuffer ==
  /\ IF ~dlab /\ loopback /\ rxCount < QueueSize
     THEN UpdateInterrupt(rxCount + 1, TRUE, ier, FALSE)
     ELSE UpdateInterrupt(rxCount, dataReady, ier, FALSE)
  /\ UNCHANGED <<dlab, fifoEnabled, loopback>>

StoreInterruptEnable(enabled) ==
  /\ UpdateInterrupt(rxCount, dataReady, IF dlab THEN ier ELSE enabled, FALSE)
  /\ UNCHANGED <<dlab, fifoEnabled, loopback>>

StoreFifoControl(enable) ==
  /\ fifoEnabled' = enable
  /\ UpdateInterrupt(rxCount, dataReady, ier, FALSE)
  /\ UNCHANGED <<dlab, loopback>>

StoreLineControl(divisorLatch, bit1) ==
  /\ dlab' = divisorLatch
  /\ UpdateInterrupt(rxCount, dataReady, ier, bit1)
  /\ UNCHANGED <<fifoEnabled, loopback>>

StoreModemControl(loop) ==
  /\ loopback' = loop
  /\ UpdateInterrupt(rxCount, dataReady, ier, FALSE)
  /\ UNCHANGED <<dlab, fifoEnabled>>

(* A mutant of UartTick: a full queue is polled, too *)
UartTickOnFull ==
  /\ fifoEnabled /\ ~loopback /\ rxCount <= QueueSize
  /\ UpdateInterrupt(rxCount + 1, TRUE, ier, FALSE)
  /\ UNCHANGED <<dlab, fifoEnabled, loopback>>

(* A byte waits in the terminal *)
UartTick ==
  /\ fifoEnabled /\ ~loopback /\ rxCount < QueueSize
  /\ UpdateInterrupt(rxCount + 1, TRUE, ier, FALSE)
  /\ UNCHANGED <<dlab, fifoEnabled, loopback>>

UartNext ==
  \/ LoadReceiveBuffer
  \/ StoreTransmitBuffer
  \/ \E enabled \in SUBSET {"RDI", "THRI"} : StoreInterruptEnable(enabled)
  \/ \E enable \in BOOLEAN : StoreFifoControl(enable)
  \/ \E divisorLatch, bit1 \in BOOLEAN : StoreLineControl(divisorLatch, bit1)
  \/ \E loop \in BOOLEAN : StoreModemControl(loop)
  \/ UartTick

UartSpec == UartInit /\ [][UartNext]_uartVars
-----------------------------------------------------------------------------
(* The line is high exactly when a byte waits and its interrupt is enabled *)
(* or the transmitter's is: bytes that come from two sides and go by loads *)
(* and clears leave no lost and no stale interrupt behind, and the         *)
(* program's view of the queue (data ready) is never wrong.                *)
LineFollowsQueue ==
  /\ dataReady <=> rxCount > 0
  /\ line <=> ("RDI" \in ier /\ rxCount > 0) \/ "THRI" \in ier
=============================================================================
