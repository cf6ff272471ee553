----------------------------- MODULE SystemBus ------------------------------
(***************************************************************************)
(* System bus access of the Debug Module (riscv/debug_module.cc): the      *)
(* registers SBCS, SBADDRESS and SBDATA, by which a debugger reads and     *)
(* writes memory without a hart.                                           *)
(*                                                                         *)
(* An address is its two words, <<upper, lower>>; the words above them     *)
(* reach no memory.  SBDATA is one register, known by the address that its *)
(* value was loaded from.  Misaligned accesses trap, as in a build without *)
(* RISCV_ENABLE_MISALIGNED.                                                *)
(***************************************************************************)
EXTENDS Integers

CONSTANTS
  LowerSize,   \* bound: the values of the lower word, 2 ^ 32 in the code
  UpperSize,   \* bound: the values of the upper word
  MaxAccess,   \* max_sba_data_width is 8 * 2 ^ MaxAccess, or 0 for -1
  Unmapped     \* the addresses where there is no memory

Addresses == (0 .. UpperSize - 1) \X (0 .. LowerSize - 1)

ASSUME SystemBusAssumption ==
  /\ LowerSize \in Nat \ {0} /\ UpperSize \in Nat \ {0}
  /\ MaxAccess \in -1 .. 3 /\ Unmapped \subseteq Addresses

Nothing == <<-1, -1>>

VARIABLES
  sbaddress,
  sbdata,        \* the address that its value was loaded from, or Nothing
  sbaccess,      \* an access is of 2 ^ sbaccess bytes
  readonaddr, readondata, autoincrement,
  sberror,       \* the bits of sbcs.error: {2} is an access fault, {1, 2} a bad size
  escaped,       \* a trap has left the Debug Module and ended the simulator
  promised,      \* history: what the next SBDATA0 of a running stream should deliver
  deceived       \* history: the stream has delivered something else

sbFlags == <<sbaccess, readonaddr, readondata, autoincrement>>
sbHistory == <<promised, deceived>>
systemBusVars == <<sbaddress, sbdata, sbFlags, sberror, escaped, sbHistory>>

SystemBusTypeOK ==
  /\ sbaddress \in Addresses /\ sbdata \in Addresses \cup {Nothing}
  /\ sbaccess \in 0 .. MaxAccess + 1
  /\ readonaddr \in BOOLEAN /\ readondata \in BOOLEAN /\ autoincrement \in BOOLEAN
  /\ sberror \in SUBSET {1, 2} /\ escaped \in BOOLEAN
  /\ promised \in Addresses \cup {Nothing} /\ deceived \in BOOLEAN

SystemBusInit ==
  /\ sbaddress = <<0, 0>> /\ sbdata = Nothing
  /\ sbaccess = 0 /\ readonaddr = FALSE /\ readondata = FALSE /\ autoincrement = FALSE
  /\ sberror = {} /\ escaped = FALSE
  /\ promised = Nothing /\ deceived = FALSE

Bytes == 2 ^ sbaccess

(* sb_autoincrement: the carry is taken from a sum that has only 32 bits   *)
Incremented(a) ==
  IF autoincrement /\ MaxAccess >= 0 THEN <<a[1], (a[2] + Bytes) % LowerSize>> ELSE a

(* What an access at an address comes to *)
Result(a) ==
  IF sbaccess > MaxAccess THEN "bad size"
  ELSE IF a[2] % Bytes # 0 THEN "misaligned"
  ELSE IF \E b \in Unmapped : b[1] = a[1] /\ b[2] \in a[2] .. a[2] + Bytes - 1 THEN "fault"
  ELSE "done"

(* sb_read, which catches an access fault *)
SbRead(a) ==
  /\ sbdata' = IF Result(a) = "done" THEN a ELSE sbdata
  /\ sberror' = CASE Result(a) = "bad size" -> {1, 2}
                  [] Result(a) = "fault" -> {2}
                  [] OTHER -> sberror
  /\ escaped' = (Result(a) = "misaligned")

(* sb_write, which catches nothing *)
SbWrite(a) ==
  /\ sberror' = IF Result(a) = "bad size" THEN {1, 2} ELSE sberror
  /\ escaped' = (Result(a) \in {"misaligned", "fault"})

WriteSbcs ==
  /\ sbaccess' \in 0 .. MaxAccess + 1
  /\ readonaddr' \in BOOLEAN /\ readondata' \in BOOLEAN /\ autoincrement' \in BOOLEAN
  /\ \E cleared \in SUBSET {1, 2} : sberror' = sberror \ cleared
  /\ promised' = Nothing /\ deceived' = FALSE
  /\ UNCHANGED <<sbaddress, sbdata, escaped>>

(* With an address the debugger asks for a stream when all three flags are *)
(* set.  The address moves on even if the access fails.                    *)
WriteSbaddress0(lower) ==
  /\ LET a == <<sbaddress[1], lower>> IN
       IF sberror = {} /\ readonaddr
       THEN /\ SbRead(a)
            /\ sbaddress' = IF escaped' THEN a ELSE Incremented(a)
            /\ promised' = IF readondata /\ autoincrement THEN a ELSE Nothing
       ELSE /\ sbaddress' = a /\ promised' = Nothing
            /\ UNCHANGED <<sbdata, sberror, escaped>>
  /\ deceived' = FALSE
  /\ UNCHANGED sbFlags

WriteSbaddress1(upper) ==
  /\ sbaddress' = <<upper, sbaddress[2]>>
  /\ promised' = Nothing /\ deceived' = FALSE
  /\ UNCHANGED <<sbdata, sbFlags, sberror, escaped>>

(* A stream is promised up to the end of what the lower word can address *)
NextPromised ==
  IF promised = Nothing \/ promised[2] + Bytes >= LowerSize THEN Nothing
  ELSE <<promised[1], promised[2] + Bytes>>

(* A mutant of ReadSbdata0: the address moves on before the fetch *)
ReadSbdata0Advancing ==
  /\ deceived' = (deceived \/ (promised # Nothing /\ sbdata # promised))
  /\ promised' = NextPromised
  /\ IF sberror = {}
     THEN /\ IF readondata THEN SbRead(Incremented(sbaddress)) ELSE UNCHANGED <<sbdata, sberror, escaped>>
          /\ sbaddress' = Incremented(sbaddress)
     ELSE UNCHANGED <<sbaddress, sbdata, sberror, escaped>>
  /\ UNCHANGED sbFlags

(* The debugger gets what is in the register, then the register is filled *)
ReadSbdata0 ==
  /\ deceived' = (deceived \/ (promised # Nothing /\ sbdata # promised))
  /\ promised' = NextPromised
  /\ IF sberror = {}
     THEN /\ IF readondata THEN SbRead(sbaddress) ELSE UNCHANGED <<sbdata, sberror, escaped>>
          /\ sbaddress' = IF sberror' = {} /\ ~escaped' THEN Incremented(sbaddress) ELSE sbaddress
     ELSE UNCHANGED <<sbaddress, sbdata, sberror, escaped>>
  /\ UNCHANGED sbFlags

WriteSbdata0 ==
  /\ sbdata' = Nothing
  /\ promised' = Nothing /\ deceived' = FALSE
  /\ IF sberror = {}
     THEN /\ SbWrite(sbaddress)
          /\ sbaddress' = IF sberror' = {} /\ ~escaped' THEN Incremented(sbaddress) ELSE sbaddress
     ELSE UNCHANGED <<sbaddress, sberror, escaped>>
  /\ UNCHANGED sbFlags

(* reset, when dmactive is cleared, leaves address and data *)
ResetSystemBus ==
  /\ sbaccess' = 0 /\ readonaddr' = FALSE /\ readondata' = FALSE /\ autoincrement' = FALSE
  /\ sberror' = {}
  /\ promised' = Nothing /\ deceived' = FALSE
  /\ UNCHANGED <<sbaddress, sbdata, escaped>>

SystemBusNext ==
  /\ ~escaped
  /\ \/ WriteSbcs
     \/ \E lower \in 0 .. LowerSize - 1 : WriteSbaddress0(lower)
     \/ \E upper \in 0 .. UpperSize - 1 : WriteSbaddress1(upper)
     \/ ReadSbdata0 \/ WriteSbdata0
     \/ ResetSystemBus

SystemBusSpec == SystemBusInit /\ [][SystemBusNext]_systemBusVars
-----------------------------------------------------------------------------
(* A debugger that reads memory as a stream (one address, then the data    *)
(* register again and again) and looks at sberror only afterwards is never *)
(* deceived: if there is no error, each value that it got was the next one *)
(* of memory, the one that its last read fetched included.  The stream may *)
(* not cross a multiple of 2 ^ 32, where the carry is lost.                *)
StreamIsMemory ==
  sberror = {} => /\ ~deceived
                  /\ promised # Nothing /\ ~escaped => sbdata = promised
=============================================================================
