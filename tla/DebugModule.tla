---------------------------- MODULE DebugModule ----------------------------
(***************************************************************************)
(* The Debug Module of the simulator (riscv/debug_module.cc), the debug    *)
(* ROM every halted hart loops in (debug_rom/debug_rom.S), the part of     *)
(* processor_t::step and of the instructions ebreak and dret that moves a  *)
(* hart in and out of Debug Mode, and the round-robin of sim_t::step.      *)
(*                                                                         *)
(* Granularity.  sim_t::main alternates sim_t::step(INTERLEAVE), which     *)
(* gives one quantum to one hart, with remote_bitbang_t::tick, in which    *)
(* the debugger may perform any number of Debug Module Interface (DMI)     *)
(* accesses.  A step of this module is one quantum of the hart whose turn  *)
(* it is, or one DMI access.  In Debug Mode a quantum ends at the first    *)
(* wfi or trap, so it is one round of the ROM loop, or one run of the      *)
(* abstract command.                                                       *)
(*                                                                         *)
(* Assumed of what the harts execute.  A program buffer may store to       *)
(* dmdata, which debug_module_t::store accepts and HARTINFO advertises,    *)
(* and to the program buffer, but not to the words of DEBUG_ROM_HALTED to  *)
(* DEBUG_ROM_EXCEPTION, which only the ROM stores to.  The program of a    *)
(* hart outside Debug Mode does not store to the Debug Module's memory     *)
(* (mmu_t::mmio_ok forbids it to core type STANDARD; on others it is an    *)
(* assumption).  The core type is STANDARD or SARGANTANA: with any other,  *)
(* debug_module_t::load and store refuse every access, and no hart could   *)
(* fetch the debug ROM.                                                    *)
(***************************************************************************)
EXTENDS Naturals, FiniteSets

CONSTANTS
  NProcs,             \* number of harts
  NSel,               \* values hartsel can hold: 2 ^ hartsellen
  Values,             \* the values of a data register, and of a hart register
  ResetValue,         \* the value a hart register has after a reset
  Commands,           \* the abstract commands the debugger may write
  Groups,             \* the halt groups the debugger may write; 0 is "no group"
  AbstractRti,        \* config.abstract_rti
  RequireAuth,        \* config.require_authentication
  SupportHasel,       \* config.support_hasel
  SupportHaltGroups,  \* config.support_haltgroups
  HaltOnReset,        \* the harts are created halted (spike -H)
  DmcontrolBits,      \* the bits of DMCONTROL the debugger ever writes as 1
  AutoexecWrites,     \* the sets of bits the debugger writes to ABSTRACTAUTO
  HawindowWrites,     \* the sets of harts the debugger writes to HAWINDOW
  Liberties           \* what the debugger does at times a careful one would not

Harts == 0 .. NProcs - 1
Selections == 0 .. NSel - 1

(* A command by what perform_abstract_command makes of it: "read" and      *)
(* "write" transfer a register of the hart, "badcsr" accesses a CSR the    *)
(* hart does not have, "exec" runs the program buffer, "custom" is served  *)
(* by the Debug Module itself, "badreg" names a register or a size that is *)
(* not supported, "badtype" is not a register access.                      *)
CommandKinds ==
  {"read", "write", "badcsr", "exec", "custom", "badreg", "badtype"}

(* The liberties: to write a new hart selection, to reset a hart, or to    *)
(* reset the Debug Module itself while an abstract command is busy; and to *)
(* ask a running hart to resume.                                           *)
LibertyKinds == {"reselect", "hartreset", "dmreset", "resumerunning"}

NONE == 0
BUSY == 1
NOTSUP == 2
EXCEPTION == 3
HALTRESUME == 4
CmdErrs == NONE .. HALTRESUME

ASSUME ProcsAssumption == NProcs \in Nat \ {0} /\ NSel \in Nat /\ NProcs <= NSel
ASSUME ValuesAssumption == ResetValue \in Values
ASSUME CommandsAssumption == Commands \subseteq CommandKinds /\ Commands # {}
ASSUME GroupsAssumption == Groups \subseteq Nat /\ 0 \in Groups
ASSUME ConfigAssumption ==
  /\ AbstractRti \in Nat
  /\ RequireAuth \in BOOLEAN /\ HaltOnReset \in BOOLEAN
  /\ SupportHasel \in BOOLEAN /\ SupportHaltGroups \in BOOLEAN
ASSUME DebuggerAssumption ==
  /\ DmcontrolBits \subseteq {"haltreq", "resumereq", "hartreset", "ndmreset",
                             "ackhavereset", "hasel"}
  /\ AutoexecWrites \subseteq SUBSET {"data", "progbuf"}
  /\ HawindowWrites \subseteq SUBSET Harts
  /\ Liberties \subseteq LibertyKinds

VARIABLES
  turn,           \* sim_t::current_proc
  mode,           \* where a hart is: in its program or in which part of the ROM
  haltRequest,    \* processor_t::halt_request
  dcsrHalt,       \* dcsr.halt
  reg,            \* one register of each hart
  halted, resumeack, havereset, haltgroup,  \* the four fields of hart_state
  go, resume,     \* the two bits of debug_rom_flags
  dmactive, hartsel, hasel,                 \* dmcontrol
  hartArrayMask,  \* hart_array_mask, the set of harts whose bit is 1
  authenticated,  \* dmstatus.authenticated
  busy, cmderr,   \* abstractcs
  completed,      \* abstract_command_completed
  rtiRemaining,   \* rti_remaining
  autoexec,       \* abstractauto: which of the data and progbuf bits are 1
  command,        \* the command register
  abstractBuf,    \* debug_abstract: the command it was last generated for
  data            \* dmdata

hartVars == <<turn, mode, haltRequest, dcsrHalt, reg>>
stateVars == <<halted, resumeack, havereset, haltgroup>>
flagVars == <<go, resume>>
selVars == <<dmactive, hartsel, hasel, hartArrayMask, authenticated>>
cmdVars == <<busy, cmderr, completed, rtiRemaining, autoexec, command,
             abstractBuf, data>>
vars == <<hartVars, stateVars, flagVars, selVars, cmdVars>>

(* "program": not in Debug Mode.  "parked": about to tell the Debug Module *)
(* that it is halted, either at DEBUG_ROM_ENTRY or after the wfi of the    *)
(* loop.  "command": the quantum ended inside the abstract command.        *)
(* "trapped": at DEBUG_ROM_TVEC, an exception ended the abstract command.  *)
Modes == {"program", "parked", "command", "trapped"}

TypeOK ==
  /\ turn \in Harts
  /\ mode \in [Harts -> Modes]
  /\ haltRequest \in [Harts -> {"none", "regular", "group"}]
  /\ dcsrHalt \in [Harts -> BOOLEAN]
  /\ reg \in [Harts -> Values]
  /\ halted \in [Harts -> BOOLEAN]
  /\ resumeack \in [Harts -> BOOLEAN]
  /\ havereset \in [Harts -> BOOLEAN]
  /\ haltgroup \in [Harts -> Groups]
  /\ go \in [Harts -> BOOLEAN]
  /\ resume \in [Harts -> BOOLEAN]
  /\ dmactive \in BOOLEAN
  /\ hartsel \in Selections
  /\ hasel \in BOOLEAN
  /\ hartArrayMask \subseteq Harts
  /\ authenticated \in BOOLEAN
  /\ busy \in BOOLEAN
  /\ cmderr \in CmdErrs
  /\ completed \in BOOLEAN
  /\ rtiRemaining \in 0 .. AbstractRti
  /\ autoexec \subseteq {"data", "progbuf"}
  /\ command \in Commands
  /\ abstractBuf \in CommandKinds \cup {"none"}
  /\ data \in Values

Init ==
  /\ turn = 0
  /\ mode = [h \in Harts |-> "program"]
  /\ haltRequest = [h \in Harts |-> "none"]
  /\ dcsrHalt = [h \in Harts |-> HaltOnReset]
  /\ reg = [h \in Harts |-> ResetValue]
  /\ halted = [h \in Harts |-> FALSE]
  /\ resumeack = [h \in Harts |-> FALSE]
  /\ havereset = [h \in Harts |-> TRUE]
  /\ haltgroup = [h \in Harts |-> 0]
  /\ go = [h \in Harts |-> FALSE]
  /\ resume = [h \in Harts |-> FALSE]
  /\ dmactive = FALSE
  /\ hartsel = 0
  /\ hasel = FALSE
  /\ hartArrayMask = {}
  /\ authenticated = ~RequireAuth
  /\ busy = FALSE
  /\ cmderr = NONE
  /\ completed \in BOOLEAN  \* the constructor leaves it uninitialised
  /\ rtiRemaining = 0
  /\ autoexec = {}
  /\ command \in Commands   \* uninitialised as well
  /\ abstractBuf = "none"
  /\ data = ResetValue

-----------------------------------------------------------------------------
(* What a hart does with its quantum.                                      *)

(* Mutation: current_proc does not wrap around.                            *)
NextTurnUnbounded == turn' = turn + 1

NextTurn == turn' = IF turn = NProcs - 1 THEN 0 ELSE turn + 1

(* Mutation: a halt request of the halt group is not looked at.            *)
EntersRomOnRegular(h) ==
  \/ mode[h] = "parked"
  \/ mode[h] = "program" /\ (haltRequest[h] = "regular" \/ dcsrHalt[h])

(* A hart starts a round of the ROM loop if it is parked there, or if      *)
(* processor_t::step finds a reason to enter Debug Mode.                   *)
EntersRom(h) ==
  \/ mode[h] = "parked"
  \/ mode[h] = "program" /\ (haltRequest[h] # "none" \/ dcsrHalt[h])

(* The harts that the halt of h asks to halt with it.                      *)
HaltGroupMates(h) ==
  {i \in Harts \ {h} : /\ ~halted[h]
                       /\ haltgroup[h] # 0
                       /\ haltgroup[i] = haltgroup[h]
                       /\ ~halted[i]}

(* Mutation: the GO flag is not looked at.                                 *)
StoreHaltedIgnoringGo(h) ==
  /\ haltRequest' = [i \in Harts |-> IF i \in HaltGroupMates(h)
                                     THEN "group" ELSE haltRequest[i]]
  /\ completed' = (completed \/ hartsel = h)

(* Mutation: only the first store after a halt can complete a command.     *)
StoreHaltedOnce(h) ==
  /\ haltRequest' = [i \in Harts |-> IF i \in HaltGroupMates(h)
                                     THEN "group" ELSE haltRequest[i]]
  /\ completed' = (completed \/ (hartsel = h /\ ~go[h] /\ ~halted[h]))

(* The store of mhartid to DEBUG_ROM_HALTED with which a round starts: all *)
(* it does but setting halted[h], which the rest of the round may undo.    *)
StoreHalted(h) ==
  /\ haltRequest' = [i \in Harts |-> IF i \in HaltGroupMates(h)
                                     THEN "group" ELSE haltRequest[i]]
  /\ completed' = (completed \/ (hartsel = h /\ ~go[h]))

(* Where the abstract command can leave the hart by the end of a quantum.  *)
Outcomes(buf) ==
  {m \in {"parked", "command", "trapped"} :
     \/ m = "parked" /\ buf \in {"read", "write", "exec", "badreg"}
     \/ m = "command" /\ buf = "exec"
     \/ m = "trapped" /\ buf \notin {"read", "write"}}

(* The values it can leave in the hart's register: those of the program    *)
(* buffer and of the hart's program are the debugger's and the user's.     *)
RegisterAfter(h, buf) ==
  {r \in Values : buf \in {"exec", "program"}
                   \/ r = (IF buf = "write" THEN data ELSE reg[h])}
SetRegister(h, buf) ==
  \E r \in RegisterAfter(h, buf) : reg' = [reg EXCEPT ![h] = r]

(* The values it can leave in dmdata: a program buffer may store there.    *)
DataAfter(h, buf) ==
  {d \in Values : buf = "exec" \/ d = (IF buf = "read" THEN reg[h] ELSE data)}

(* The hart finds its GO flag: it stores to DEBUG_ROM_GOING, which clears  *)
(* the flag, and jumps to debug_abstract.                                  *)
RunCommand(h) ==
  /\ EntersRom(h)
  /\ go[h]
  /\ StoreHalted(h)
  /\ halted' = [halted EXCEPT ![h] = TRUE]
  /\ go' = [go EXCEPT ![h] = FALSE]
  /\ \E m \in Outcomes(abstractBuf) : mode' = [mode EXCEPT ![h] = m]
  /\ \E d \in DataAfter(h, abstractBuf) : data' = d
  /\ SetRegister(h, abstractBuf)
  /\ UNCHANGED <<dcsrHalt, resumeack, havereset, haltgroup, resume, selVars,
                 busy, cmderr, rtiRemaining, autoexec, command, abstractBuf>>

(* Mutation: a hart without GO flag resumes.                               *)
WantsResumeUnlessGo(h) == ~go[h]

WantsResume(h) == ~go[h] /\ resume[h]

(* Mutation: the RESUME flag is not cleared.                               *)
StoreResumingKeepingFlag(h) ==
  /\ halted' = [halted EXCEPT ![h] = FALSE]
  /\ resumeack' = [resumeack EXCEPT ![h] = TRUE]
  /\ UNCHANGED resume

(* Mutation: the resume is not acknowledged.                               *)
StoreResumingSilently(h) ==
  /\ halted' = [halted EXCEPT ![h] = FALSE]
  /\ resume' = [resume EXCEPT ![h] = FALSE]
  /\ UNCHANGED resumeack

(* The store of mhartid to DEBUG_ROM_RESUMING.                             *)
StoreResuming(h) ==
  /\ halted' = [halted EXCEPT ![h] = FALSE]
  /\ resumeack' = [resumeack EXCEPT ![h] = TRUE]
  /\ resume' = [resume EXCEPT ![h] = FALSE]

(* The hart finds its RESUME flag: it stores to DEBUG_ROM_RESUMING, leaves *)
(* Debug Mode with dret, and runs its program for the rest of the quantum. *)
RunResume(h) ==
  /\ EntersRom(h)
  /\ WantsResume(h)
  /\ StoreHalted(h)
  /\ StoreResuming(h)
  /\ mode' = [mode EXCEPT ![h] = "program"]
  /\ SetRegister(h, "program")
  /\ UNCHANGED <<dcsrHalt, havereset, haltgroup, go, selVars, busy, cmderr,
                 rtiRemaining, autoexec, command, abstractBuf, data>>

(* The hart finds neither flag and waits (wfi ends the quantum).           *)
RunPark(h) ==
  /\ EntersRom(h)
  /\ ~go[h] /\ ~resume[h]
  /\ StoreHalted(h)
  /\ halted' = [halted EXCEPT ![h] = TRUE]
  /\ mode' = [mode EXCEPT ![h] = "parked"]
  /\ UNCHANGED <<dcsrHalt, reg, resumeack, havereset, haltgroup, flagVars,
                 selVars, busy, cmderr, rtiRemaining, autoexec, command,
                 abstractBuf, data>>

(* The hart goes on with a program buffer that outlived its quantum.       *)
RunBuffer(h) ==
  /\ mode[h] = "command"
  /\ \E m \in Outcomes("exec") : mode' = [mode EXCEPT ![h] = m]
  /\ SetRegister(h, "exec")
  /\ \E d \in DataAfter(h, "exec") : data' = d
  /\ UNCHANGED <<haltRequest, dcsrHalt, stateVars, flagVars, selVars, busy,
                 cmderr, completed, rtiRemaining, autoexec, command, abstractBuf>>

(* Mutation: the exception is not reported.                                *)
RunExceptionUnreported(h) ==
  /\ mode[h] = "trapped"
  /\ mode' = [mode EXCEPT ![h] = "parked"]
  /\ UNCHANGED <<haltRequest, dcsrHalt, reg, stateVars, flagVars, selVars,
                 cmdVars>>

(* The exception handler of the ROM: it stores to DEBUG_ROM_EXCEPTION, and *)
(* its ebreak takes the hart back to DEBUG_ROM_ENTRY.                      *)
RunException(h) ==
  /\ mode[h] = "trapped"
  /\ cmderr' = IF cmderr = NONE THEN EXCEPTION ELSE cmderr
  /\ mode' = [mode EXCEPT ![h] = "parked"]
  /\ UNCHANGED <<haltRequest, dcsrHalt, reg, stateVars, flagVars, selVars, busy,
                 completed, rtiRemaining, autoexec, command, abstractBuf, data>>

(* The hart runs its program.                                              *)
RunProgram(h) ==
  /\ mode[h] = "program"
  /\ ~EntersRom(h)
  /\ SetRegister(h, "program")
  /\ UNCHANGED <<mode, haltRequest, dcsrHalt, stateVars, flagVars, selVars,
                 cmdVars>>

Quantum(h) ==
  /\ turn = h
  /\ NextTurn
  /\ \/ RunCommand(h) \/ RunResume(h) \/ RunPark(h)
     \/ RunBuffer(h) \/ RunException(h) \/ RunProgram(h)

-----------------------------------------------------------------------------
(* What the debugger does between two quanta: debug_module_t::dmi_write,   *)
(* dmi_read and run_test_idle.                                             *)

(* Why perform_abstract_command refuses command c when it is not busy.     *)
CommandError(c) ==
  IF c = "badtype" THEN NOTSUP
  ELSE IF hartsel \notin Harts \/ ~halted[hartsel] THEN HALTRESUME
  ELSE IF c = "badreg" THEN NOTSUP
  ELSE NONE

(* perform_abstract_command, called with d in dmdata and c in command.     *)
PerformAbstractCommand(c, d) ==
  \/ /\ cmderr # NONE \/ busy
     /\ cmderr' = IF cmderr = NONE THEN BUSY ELSE cmderr
     /\ data' = d
     /\ UNCHANGED <<busy, completed, rtiRemaining, abstractBuf, go>>
  \/ /\ cmderr = NONE /\ ~busy
     /\ CommandError(c) # NONE
     /\ cmderr' = CommandError(c)
     /\ data' = d
     \* an unsupported size is found with the first instructions generated
     /\ abstractBuf' \in {abstractBuf} \cup
          (IF c = "badreg" /\ CommandError(c) = NOTSUP THEN {c} ELSE {})
     /\ UNCHANGED <<busy, completed, rtiRemaining, go>>
  \/ /\ cmderr = NONE /\ ~busy
     /\ CommandError(c) = NONE
     /\ c = "custom"
     /\ data' \in Values
     /\ UNCHANGED <<cmderr, busy, completed, rtiRemaining, abstractBuf, go>>
  \/ /\ cmderr = NONE /\ ~busy
     /\ CommandError(c) = NONE
     /\ c # "custom"
     /\ abstractBuf' = c
     /\ go' = [go EXCEPT ![hartsel] = TRUE]
     /\ rtiRemaining' = AbstractRti
     /\ completed' = FALSE
     /\ busy' = TRUE
     /\ data' = d
     /\ UNCHANGED cmderr

(* A write to COMMAND.                                                     *)
WriteCommand(c) ==
  /\ authenticated
  /\ command' = c
  /\ PerformAbstractCommand(c, data)
  /\ UNCHANGED <<hartVars, stateVars, resume, selVars, autoexec>>

(* Mutation: a write is not held off while the Debug Module is busy.       *)
AccessDataAlways(d) ==
  /\ data' = d
  /\ UNCHANGED <<hartVars, stateVars, flagVars, selVars, busy, cmderr,
                 completed, rtiRemaining, autoexec, command, abstractBuf>>

(* A read or a write of a data register; d is what it leaves in dmdata. A  *)
(* busy Debug Module leaves dmdata alone and records the access as an      *)
(* error; otherwise the access may run the last command once more.         *)
AccessData(d) ==
  \/ /\ busy
     /\ cmderr' = IF cmderr = NONE THEN BUSY ELSE cmderr
     /\ UNCHANGED <<hartVars, stateVars, flagVars, selVars, busy, completed,
                    rtiRemaining, autoexec, command, abstractBuf, data>>
  \/ /\ ~busy
     /\ "data" \in autoexec
     /\ PerformAbstractCommand(command, d)
     /\ UNCHANGED <<hartVars, stateVars, resume, selVars, autoexec, command>>
  \/ /\ ~busy
     /\ "data" \notin autoexec
     /\ data' = d
     /\ UNCHANGED <<hartVars, stateVars, flagVars, selVars, busy, cmderr,
                    completed, rtiRemaining, autoexec, command, abstractBuf>>

ReadData == AccessData(data)

WriteData(d) == authenticated /\ AccessData(d)

(* A read or a write of a program buffer word, whose contents are not      *)
(* modelled: what matters is that it may run the last command once more.   *)
(* Unlike an access to a data register, one while busy is no error.        *)
AccessProgbuf ==
  /\ ~busy /\ "progbuf" \in autoexec
  /\ PerformAbstractCommand(command, data)
  /\ UNCHANGED <<hartVars, stateVars, resume, selVars, autoexec, command>>

(* The error codes a write to ABSTRACTCS can leave: cmderr & ~bits.        *)
ClearedErrors(e) ==
  IF e = EXCEPTION THEN NONE .. EXCEPTION ELSE {NONE, e}

WriteAbstractcs(e) ==
  /\ authenticated
  /\ e \in ClearedErrors(cmderr)
  /\ cmderr' = e
  /\ UNCHANGED <<hartVars, stateVars, flagVars, selVars, busy, completed,
                 rtiRemaining, autoexec, command, abstractBuf, data>>

WriteAbstractauto(bits) ==
  /\ authenticated
  /\ autoexec' = bits
  /\ UNCHANGED <<hartVars, stateVars, flagVars, selVars, busy, cmderr,
                 completed, rtiRemaining, command, abstractBuf, data>>

WriteHawindow(harts) ==
  /\ authenticated
  /\ hartArrayMask' = harts
  /\ UNCHANGED <<hartVars, stateVars, flagVars, dmactive, hartsel, hasel,
                 authenticated, cmdVars>>

(* A write to AUTHDATA: the answer is right if it is challenge + secret.   *)
WriteAuthdata(right) ==
  /\ RequireAuth
  /\ authenticated' = right
  /\ UNCHANGED <<hartVars, stateVars, flagVars, dmactive, hartsel, hasel,
                 hartArrayMask, cmdVars>>

(* A write of halt group g to DMCS2.                                       *)
WriteDmcs2(g) ==
  /\ authenticated
  /\ SupportHaltGroups
  /\ hartsel \in Harts
  /\ haltgroup' = [haltgroup EXCEPT ![hartsel] = g]
  /\ UNCHANGED <<hartVars, halted, resumeack, havereset, flagVars, selVars,
                 cmdVars>>

RunTestIdle ==
  /\ rtiRemaining' = IF rtiRemaining > 0 THEN rtiRemaining - 1 ELSE 0
  /\ busy' = (busy /\ ~(rtiRemaining' = 0 /\ completed))
  /\ UNCHANGED <<hartVars, stateVars, flagVars, selVars, cmderr, completed,
                 autoexec, command, abstractBuf, data>>

(* What the debugger writes to DMCONTROL, dmactive being 1.  hasel is      *)
(* forced to 0 if the configuration does not support it.                   *)
Bit(name) == IF name \in DmcontrolBits THEN BOOLEAN ELSE {FALSE}
DmcontrolWrites ==
  [dmactive : {TRUE}, haltreq : Bit("haltreq"),
   resumereq : Bit("resumereq"), hartreset : Bit("hartreset"),
   ndmreset : Bit("ndmreset"), ackhavereset : Bit("ackhavereset"),
   hasel : IF SupportHasel THEN Bit("hasel") ELSE {FALSE},
   hartsel : Selections]

(* hart_selected: the harts that values of hartsel and hasel select.       *)
Selected(sel, all) ==
  {i \in Harts : i = sel \/ (all /\ i \in hartArrayMask)}
HartSelected(v) == Selected(v.hartsel, v.hasel)

(* The harts on which v calls processor_t::reset.                          *)
HartReset(v) ==
  IF v.ndmreset THEN Harts ELSE IF v.hartreset THEN HartSelected(v) ELSE {}

(* debug_module_t::reset, called when dmactive rises: the registers it     *)
(* clears and nothing else.  hart_state and debug_rom_flags are kept.      *)
Rises(active) == ~dmactive /\ active
ResetRegisters(active) ==
  IF Rises(active)
  THEN /\ busy' = FALSE
       /\ cmderr' = NONE
       /\ autoexec' = {}
       /\ authenticated' = ~RequireAuth
  ELSE UNCHANGED <<busy, cmderr, autoexec, authenticated>>
HaltRequestAfterReset(active) ==
  IF Rises(active) THEN [i \in Harts |-> "none"] ELSE haltRequest

(* What a careful debugger does not do with dmactive, and with the rest.   *)
CarefulActive(active) ==
  busy /\ active # dmactive => "dmreset" \in Liberties
Careful(v) ==
  /\ CarefulActive(v.dmactive)
  /\ busy /\ v.hartsel # hartsel => "reselect" \in Liberties
  /\ HartReset(v) # {} /\ (busy \/ \E h \in Harts : resume[h])
       => "hartreset" \in Liberties
  /\ v.resumereq /\ (HartReset(v) # {} \/ \E h \in HartSelected(v) : ~halted[h])
       => "resumerunning" \in Liberties

(* Whether a write of active to dmactive leaves the rest of DMCONTROL to   *)
(* be looked at.                                                           *)
Proceeds(active) ==
  active /\ (IF Rises(active) THEN ~RequireAuth ELSE authenticated)

(* A write to DMCONTROL that ends early: dmactive is written 0, or the     *)
(* debugger is not authenticated.                                          *)
WriteDmactive(active) ==
  /\ CarefulActive(active)
  /\ ~Proceeds(active)
  /\ dmactive' = active
  /\ ResetRegisters(active)
  /\ haltRequest' = HaltRequestAfterReset(active)
  /\ hartsel' = IF Rises(active) THEN 0 ELSE hartsel
  /\ hasel' = (hasel /\ ~Rises(active))
  /\ UNCHANGED <<turn, mode, dcsrHalt, reg, stateVars, flagVars, hartArrayMask,
                 completed, rtiRemaining, command, abstractBuf, data>>

(* Mutation: a hart reset does not clear hart_state.halted.                *)
StaysHaltedOverReset(v, i) == halted[i]

(* Whether hart i is still halted, and its last resume still acknowledged, *)
(* after v was written.                                                    *)
StaysHalted(v, i) == i \notin HartReset(v) /\ halted[i]

(* Mutation: a resume request leaves the last acknowledgement in place.    *)
StaysAcknowledgedOnRequest(v, i) == resumeack[i]

StaysAcknowledged(v, i) ==
  resumeack[i] /\ ~(v.resumereq /\ i \in HartSelected(v))

(* A write to DMCONTROL that selects harts and acts on them.               *)
WriteDmcontrol(v) ==
  /\ Careful(v)
  /\ Proceeds(v.dmactive)
  /\ dmactive' = TRUE
  /\ ResetRegisters(v.dmactive)
  /\ hartsel' = v.hartsel
  /\ hasel' = v.hasel
  /\ haltRequest' = [i \in Harts |->
                       IF i \notin HartSelected(v) THEN HaltRequestAfterReset(TRUE)[i]
                       ELSE IF v.haltreq THEN "regular" ELSE "none"]
  /\ resume' = [i \in Harts |-> resume[i] \/ (v.resumereq /\ i \in HartSelected(v))]
  /\ resumeack' = [i \in Harts |-> StaysAcknowledged(v, i)]
  /\ havereset' = [i \in Harts |->
                     \/ i \in HartReset(v)
                     \/ havereset[i] /\ ~(v.ackhavereset /\ i \in HartSelected(v))]
  \* processor_t::reset and debug_module_t::proc_reset
  /\ mode' = [i \in Harts |-> IF i \in HartReset(v) THEN "program" ELSE mode[i]]
  /\ dcsrHalt' = [i \in Harts |-> i \notin HartReset(v) /\ dcsrHalt[i]]
  /\ reg' = [i \in Harts |-> IF i \in HartReset(v) THEN ResetValue ELSE reg[i]]
  /\ halted' = [i \in Harts |-> StaysHalted(v, i)]
  /\ haltgroup' = [i \in Harts |-> IF i \in HartReset(v) THEN 0 ELSE haltgroup[i]]
  /\ UNCHANGED <<turn, go, hartArrayMask, completed, rtiRemaining, command,
                 abstractBuf, data>>

Debugger ==
  \/ \E active \in BOOLEAN : WriteDmactive(active)
  \/ \E v \in DmcontrolWrites : WriteDmcontrol(v)
  \/ \E c \in Commands : WriteCommand(c)
  \/ ReadData
  \/ \E d \in Values : WriteData(d)
  \/ AccessProgbuf
  \/ \E e \in CmdErrs : WriteAbstractcs(e)
  \/ \E bits \in AutoexecWrites : WriteAbstractauto(bits)
  \/ \E harts \in HawindowWrites : WriteHawindow(harts)
  \/ \E right \in BOOLEAN : WriteAuthdata(right)
  \/ \E g \in Groups : WriteDmcs2(g)
  \/ RunTestIdle

Next == Debugger \/ \E h \in Harts : Quantum(h)

Spec == Init /\ [][Next]_vars

-----------------------------------------------------------------------------
(* What the debugger can rely on.                                          *)

(* Mutation: DMSTATUS looks at hartsel only.                               *)
DmStatusOfHartsel ==
  LET sel == Selected(hartsel, FALSE)
  IN [allhalted  |-> \A h \in sel : halted[h],
      anyhalted  |-> \E h \in sel : halted[h],
      allrunning |-> \A h \in sel : ~halted[h],
      anyrunning |-> \E h \in sel : ~halted[h],
      allresumeack |-> \A h \in sel : resumeack[h],
      anyresumeack |-> \E h \in sel : resumeack[h]]

(* The fields of DMSTATUS that dmi_read computes.                          *)
DmStatus ==
  LET sel == Selected(hartsel, hasel)
  IN [allhalted  |-> \A h \in sel : halted[h],
      anyhalted  |-> \E h \in sel : halted[h],
      allrunning |-> \A h \in sel : ~halted[h],
      anyrunning |-> \E h \in sel : ~halted[h],
      allresumeack |-> \A h \in sel : resumeack[h],
      anyresumeack |-> \E h \in sel : resumeack[h]]

InDebugMode(h) == mode[h] # "program"
Executing(h) == mode[h] \in {"command", "trapped"}

(* The Debug Module's idea of which harts are halted, kept up to date only *)
(* by the stores of the debug ROM and by resets, is right: it is the set   *)
(* of harts in Debug Mode.  So DMSTATUS tells the debugger the truth.      *)
HaltedIffDebugMode == \A h \in Harts : halted[h] <=> InDebugMode(h)

(* As the debugger reads it: fields of DMSTATUS that speak of all or of no *)
(* hart of a selection of several hold for each of them.                   *)
StatusTruthful ==
  \A h \in Selected(hartsel, hasel) :
    /\ DmStatus.allhalted \/ ~DmStatus.anyhalted => InDebugMode(h) = DmStatus.allhalted
    /\ DmStatus.allrunning => ~InDebugMode(h)
    /\ DmStatus.allresumeack => ~resume[h]

(* A resume that the hart has not carried out is not acknowledged.         *)
PendingResumeNotAcknowledged == \A h \in Harts : resume[h] => ~resumeack[h]

(* The program of a hart in Debug Mode runs again only after the debugger  *)
(* asked for it, and then it is acknowledged, or after a reset of the      *)
(* hart, which acknowledges nothing.                                       *)
LeavesDebugModeOnRequest ==
  [][\A h \in Harts : InDebugMode(h) /\ ~InDebugMode(h)' =>
        \/ resume[h] /\ ~resume'[h] /\ resumeack'[h]
        \/ /\ havereset'[h] /\ haltgroup'[h] = 0
           /\ resumeack'[h] => resumeack[h]]_vars

(* A hart has a GO flag, or is inside debug_abstract, the program buffer   *)
(* or their exception handler, only while the Debug Module is busy with a  *)
(* command for that very hart, and before the command is taken as          *)
(* completed.  Hence at most one hart executes at a time, and nobody else  *)
(* changes dmdata or debug_abstract under it.                              *)
CommandOwnsHart ==
  \A h \in Harts : go[h] \/ Executing(h) => busy /\ ~completed /\ hartsel = h

(* debug_defines.h on abstractcs.busy: it "is not cleared until that       *)
(* command has completed", so a Debug Module that is not busy has no hart  *)
(* executing a command or about to.                                        *)
BusyUntilCompleted == (\E h \in Harts : go[h] \/ Executing(h)) => busy

(* debug_defines.h on dmcontrol.resumereq: it makes harts resume "if they  *)
(* are halted when the write occurs", so no hart that was not halted ever  *)
(* has a resume pending.                                                   *)
ResumeOnlyHalted == \A h \in Harts : resume[h] => InDebugMode(h)

(* The abstract commands of a careful debugger, seen from outside: the     *)
(* module CommandService, with the phase of the command read off the state *)
(* of the Debug Module and of the hart it selects.                         *)
Phase ==
  IF ~busy THEN "idle"
  ELSE IF hartsel \in Harts /\ go[hartsel] THEN "issued"
  ELSE IF hartsel \in Harts /\ mode[hartsel] = "command" THEN "running"
  ELSE IF hartsel \in Harts /\ mode[hartsel] = "trapped" THEN "failing"
  ELSE "done"

Service ==
  INSTANCE CommandService
  WITH phase <- Phase, owner <- hartsel, cmd <- abstractBuf,
       stopped <- halted, err <- cmderr

(* Each command is performed once, on the hart it was issued for, with the *)
(* data left for it and under nobody else's hands, and one that ends in an *)
(* exception leaves an error code: debug_module.cc and the debug ROM       *)
(* implement CommandService.                                               *)
ProvidesCommandService == Service!Spec
=============================================================================
