---------------------------- MODULE RemoteBitbang ----------------------------
(***************************************************************************)
(* The socket of the debugger (riscv/remote_bitbang.cc): tick, which       *)
(* sim_t::main calls between two quanta, takes a client on or executes the *)
(* commands that it has sent, a buffer at a time, and answers the R's.     *)
(* The client, another process, goes on meanwhile.                         *)
(*                                                                         *)
(* Commands and answers are numbered, over all clients.  Of a command      *)
(* counts whether it moves the TAP, asks for TDO or quits; of the TAP,     *)
(* whether it is in Run-Test/Idle.  A write to the socket takes what it    *)
(* likes of the bytes, or fails, and then the simulator aborts.            *)
(***************************************************************************)
EXTENDS Integers

CONSTANTS
  BufSize,     \* buf_size
  MaxCommands  \* bound: the commands that clients send

ASSUME BitbangAssumption == BufSize \in Nat \ {0} /\ MaxCommands \in Nat

VARIABLES
  client,      \* the client's end: "none", "open", or "closed" with data yet to read
  arrivals,    \* the commands that have come in at the socket
  delivered,   \* those of them that read has returned
  clientFd,    \* client_fd > 0
  recvBuf, recvStart, recvEnd,
  sendBuf,     \* static, of the answers' numbers
  sendOffset,
  sent,        \* the bytes of sendBuf that the socket has taken
  place,       \* "idle" between two ticks, "commands", "answers", "check" or "aborted"
  total,       \* total_processed
  quit, inRti, enteredRti,
  tapIdle,     \* tap->state() == RUN_TEST_IDLE
  executed,    \* history: the command executed last
  asked,       \* history: the R's executed
  answered,    \* history: the bytes that the socket has taken
  garbled,     \* history: one of them was not the next answer
  partial,     \* history: a write has not taken all it was offered
  settled      \* history: the TAP has come into Run-Test/Idle in this tick

socketVars == <<client, arrivals, delivered, clientFd>>
recvVars == <<recvBuf, recvStart, recvEnd>>
sendVars == <<sendBuf, sendOffset, sent>>
tickVars == <<total, quit, inRti, enteredRti, settled>>
answerVars == <<asked, answered, garbled, partial>>
bitbangVars == <<socketVars, recvVars, sendVars, place, tickVars, tapIdle, executed, answerVars>>

Slots == 0 .. BufSize - 1

BitbangTypeOK ==
  /\ client \in {"none", "open", "closed"} /\ arrivals \in 0 .. MaxCommands
  /\ delivered \in 0 .. MaxCommands /\ clientFd \in BOOLEAN
  /\ recvBuf \in [Slots -> Nat] /\ recvStart \in 0 .. BufSize /\ recvEnd \in -1 .. BufSize
  /\ sendBuf \in [Slots -> Nat] /\ sendOffset \in 0 .. BufSize /\ sent \in Nat
  /\ place \in {"idle", "commands", "answers", "check", "aborted"}
  /\ total \in Nat /\ quit \in BOOLEAN /\ inRti \in BOOLEAN /\ enteredRti \in BOOLEAN
  /\ tapIdle \in BOOLEAN /\ executed \in Nat /\ asked \in Nat /\ answered \in Nat
  /\ garbled \in BOOLEAN /\ partial \in BOOLEAN /\ settled \in BOOLEAN

BitbangInit ==
  /\ client = "none" /\ arrivals = 0 /\ delivered = 0 /\ clientFd = FALSE
  /\ recvBuf = [k \in Slots |-> 0] /\ recvStart = 0 /\ recvEnd = 0
  /\ sendBuf = [k \in Slots |-> 0] /\ sendOffset = 0 /\ sent = 0
  /\ place = "idle" /\ total = 0
  /\ quit = FALSE /\ inRti = FALSE /\ enteredRti = FALSE /\ tapIdle = FALSE
  /\ executed = 0 /\ asked = 0 /\ answered = 0
  /\ garbled = FALSE /\ partial = FALSE /\ settled = FALSE

(***************************************************************************)
(* The client                                                              *)
(***************************************************************************)
Client ==
  /\ \/ client = "none" /\ client' = "open" /\ arrivals' = arrivals
     \/ client = "open" /\ client' = "closed" /\ arrivals' = arrivals
     \/ client = "open" /\ arrivals < MaxCommands /\ arrivals' = arrivals + 1 /\ client' = client
  /\ UNCHANGED <<delivered, clientFd, recvVars, sendVars, place, tickVars, tapIdle, executed, answerVars>>

(***************************************************************************)
(* tick                                                                    *)
(***************************************************************************)
Accept ==
  /\ place = "idle" /\ ~clientFd /\ client # "none"
  /\ clientFd' = TRUE
  /\ UNCHANGED <<client, arrivals, delivered, recvVars, sendVars, place, tickVars,
                 tapIdle, executed, answerVars>>

(* A mutant of NewBatch: the answers stay in the buffer *)
BatchGoesOn == sendOffset' = sendOffset /\ sent' = 0

NewBatch == sendOffset' = 0 /\ sent' = 0

(* The commands that the last tick has left in the buffer come first *)
Tick ==
  /\ place = "idle" /\ clientFd
  /\ total' = 0 /\ quit' = FALSE /\ inRti' = tapIdle /\ enteredRti' = FALSE /\ settled' = FALSE
  /\ IF recvStart < recvEnd THEN place' = "commands" /\ NewBatch
                            ELSE place' = "check" /\ UNCHANGED <<sendOffset, sent>>
  /\ UNCHANGED <<socketVars, recvVars, sendBuf, tapIdle, executed, answerVars>>

(* One command: the TAP moves at set_pins and reset only *)
Command(kind) ==
  /\ tapIdle' \in IF kind = "pins" THEN BOOLEAN ELSE {tapIdle}
  /\ quit' = (quit \/ kind = "quit")
  /\ IF kind = "ask"
     THEN /\ sendBuf' = [sendBuf EXCEPT ![sendOffset] = asked + 1]
          /\ sendOffset' = sendOffset + 1 /\ asked' = asked + 1
     ELSE UNCHANGED <<sendBuf, sendOffset, asked>>

(* Coming into Run-Test/Idle ends the batch *)
Execute ==
  /\ place = "commands"
  /\ \E kind \in {"pins", "ask", "quit", "other"} : Command(kind)
  /\ executed' = recvBuf[recvStart]
  /\ recvStart' = recvStart + 1 /\ total' = total + 1
  /\ enteredRti' = (~inRti /\ tapIdle') /\ inRti' = FALSE
  /\ place' = IF enteredRti' \/ recvStart' = recvEnd THEN "answers" ELSE "commands"
  /\ settled' = (settled \/ (tapIdle' /\ ~tapIdle))
  /\ UNCHANGED <<socketVars, recvBuf, recvEnd, sent, answered, garbled, partial>>

(* What the socket takes lies behind what it has taken; the length that is *)
(* offered is that of all answers, each time                               *)
Byte(k) == IF k < BufSize THEN sendBuf[k] ELSE 0
Write(n) ==
  /\ place = "answers" /\ sent < sendOffset
  /\ sent' = sent + n /\ answered' = answered + n
  /\ garbled' = (garbled \/ \E k \in 0 .. n - 1 : Byte(sent + k) # answered + k + 1)
  /\ partial' = (partial \/ n < sendOffset)
  /\ UNCHANGED <<socketVars, recvVars, sendBuf, sendOffset, place, tickVars, tapIdle, executed, asked>>

AnswersSent ==
  /\ place = "answers" /\ sent >= sendOffset
  /\ place' = "check"
  /\ UNCHANGED <<socketVars, recvVars, sendVars, tickVars, tapIdle, executed, answerVars>>

(* Mutants of Yields: the buffer is refilled whatever has been processed;  *)
(* Run-Test/Idle is forgotten; or looked for where it has not been entered *)
YieldsWhenAsked == quit \/ enteredRti
YieldsIfMuch == total > BufSize \/ quit
YieldsInRti == total > BufSize \/ quit \/ tapIdle

(* "Don't go forever, because that could starve the main simulation"       *)
Yields == total > BufSize \/ quit \/ enteredRti

Yield ==
  /\ place = "check" /\ Yields
  /\ place' = "idle"
  /\ UNCHANGED <<socketVars, recvVars, sendVars, tickVars, tapIdle, executed, answerVars>>

Read(n) ==
  /\ place = "check" /\ ~Yields
  /\ n <= arrivals - delivered
  /\ recvStart' = 0 /\ recvEnd' = n
  /\ recvBuf' = [k \in Slots |-> IF k < n THEN delivered + k + 1 ELSE recvBuf[k]]
  /\ delivered' = delivered + n
  /\ NewBatch /\ place' = "commands"
  /\ UNCHANGED <<client, arrivals, clientFd, sendBuf, tickVars, tapIdle, executed, answerVars>>

(* Nothing has come in (EAGAIN), or the client has gone.  A Q ends the     *)
(* tick before it comes to close                                           *)
ReadNothing ==
  /\ place = "check" /\ ~Yields
  /\ arrivals = delivered /\ client # "none"
  /\ recvStart' = 0
  /\ IF client = "open" THEN recvEnd' = -1 /\ UNCHANGED <<client, clientFd>>
     ELSE recvEnd' = 0 /\ client' = "none" /\ clientFd' = FALSE
  /\ place' = "idle"
  /\ UNCHANGED <<arrivals, delivered, recvBuf, sendVars, tickVars, tapIdle, executed, answerVars>>

(* write fails (also with EAGAIN, when the socket is full), or read or     *)
(* accept does                                                             *)
Abort ==
  /\ \/ place = "answers" /\ sent < sendOffset
     \/ place = "check" /\ ~Yields /\ client = "closed"
     \/ place = "idle" /\ ~clientFd
  /\ place' = "aborted"
  /\ UNCHANGED <<socketVars, recvVars, sendVars, tickVars, tapIdle, executed, answerVars>>

(* The process is gone: no deadlock *)
Aborted == place = "aborted" /\ UNCHANGED bitbangVars

Server ==
  \/ Accept \/ Tick \/ Execute \/ AnswersSent \/ Yield \/ ReadNothing \/ Abort
  \/ \E n \in 1 .. BufSize : Read(n)
  \/ \E n \in 1 .. sendOffset : Write(n)

BitbangNext == Client \/ Server \/ Aborted

BitbangSpec == BitbangInit /\ [][BitbangNext]_bitbangVars
-----------------------------------------------------------------------------
(* As long as the socket takes what it is offered, the client is sent the  *)
(* answers to its R's, each once and in order, and all of them before the  *)
(* simulation goes on.                                                     *)
AnswersInOrder == ~partial => ~garbled /\ (place = "idle" => answered = asked)

(* An answer always has room in send_buf, though the R's of a tick may be  *)
(* more than it holds.                                                     *)
AnswersFit == place = "commands" => sendOffset < BufSize

(* A tick ends: it executes two buffers of commands at most.               *)
TickIsBounded == total <= 2 * BufSize

(* What tick promises of a buffer, a tick and a client: however much the   *)
(* client sends, the answers fit, they reach it in order, and the          *)
(* simulation goes on.                                                     *)
SocketServes == AnswersInOrder /\ AnswersFit /\ TickIsBounded

(* Every command is executed once and in order, across the ticks that stop *)
(* in the middle of a buffer and across clients: recv_start and recv_end   *)
(* outlive both.  None is executed between the TAP's coming into           *)
(* Run-Test/Idle and the end of the tick: the hart gets a quantum first    *)
(* for what it was told to do.                                             *)
CommandsInTurn == [][Execute => executed' = executed + 1 /\ ~settled]_bitbangVars

(* Each command that comes in is executed at some time, unless the         *)
(* simulator aborts: no tick that stops in the middle of a buffer, and no  *)
(* client that goes with commands yet to read, leaves any behind, and the  *)
(* ticks go on while the TAP stays in Run-Test/Idle.                       *)
CommandsServed ==
  \A n \in 1 .. MaxCommands : arrivals >= n ~> executed >= n \/ place = "aborted"
=============================================================================
