------------------------------- MODULE Serial -------------------------------
(***************************************************************************)
(* The 8250 UART of src/src/serial.c.  Two threads share it: the worker    *)
(* (serial_thread), which moves bytes from the terminal into rx_buf, and   *)
(* the vCPU thread, which runs serial_in/serial_out for each register      *)
(* access of the guest and, when the guest shuts down, serial_exit.        *)
(*                                                                         *)
(* The mutex covers rx_buf, lsr, ier, iir and the interrupt line.  The     *)
(* vCPU's critical sections are single steps that need the mutex free; the *)
(* worker's is cut into steps, because the guest reads iir and lsr without *)
(* the mutex.  Reads of registers that change nothing are not actions.     *)
(***************************************************************************)
EXTENDS Fifo

CONSTANTS EscapeChar,   \* TERMINAL_ESCAPE_CHAR, Ctrl-A
          ExitChar,     \* TERMINAL_EXIT_CHAR, 'x'
          Nul,          \* the byte static storage is filled with
          RegVals,      \* values of the registers that are only stored
          ResetVal,     \* their value at power-on
          MayHangUp,    \* whether the terminal may reach end of file
          MaxTyped,     \* bound: bytes typed
          MaxFaults     \* bound: failed reads, and reads past end of file

ASSUME SerialAssumption ==
    /\ EscapeChar \in Byte /\ ExitChar \in Byte /\ EscapeChar # ExitChar
    /\ Nul \in Byte
    /\ ResetVal \in RegVals
    /\ MayHangUp \in BOOLEAN
    /\ MaxTyped \in Nat /\ MaxFaults \in Nat

VARIABLES
    rx_buf,       \* priv->rx_buf
    lsr,          \* priv->lsr, the set of its bits that are on
    ier,          \* priv->ier, likewise
    iir,          \* priv->iir, the interrupt it identifies
    dlab,         \* the DLAB bit of priv->lcr
    regs,         \* priv->dll, dlm, fcr, mcr and scr: stored, never acted on
    irq,          \* level of the interrupt line (KVM_IRQ_LINE)
    wpc,          \* where the worker is
    lock,         \* whether the worker holds priv->lock between two steps
    escaped,      \* serial_console's static flag
    thread_stop,  \* asks the worker to leave its loop
    main,         \* the vCPU thread: "run", "join" in serial_exit, "joined"
    exited,       \* exit(0) was called
    typed,        \* everything typed at the terminal
    rd,           \* how many of those bytes have been read from stdin
    eof,          \* the terminal is closed
    faults,       \* failed reads and reads past the end of file so far
    received      \* everything the guest has read from RX

device == <<rx_buf, lsr, ier, iir, dlab, regs, irq>>
threads == <<wpc, lock, escaped, thread_stop, main, exited>>
terminal == <<typed, rd, eof, faults>>
vars == <<device, threads, terminal, received>>

Lsr == {"DR", "TEMT", "THRE"}
Ier == {"RDI", "THRI"}
Iir == {"NO_INT", "RDI", "THRI"}
StoredRegs == {"dll", "dlm", "fcr", "mcr", "scr"}
WorkerPc == {"check", "poll", "lock", "wait", "woken", "console", "ready",
             "iir", "irq", "stopped"}

TypeOK ==
    /\ rx_buf \in Fifos
    /\ lsr \in SUBSET Lsr
    /\ ier \in SUBSET Ier
    /\ iir \in Iir
    /\ dlab \in BOOLEAN
    /\ regs \in [StoredRegs -> RegVals]
    /\ irq \in BOOLEAN
    /\ wpc \in WorkerPc
    /\ lock \in BOOLEAN
    /\ escaped \in BOOLEAN
    /\ thread_stop \in BOOLEAN
    /\ main \in {"run", "join", "joined"}
    /\ exited \in BOOLEAN
    /\ typed \in Seq(Byte)
    /\ rd \in 0 .. Len(typed)
    /\ eof \in BOOLEAN
    /\ faults \in Nat
    /\ received \in Seq(Byte)

Init ==
    /\ rx_buf = [data |-> [i \in 0 .. FIFO_MASK |-> Nul], head |-> 0, tail |-> 0]
    /\ lsr = {"TEMT", "THRE"}
    /\ ier = {}
    /\ iir = "NO_INT"
    /\ dlab = FALSE
    /\ regs = [r \in StoredRegs |-> ResetVal]
    /\ irq = FALSE
    /\ wpc = "check"
    /\ lock = FALSE
    /\ escaped = FALSE
    /\ thread_stop = FALSE
    /\ main = "run"
    /\ exited = FALSE
    /\ typed = <<>>
    /\ rd = 0
    /\ eof = FALSE
    /\ faults = 0
    /\ received = <<>>

-----------------------------------------------------------------------------
(* The interrupt serial_update_irq identifies, receive before transmit.    *)
IirOf(i, l) ==
    IF "RDI" \in i /\ "DR" \in l THEN "RDI"
    ELSE IF "THRI" \in i /\ "TEMT" \in l THEN "THRI"
    ELSE "NO_INT"

(* serial_update_irq, run on the values ier and lsr have been given.       *)
serial_update_irq ==
    /\ iir' = IirOf(ier', lsr')
    /\ irq' = (iir' # "NO_INT")

(* Whether poll(2) says stdin can be read: at end of file it always can.   *)
serial_readable == rd < Len(typed) \/ (eof /\ faults < MaxFaults)

-----------------------------------------------------------------------------
(* serial_thread, outside the critical section.  poll(2) is not            *)
(* interrupted: no signal handler is installed.                            *)

WorkerCheck ==
    /\ wpc = "check"
    /\ wpc' = IF thread_stop THEN "stopped" ELSE "poll"
    /\ UNCHANGED <<device, lock, escaped, thread_stop, main, exited, terminal,
                   received>>

WorkerPoll ==
    /\ wpc = "poll"
    /\ serial_readable
    /\ wpc' = "lock"
    /\ UNCHANGED <<device, lock, escaped, thread_stop, main, exited, terminal,
                   received>>

(* poll(2) returns with the hang-up only, and the loop starts over.        *)
WorkerPollHangUp ==
    /\ wpc = "poll"
    /\ eof /\ rd = Len(typed)
    /\ wpc' = "check"
    /\ UNCHANGED <<device, lock, escaped, thread_stop, main, exited, terminal,
                   received>>

(* Take the mutex; pthread_cond_wait gives it back at once.                *)
WorkerLock ==
    /\ wpc = "lock"
    /\ ~lock
    /\ IF fifo_is_full(rx_buf)
         THEN wpc' = "wait" /\ lock' = FALSE
         ELSE wpc' = "console" /\ lock' = TRUE
    /\ UNCHANGED <<device, escaped, thread_stop, main, exited, terminal, received>>

(* pthread_cond_wait may return without a signal.                          *)
SpuriousWakeup ==
    /\ wpc = "wait"
    /\ wpc' = "woken"
    /\ UNCHANGED <<device, lock, escaped, thread_stop, main, exited, terminal,
                   received>>

(* A woken waiter takes the mutex again and does not re-test for full.     *)
WorkerRelock ==
    /\ wpc = "woken"
    /\ ~lock
    /\ wpc' = "console"
    /\ lock' = TRUE
    /\ UNCHANGED <<device, escaped, thread_stop, main, exited, terminal, received>>

-----------------------------------------------------------------------------
(* Variant: the flag is not cleared after an escaped byte.                 *)
ConsumeStaysEscaped(c) ==
    \/ /\ escaped /\ c = ExitChar
       /\ exited' = TRUE
       /\ UNCHANGED <<rx_buf, escaped, wpc>>
    \/ /\ ~(escaped /\ c = ExitChar)
       /\ escaped' = (escaped \/ c = EscapeChar)
       /\ rx_buf' = IF escaped' /\ ~escaped THEN rx_buf ELSE fifo_put(rx_buf, c)
       /\ wpc' = IF escaped' /\ ~escaped THEN wpc ELSE "ready"
       /\ UNCHANGED exited

(* serial_console: what the loop does with the byte c it has read, up to   *)
(* the put.                                                                *)
Consume(c) ==
    \/ /\ escaped /\ c = ExitChar
       /\ exited' = TRUE
       /\ UNCHANGED <<rx_buf, escaped, wpc>>
    \/ /\ ~escaped /\ c = EscapeChar
       /\ escaped' = TRUE
       /\ UNCHANGED <<rx_buf, exited, wpc>>
    \/ /\ IF escaped THEN c # ExitChar ELSE c # EscapeChar
       /\ escaped' = FALSE
       /\ rx_buf' = fifo_put(rx_buf, c)
       /\ wpc' = "ready"
       /\ UNCHANGED exited

(* One turn of the loop: read(2) yields the next byte typed.               *)
ConsoleRead ==
    /\ wpc = "console"
    /\ ~fifo_is_full(rx_buf)
    /\ rd < Len(typed)
    /\ rd' = rd + 1
    /\ Consume(typed[rd + 1])
    /\ UNCHANGED <<lsr, ier, iir, dlab, regs, irq, lock, thread_stop, main,
                   typed, eof, faults, received>>

(* At end of file read(2) returns 0, which the code does not tell from 1:  *)
(* it goes on with the uninitialised variable c.                           *)
ConsoleReadEof ==
    /\ wpc = "console"
    /\ ~fifo_is_full(rx_buf)
    /\ rd = Len(typed)
    /\ serial_readable
    /\ faults' = faults + 1
    /\ \E c \in Byte : Consume(c)
    /\ UNCHANGED <<lsr, ier, iir, dlab, regs, irq, lock, thread_stop, main,
                   typed, rd, eof, received>>

(* The store of LSR that follows the put: the guest may look in between.   *)
ConsoleReady ==
    /\ wpc = "ready"
    /\ lsr' = lsr \cup {"DR"}
    /\ wpc' = "console"
    /\ UNCHANGED <<rx_buf, ier, iir, dlab, regs, irq, lock, escaped,
                   thread_stop, main, exited, terminal, received>>

(* read(2) fails: the loop is left, the byte stays in the terminal.        *)
ConsoleReadFails ==
    /\ wpc = "console"
    /\ ~fifo_is_full(rx_buf)
    /\ rd < Len(typed)
    /\ faults < MaxFaults
    /\ faults' = faults + 1
    /\ wpc' = "iir"
    /\ UNCHANGED <<device, lock, escaped, thread_stop, main, exited, typed, rd,
                   eof, received>>

ConsoleEnd ==
    /\ wpc = "console"
    /\ fifo_is_full(rx_buf) \/ ~serial_readable
    /\ wpc' = "iir"
    /\ UNCHANGED <<device, lock, escaped, thread_stop, main, exited, terminal,
                   received>>

(* The worker's serial_update_irq: the store to iir, seen by the guest     *)
(* before the line moves; then KVM_IRQ_LINE and the unlock.                *)
WorkerIir ==
    /\ wpc = "iir"
    /\ iir' = IirOf(ier, lsr)
    /\ wpc' = "irq"
    /\ UNCHANGED <<rx_buf, lsr, ier, dlab, regs, irq, lock, escaped,
                   thread_stop, main, exited, terminal, received>>

WorkerIrq ==
    /\ wpc = "irq"
    /\ irq' = (iir # "NO_INT")
    /\ wpc' = "check"
    /\ lock' = FALSE
    /\ UNCHANGED <<rx_buf, lsr, ier, iir, dlab, regs, escaped, thread_stop,
                   main, exited, terminal, received>>

-----------------------------------------------------------------------------
(* The guest's register accesses, on the vCPU thread.                      *)

(* pthread_cond_signal: there is one possible waiter, the worker.          *)
Signal == wpc' = IF wpc = "wait" THEN "woken" ELSE wpc

WakeOneLater(f) == fifo_capacity(f) = (FIFO_LEN \div 2) - 1   \* variant
WakeNever(f) == fifo_capacity(f) = FIFO_LEN                   \* variant

(* The worker is signalled room for half a buffer, when exactly that much   *)
(* has been drained.                                                       *)
WakeThreshold(f) == fifo_capacity(f) = FIFO_LEN \div 2

(* Variants: DR is not cleared; the interrupt is not re-evaluated.         *)
RxDrainedKeepsDR(f) ==
    IF fifo_is_empty(f) THEN UNCHANGED lsr /\ serial_update_irq
                        ELSE UNCHANGED <<lsr, iir, irq>>
RxDrainedKeepsIir(f) ==
    /\ lsr' = IF fifo_is_empty(f) THEN lsr \ {"DR"} ELSE lsr
    /\ UNCHANGED <<iir, irq>>

(* The interrupt is re-evaluated by a read of RX only when it empties the  *)
(* buffer.                                                                 *)
RxDrained(f) ==
    IF fifo_is_empty(f)
      THEN lsr' = lsr \ {"DR"} /\ serial_update_irq
      ELSE UNCHANGED <<lsr, iir, irq>>

(* serial_in of UART_RX with DLAB off; with DLAB on it reads dll.          *)
SerialInRX ==
    /\ main = "run" /\ ~lock /\ ~dlab
    /\ IF fifo_is_empty(rx_buf)
         THEN UNCHANGED <<rx_buf, received>>
         ELSE /\ received' = Append(received, fifo_front(rx_buf))
              /\ rx_buf' = fifo_get(rx_buf)
    /\ UNCHANGED ier
    /\ RxDrained(rx_buf')
    /\ IF WakeThreshold(rx_buf') THEN Signal ELSE UNCHANGED wpc
    /\ UNCHANGED <<dlab, regs, lock, escaped, thread_stop, main, exited, terminal>>

(* serial_out of UART_TX with DLAB off: the byte is on the terminal before *)
(* the mutex is taken, so the transmitter is always empty again.           *)
SerialOutTX ==
    /\ main = "run" /\ ~lock /\ ~dlab
    /\ lsr' = lsr \cup {"TEMT", "THRE"}
    /\ UNCHANGED ier
    /\ serial_update_irq
    /\ UNCHANGED <<rx_buf, dlab, regs, threads, terminal, received>>

(* Variant: the interrupt is not re-evaluated for the new enables.         *)
SerialOutIERQuiet(v) ==
    /\ main = "run" /\ ~lock /\ ~dlab
    /\ ier' = v
    /\ UNCHANGED <<rx_buf, lsr, iir, irq, dlab, regs, threads, terminal, received>>

(* serial_out of UART_IER with DLAB off.                                   *)
SerialOutIER(v) ==
    /\ main = "run" /\ ~lock /\ ~dlab
    /\ ier' = v
    /\ UNCHANGED lsr
    /\ serial_update_irq
    /\ UNCHANGED <<rx_buf, dlab, regs, threads, terminal, received>>

(* serial_out of UART_LCR, which takes no lock.                            *)
SerialOutLCR(b) ==
    /\ main = "run"
    /\ dlab' = b
    /\ UNCHANGED <<rx_buf, lsr, ier, iir, regs, irq, threads, terminal, received>>

(* serial_out of a register that is only stored: FCR, MCR and SCR always,  *)
(* DLL and DLM (at the offsets of TX and IER) with DLAB on.                *)
SerialOutStored(r, v) ==
    /\ main = "run"
    /\ r \in {"dll", "dlm"} => dlab
    /\ regs' = [regs EXCEPT ![r] = v]
    /\ UNCHANGED <<rx_buf, lsr, ier, iir, dlab, irq, threads, terminal, received>>

(* serial_exit: ask the worker to stop, then wait for it to end.           *)
SerialExit ==
    /\ main = "run"
    /\ thread_stop' = TRUE
    /\ main' = "join"
    /\ UNCHANGED <<device, wpc, lock, escaped, exited, terminal, received>>

SerialJoin ==
    /\ main = "join"
    /\ wpc = "stopped"
    /\ main' = "joined"
    /\ UNCHANGED <<device, wpc, lock, escaped, thread_stop, exited, terminal,
                   received>>

-----------------------------------------------------------------------------
(* The terminal.                                                           *)

TypeChar(c) ==
    /\ Len(typed) < MaxTyped /\ ~eof
    /\ typed' = Append(typed, c)
    /\ UNCHANGED <<device, threads, rd, eof, faults, received>>

HangUp ==
    /\ MayHangUp /\ ~eof
    /\ eof' = TRUE
    /\ UNCHANGED <<device, threads, typed, rd, faults, received>>

-----------------------------------------------------------------------------
Worker ==
    \/ WorkerCheck \/ WorkerPoll \/ WorkerPollHangUp \/ WorkerLock \/ WorkerRelock
    \/ ConsoleRead \/ ConsoleReadEof \/ ConsoleReady \/ ConsoleReadFails \/ ConsoleEnd
    \/ WorkerIir \/ WorkerIrq

Guest ==
    \/ SerialInRX
    \/ SerialOutTX
    \/ \E v \in SUBSET Ier : SerialOutIER(v)
    \/ \E b \in BOOLEAN : SerialOutLCR(b)
    \/ \E r \in StoredRegs, v \in RegVals : SerialOutStored(r, v)
    \/ SerialExit
    \/ SerialJoin

Terminal == HangUp \/ \E c \in Byte : TypeChar(c)

(* Once exit(0) has been called, or serial_exit has returned, no thread    *)
(* uses the device any more.                                               *)
Finished == exited \/ main = "joined"

Next == ~Finished /\ (Worker \/ SpuriousWakeup \/ Guest \/ Terminal)

Spec == Init /\ [][Next]_vars

(* A runnable thread gets to run.  Nothing is assumed of the terminal, of  *)
(* spurious wakeups, or of a guest that has not been interrupted.          *)
WorkerFairness == WF_vars(~Finished /\ Worker)
JoinFairness == WF_vars(~Finished /\ SerialJoin)

(* The interrupt handler of the guest's 8250 driver: while the line is     *)
(* high with received data identified, it reads RX.  Fairness is strong    *)
(* because the mutex is taken and given back by the worker meanwhile: a    *)
(* thread blocked on it gets it in the end.                                *)
GuestFairness == SF_vars(~Finished /\ irq /\ iir = "RDI" /\ SerialInRX)

FairSpec == Spec /\ WorkerFairness /\ JoinFairness
LiveSpec == FairSpec /\ GuestFairness

-----------------------------------------------------------------------------
(* Properties.                                                             *)

(* LSR.DR, which the guest polls without the mutex, is never on without a  *)
(* byte in rx_buf: serial_console sets it after the put, serial_in clears  *)
(* it when the last byte is taken.  Between the put and the store a byte   *)
(* waits that DR does not show yet, but the mutex is given back only with  *)
(* DR on whenever there is a byte.                                         *)
DataReady ==
    /\ "DR" \in lsr => ~fifo_is_empty(rx_buf)
    /\ ~lock => ("DR" \in lsr <=> ~fifo_is_empty(rx_buf))

(* Whenever the mutex is free, IIR and the interrupt line say what IER and *)
(* LSR call for: no path that changes ier or lsr under the mutex gives it  *)
(* back without a serial_update_irq, so no interrupt is lost or stuck.     *)
LineSettled ==
    ~lock => /\ iir = IirOf(ier, lsr)
             /\ irq = (iir # "NO_INT")

(* An interrupt handler that finds "received data" in IIR finds a byte in  *)
(* RX, also in the middle of the worker's critical section.                *)
RdiHasData == iir = "RDI" => ~fifo_is_empty(rx_buf)

(* No lost wakeup: the worker sleeps on the condition variable only while  *)
(* the read of RX that will reach the half-full mark, and signal it, is    *)
(* still to come.  The signal is sent at that one mark only.               *)
WaiterHasBacklog == wpc = "wait" => fifo_capacity(rx_buf) > FIFO_LEN \div 2

(* The ring never holds more than its length, also when its counters wrap, *)
(* and with a waiter that is woken without a signal while the ring is full.*)
RingBounded == fifo_capacity(rx_buf) <= FIFO_LEN

(* Everything typed is taken and read by the guest, or ends the program,   *)
(* as long as the guest's driver stays set up to be interrupted.           *)
DriverReady == "RDI" \in ier /\ ~dlab /\ main = "run"
Delivered == rd = Len(typed) /\ fifo_is_empty(rx_buf)
InputDelivered ==
    <>[]DriverReady /\ []~eof => []<>(Delivered \/ exited)

(* The terminal bytes as an abstract queue (module Console).               *)
C == INSTANCE Console WITH
        Capacity <- FIFO_LEN,
        input <- typed, hungup <- eof, taken <- rd, prefix <- escaped,
        queue <- fifo_contents(rx_buf), delivered <- received, over <- exited

(* serial.c implements the console: each byte typed goes through the       *)
(* escape filter once, in order, into a queue of FIFO_LEN bytes that the   *)
(* guest reads from the other end, whatever the two threads do; only after *)
(* a hang-up, and behind all that was typed, come bytes nobody typed.      *)
ConsoleSpec == C!Spec

(* What the README promises of the terminal: Ctrl-A and then x ends        *)
(* kvm-host.                                                               *)
ExitTyped ==
    \E i \in 1 .. Len(typed) - 1 :
        /\ typed[i] = EscapeChar
        /\ typed[i + 1] = ExitChar
        /\ \A j \in 1 .. i - 1 : typed[j] # EscapeChar
CtrlAxExits == ExitTyped ~> (exited \/ thread_stop)
=============================================================================
