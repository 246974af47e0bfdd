------------------------------ MODULE Console ------------------------------
(***************************************************************************)
(* The console (kernel/console.c) and the UART driver (kernel/uart.c):     *)
(* the input ring that consoleintr() edits and consoleread() reads, the    *)
(* output ring that uartputc() fills and uartstart() empties, the echo     *)
(* that goes to the UART beside that ring, and the interrupt handler       *)
(* uartintr() that drives both.  The UART is an external actor: a receive  *)
(* register, a transmit FIFO, and an interrupt when the FIFO runs empty.   *)
(***************************************************************************)
EXTENDS Integers, Sequences, FiniteSets

CONSTANTS Proc, NoProc,
          Intr,            \* the interrupt handler; the PLIC runs one at a time
          NoKey,
          Char, CR, NL, EOF, ERASE, KILL,   \* the keys
          INPUT_BUF_SIZE, UINT,     \* input ring; where r, w and e wrap
          UART_TX_BUF_SIZE, UINT64, \* output ring; where its indices wrap
          MAXN,            \* bound on the length of a read
          MAXEVENTS,       \* bound on the number of keys and calls together
          START            \* what earlier input and output left the indices at

ASSUME ConsoleAssumption ==
    /\ INPUT_BUF_SIZE \in Nat \ {0} /\ UINT % INPUT_BUF_SIZE = 0 /\ UINT > INPUT_BUF_SIZE
    /\ UART_TX_BUF_SIZE \in Nat \ {0} /\ UINT64 % UART_TX_BUF_SIZE = 0
    /\ UINT64 > UART_TX_BUF_SIZE /\ START \in 0..(UINT - 1) /\ START \in 0..(UINT64 - 1)

VARIABLES buf, r, w, e, lk,      \* struct cons; who holds cons.lock
          txbuf, tr, tw, txlk,   \* uart_tx_buf, uart_tx_r, uart_tx_w, uart_tx_lock
          st, stc,               \* uartstart() of the holder of uart_tx_lock
          rx, fifo, txint,       \* UART: received key, bytes to send, interrupt
          ipc, key, echo, eret,  \* uartintr(): where it is, c, echoes left, return
          pc, n, got, och, killed, \* processes in consoleread() and uartputc()
          events           \* keys and calls so far

cons == <<buf, r, w, e>>
tx == <<txbuf, tr, tw>>
uart == <<rx, fifo, txint>>
handler == <<ipc, key, echo, eret>>
proc == <<pc, n, got, och, killed>>
vars == <<cons, lk, tx, txlk, st, stc, uart, handler, proc, events>>

Key == Char \cup {CR, EOF, ERASE, KILL}
Stored(c) == IF c = CR THEN NL ELSE c
Line == Char \cup {NL, EOF}

Init ==
    /\ buf = [k \in 0..(INPUT_BUF_SIZE - 1) |-> NL] /\ r = START /\ w = START /\ e = START
    /\ lk = NoProc /\ txlk = NoProc
    /\ txbuf = [k \in 0..(UART_TX_BUF_SIZE - 1) |-> NL] /\ tr = START /\ tw = START
    /\ st = "off" /\ stc = NL
    /\ rx = NoKey /\ fifo = 0 /\ txint = TRUE
    /\ ipc = "none" /\ key = NoKey /\ echo = 0 /\ eret = "none"
    /\ pc = [p \in Proc |-> "user"] /\ n = [p \in Proc |-> 0]
    /\ got = [p \in Proc |-> <<>>] /\ och = [p \in Proc |-> NL]
    /\ killed = [p \in Proc |-> FALSE]
    /\ events = 0

Goto(p, l) == pc' = [pc EXCEPT ![p] = l]

\* wakeup(&cons.r) and wakeup(&uart_tx_r): sleepers take the lock again.
WakeReaders(f) == [p \in Proc |-> IF f[p] = "r_asleep" THEN "r_lock" ELSE f[p]]
WakeWriters(f) == [p \in Proc |-> IF f[p] = "w_asleep" THEN "w_lock" ELSE f[p]]

Count(i, j) == (j - i) % UINT
-----------------------------------------------------------------------------
(* The UART: a key arrives, a byte leaves.                                 *)

Press(c) ==
    /\ rx = NoKey /\ rx' = c
    /\ events < MAXEVENTS /\ events' = events + 1
    /\ UNCHANGED <<cons, lk, tx, txlk, st, stc, fifo, txint, handler, proc>>

Transmit ==
    /\ fifo > 0 /\ fifo' = fifo - 1
    /\ txint' = (txint \/ fifo = 1)
    /\ UNCHANGED <<cons, lk, tx, txlk, st, stc, rx, handler, proc, events>>

\* WriteReg(THR, c) takes the interrupt back.
WriteThr == fifo' = fifo + 1 /\ txint' = FALSE
TxIdle == fifo = 0
-----------------------------------------------------------------------------
(* uartintr() and consoleintr().                                           *)

\* plic_claim(), when the UART interrupts, and each round of the loop.
Getc ==
    /\ ipc = "getc" \/ (ipc = "none" /\ (rx # NoKey \/ txint))
    /\ key' = rx /\ rx' = NoKey
    /\ ipc' = IF rx = NoKey THEN "tx" ELSE "cons"
    /\ UNCHANGED <<cons, lk, tx, txlk, st, stc, fifo, txint, echo, eret, proc, events>>

HasRoom == Count(r, e) < INPUT_BUF_SIZE
Erases ==
    /\ e # w
    /\ \/ key = ERASE
       \/ key = KILL /\ buf[(e - 1) % INPUT_BUF_SIZE] # NL

\* release(&cons.lock), and on with the next key.
Release ==
    /\ lk' = NoProc
    /\ ipc' = "getc" /\ key' = NoKey /\ echo' = 0 /\ eret' = "none"

\* consoleintr() takes cons.lock.  Backspace erases once, kill-line comes back
\* until the line is empty, and each erasure echoes "\b \b"; any other byte is
\* echoed first and stored after that.
Consoleintr ==
    /\ \/ ipc = "cons" /\ lk = NoProc
       \/ ipc = "kill"
    /\ \/ /\ Erases
          /\ lk' = Intr
          /\ e' = (e - 1) % UINT
          /\ ipc' = "echo" /\ echo' = 3
          /\ eret' = IF key = KILL THEN "kill" ELSE "done"
          /\ UNCHANGED key
       \/ /\ key \notin {ERASE, KILL} /\ HasRoom
          /\ lk' = Intr
          /\ ipc' = "echo" /\ echo' = 1 /\ eret' = "store"
          /\ UNCHANGED <<e, key>>
       \/ /\ IF key \in {ERASE, KILL} THEN ~Erases ELSE ~HasRoom
          /\ Release
          /\ UNCHANGED e
    /\ UNCHANGED <<buf, r, w, tx, txlk, st, stc, uart, proc, events>>

\* uartputc_sync(): spins until the UART is idle, then writes THR.
EchoWait ==
    /\ ipc = "echo" /\ TxIdle
    /\ ipc' = "echo_thr"
    /\ UNCHANGED <<cons, lk, tx, txlk, st, stc, uart, key, echo, eret, proc, events>>

EchoThr ==
    /\ ipc = "echo_thr"
    /\ WriteThr
    /\ \/ echo > 1 /\ echo' = echo - 1 /\ ipc' = "echo" /\ UNCHANGED <<lk, key, eret>>
       \/ echo = 1 /\ eret = "done" /\ Release
       \/ echo = 1 /\ eret # "done" /\ echo' = 0 /\ ipc' = eret /\ UNCHANGED <<lk, key, eret>>
    /\ UNCHANGED <<cons, tx, txlk, st, stc, rx, proc, events>>

\* Mutant: no wakeup(&cons.r).
StoreSilent ==
    LET ends == Stored(key) \in {NL, EOF} \/ Count(r, e) + 1 = INPUT_BUF_SIZE IN
    /\ ipc = "store"
    /\ buf' = [buf EXCEPT ![e % INPUT_BUF_SIZE] = Stored(key)]
    /\ e' = (e + 1) % UINT
    /\ \/ ends /\ w' = e' /\ UNCHANGED pc
       \/ ~ends /\ UNCHANGED <<w, pc>>
    /\ Release
    /\ UNCHANGED <<r, tx, txlk, st, stc, uart, n, got, och, killed, events>>

Store ==
    LET ends == Stored(key) \in {NL, EOF} \/ Count(r, e) + 1 = INPUT_BUF_SIZE IN
    /\ ipc = "store"
    /\ buf' = [buf EXCEPT ![e % INPUT_BUF_SIZE] = Stored(key)]
    /\ e' = (e + 1) % UINT
    /\ \/ ends /\ w' = e' /\ pc' = WakeReaders(pc)
       \/ ~ends /\ UNCHANGED <<w, pc>>
    /\ Release
    /\ UNCHANGED <<r, tx, txlk, st, stc, uart, n, got, och, killed, events>>

IntrStart ==
    /\ ipc = "tx" /\ txlk = NoProc
    /\ txlk' = Intr
    /\ st' = "loop"
    /\ ipc' = "start"
    /\ UNCHANGED <<cons, lk, tx, stc, uart, key, echo, eret, proc, events>>
-----------------------------------------------------------------------------
(* uartstart(), called by the holder of uart_tx_lock.                      *)

StartByte ==
    /\ st = "loop" /\ tw # tr /\ TxIdle
    /\ stc' = txbuf[tr % UART_TX_BUF_SIZE]
    /\ tr' = (tr + 1) % UINT64
    /\ pc' = WakeWriters(pc)
    /\ st' = "thr"
    /\ UNCHANGED <<cons, lk, txbuf, tw, txlk, uart, handler, n, got, och, killed, events>>

StartThr ==
    /\ st = "thr"
    /\ WriteThr
    /\ st' = "loop" /\ stc' = NL
    /\ UNCHANGED <<cons, lk, tx, txlk, rx, handler, proc, events>>

\* It returns, and its caller releases the lock; reading ISR when there is
\* nothing to send takes the transmit interrupt back, unless a key is there.
StartReturn ==
    /\ st = "loop"
    /\ \/ /\ tw = tr
          /\ txint' = (txint /\ rx # NoKey)
       \/ tw # tr /\ ~TxIdle /\ UNCHANGED txint
    /\ st' = "off"
    /\ txlk' = NoProc
    /\ \/ txlk = Intr /\ ipc' = "none" /\ UNCHANGED pc
       \/ txlk # Intr /\ Goto(txlk, "user") /\ UNCHANGED ipc
    /\ UNCHANGED <<cons, lk, tx, stc, rx, fifo, key, echo, eret, n, got, och, killed, events>>
-----------------------------------------------------------------------------
(* consolewrite(): uartputc(c) for each byte.                              *)

\* The first or the next byte; consolewrite() goes on when p is killed.
CallWrite(p, c) ==
    /\ pc[p] = "user"
    /\ Goto(p, "w_lock") /\ och' = [och EXCEPT ![p] = c]
    /\ events < MAXEVENTS /\ events' = events + 1
    /\ UNCHANGED <<cons, lk, tx, txlk, st, stc, uart, handler, n, got, killed>>

TxFull == tw = (tr + UART_TX_BUF_SIZE) % UINT64

\* sleep(&uart_tx_r, &uart_tx_lock) gives up the lock as it falls asleep.
WriteSleep(p) ==
    /\ pc[p] = "w_lock" /\ txlk = NoProc /\ TxFull
    /\ Goto(p, "w_asleep")
    /\ UNCHANGED <<cons, lk, tx, txlk, st, stc, uart, handler, n, got, och, killed, events>>

Putc(p) ==
    /\ pc[p] = "w_lock" /\ txlk = NoProc /\ ~TxFull
    /\ txlk' = p
    /\ txbuf' = [txbuf EXCEPT ![tw % UART_TX_BUF_SIZE] = och[p]]
    /\ tw' = (tw + 1) % UINT64
    /\ och' = [och EXCEPT ![p] = NL]
    /\ st' = "loop"
    /\ Goto(p, "start")
    /\ UNCHANGED <<cons, lk, tr, stc, uart, handler, n, got, killed, events>>
-----------------------------------------------------------------------------
(* consoleread().                                                          *)

CallRead(p, k) ==
    /\ pc[p] = "user" /\ ~killed[p]
    /\ Goto(p, "r_lock") /\ n' = [n EXCEPT ![p] = k]
    /\ events < MAXEVENTS /\ events' = events + 1
    /\ UNCHANGED <<cons, lk, tx, txlk, st, stc, uart, handler, got, och, killed>>

\* consoleread() holds cons.lock, or can take it.
Reads(p) == pc[p] = "read" \/ (pc[p] = "r_lock" /\ lk = NoProc)

\* release(&cons.lock) and return.
Return(p) ==
    /\ lk' = NoProc
    /\ Goto(p, "user")
    /\ n' = [n EXCEPT ![p] = 0] /\ got' = [got EXCEPT ![p] = <<>>]

ReadEmpty(p) ==
    /\ Reads(p) /\ n[p] > 0 /\ r = w
    /\ \/ killed[p] /\ Return(p)
       \/ ~killed[p] /\ lk' = p /\ Goto(p, "r_sleep") /\ UNCHANGED <<n, got>>
    /\ UNCHANGED <<cons, tx, txlk, st, stc, uart, handler, och, killed, events>>

ReadSleep(p) ==
    /\ pc[p] = "r_sleep"
    /\ lk' = NoProc
    /\ Goto(p, "r_asleep")
    /\ UNCHANGED <<cons, tx, txlk, st, stc, uart, handler, n, got, och, killed, events>>

\* Mutant: ^D is used up although the read returns something.
ReadByteEof(p) ==
    LET c == buf[r % INPUT_BUF_SIZE]
        next == (r + 1) % UINT
    IN
    /\ Reads(p) /\ n[p] > 0 /\ r # w
    /\ \/ c = EOF /\ r' = next /\ Return(p)
       \/ c # EOF /\ r' = next /\ Return(p)
       \/ /\ c # EOF /\ r' = next
          /\ got' = [got EXCEPT ![p] = Append(@, c)]
          /\ n' = [n EXCEPT ![p] = @ - 1]
          /\ Goto(p, IF c = NL THEN "r_done" ELSE "read")
          /\ lk' = p
    /\ UNCHANGED <<buf, w, e, tx, txlk, st, stc, uart, handler, och, killed, events>>

\* One byte; a failing either_copyout() loses it.  ^D is left for the next
\* read if this one has something to return.
ReadByte(p) ==
    LET c == buf[r % INPUT_BUF_SIZE]
        next == (r + 1) % UINT
    IN
    /\ Reads(p) /\ n[p] > 0 /\ r # w
    /\ \/ c = EOF /\ r' = (IF got[p] = <<>> THEN next ELSE r) /\ Return(p)
       \/ c # EOF /\ r' = next /\ Return(p)
       \/ /\ c # EOF /\ r' = next
          /\ got' = [got EXCEPT ![p] = Append(@, c)]
          /\ n' = [n EXCEPT ![p] = @ - 1]
          /\ Goto(p, IF c = NL THEN "r_done" ELSE "read")
          /\ lk' = p
    /\ UNCHANGED <<buf, w, e, tx, txlk, st, stc, uart, handler, och, killed, events>>

ReadDone(p) ==
    /\ pc[p] = "r_done" \/ (Reads(p) /\ n[p] = 0)
    /\ Return(p)
    /\ UNCHANGED <<cons, tx, txlk, st, stc, uart, handler, och, killed, events>>

\* kill() of a process that is in a call: a sleeper wakes.  It exits when it
\* leaves the kernel.
Kill(p) ==
    /\ pc[p] # "user" /\ ~killed[p]
    /\ killed' = [killed EXCEPT ![p] = TRUE]
    /\ pc' = [pc EXCEPT ![p] = CASE @ = "r_asleep" -> "r_lock"
                                 [] @ = "w_asleep" -> "w_lock"
                                 [] OTHER -> @]
    /\ UNCHANGED <<cons, lk, tx, txlk, st, stc, uart, handler, n, got, och, events>>

Uartintr ==
    Getc \/ Consoleintr \/ EchoWait \/ EchoThr \/ Store \/ IntrStart
Uartstart == StartByte \/ StartThr \/ StartReturn
Uartputc(p) == WriteSleep(p) \/ Putc(p)
Consoleread(p) ==
    ReadEmpty(p) \/ ReadSleep(p) \/ ReadByte(p) \/ ReadDone(p)

Next ==
    \/ Transmit \/ Uartintr \/ Uartstart
    \/ \E c \in Key : Press(c)
    \/ \E p \in Proc :
          \/ Uartputc(p) \/ Consoleread(p) \/ Kill(p)
          \/ \E c \in Char \cup {NL} : CallWrite(p, c)
          \/ \E k \in 1..MAXN : CallRead(p, k)

Spec == Init /\ [][Next]_vars
-----------------------------------------------------------------------------
(* Properties.                                                             *)

\* The type of every variable.  The echo does not take uart_tx_lock, so that it and
\* uartstart() may both find the UART idle and write, but no third byte comes.
TypeOK ==
    /\ buf \in [0..(INPUT_BUF_SIZE - 1) -> Line] /\ {r, w, e} \subseteq 0..(UINT - 1)
    /\ txbuf \in [0..(UART_TX_BUF_SIZE - 1) -> Line] /\ {tr, tw} \subseteq 0..(UINT64 - 1)
    /\ {lk, txlk} \subseteq Proc \cup {Intr, NoProc}
    /\ st \in {"off", "loop", "thr"} /\ stc \in Line
    /\ rx \in Key \cup {NoKey} /\ fifo \in 0..2 /\ txint \in BOOLEAN
    /\ ipc \in {"none", "getc", "cons", "kill", "echo", "echo_thr", "store", "tx", "start"}
    /\ key \in Key \cup {NoKey} /\ echo \in 0..3
    /\ eret \in {"none", "store", "kill", "done"}
    /\ pc \in [Proc -> {"user", "w_lock", "w_asleep", "start", "r_lock", "read",
                        "r_sleep", "r_asleep", "r_done"}]
    /\ n \in [Proc -> 0..MAXN] /\ killed \in [Proc -> BOOLEAN]
    /\ \A p \in Proc : got[p] \in Seq(Line) /\ och[p] \in Line
    /\ events \in 0..MAXEVENTS

\* The entries of a ring from index i to index j, the indices wrapping at m.
Ring(b, size, i, j, m) == [k \in 1..((j - i) % m) |-> b[(i + k - 1) % size]]

\* The console is the terminal of Terminal: no key that was echoed is lost or
\* read twice, only the unfinished line can be erased, ^D ends a read exactly
\* once, and output reaches the UART in the order of uartputc(), also when the
\* indices of a ring wrap round.
Abstract == INSTANCE Terminal WITH
    Key <- Line, InCap <- INPUT_BUF_SIZE, OutCap <- UART_TX_BUF_SIZE + 1,
    line <- Ring(buf, INPUT_BUF_SIZE, w, e, UINT),
    queue <- Ring(buf, INPUT_BUF_SIZE, r, w, UINT),
    out <- (IF st = "thr" THEN <<stc>> ELSE <<>>)
              \o Ring(txbuf, UART_TX_BUF_SIZE, tr, tw, UINT64)
TerminalSpec == Abstract!Spec

\* Nobody waits for what has happened.  A reader sleeps only while no line is
\* there, a writer only while the output ring is full: whoever changes that has
\* called wakeup() before the lock is free.  And a byte in the output ring never
\* waits for an interrupt that does not come: the UART is sending or its
\* interrupt is pending, or the handler will still call uartstart(); the echo,
\* which also writes THR and so takes the transmit interrupt back, does not
\* break that.
NoLostWakeup ==
    /\ TypeOK
    /\ \A p \in Proc : /\ pc[p] = "r_asleep" /\ lk = NoProc => r = w
                       /\ pc[p] = "w_asleep" /\ txlk = NoProc => TxFull
    /\ tr # tw /\ txlk = NoProc => fifo > 0 \/ txint \/ ipc \notin {"none", "start"}
=============================================================================
