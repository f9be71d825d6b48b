-------------------------------- MODULE Serial --------------------------------
(***************************************************************************)
(* The serial framework (components/drivers/serial/serial.c) with the open *)
(* counts of rt_device_open and rt_device_close (device.c): what is opened *)
(* and closed, and how threads send, by DMA through a data queue or byte   *)
(* by byte with an interrupt.  The data queue and the completion keep what *)
(* their own modules promise.  Threads are interleaved in any order, the   *)
(* hardware and its handlers with them.                                    *)
(***************************************************************************)
EXTENDS Integers, Sequences, FiniteSets

CONSTANTS Writer,       \* threads that write
          Data,         \* what is written
          User,         \* threads that open and close the device
          ModeSets,     \* sets of modes; a mode is the flags of an open
          LateTx,       \* may an open of the open device be the first to send
          QueueSize,    \* entries of the data queue
          OpenMax,      \* bound: how often the device is open
          Nothing

ASSUME SerialType ==
  /\ \A modes \in ModeSets :
       modes \subseteq SUBSET {"INT_RX", "DMA_RX", "INT_TX", "DMA_TX"}
  /\ {QueueSize, OpenMax} \subseteq Nat \ {0}
  /\ LateTx \in BOOLEAN
  /\ Nothing \notin Data

VARIABLES modes,       \* the modes in which this device is opened
          ref_count, open_flag,
          serial_rx, serial_tx,  \* what they point to
          heap,        \* ghost: the structures that are allocated
          interrupts,  \* enabled at the low level
          user, oflag, \* where each user is in open or close, and what it opens
          asserted     \* what has stopped the system, see RxInd and below

VARIABLES data_queue, activated,
          dma,         \* what the DMA is sending
          busy,        \* the transmit register is not empty
          done,        \* the completion of tx_fifo is completed
          writer, data,\* where each writer is, with what
          skipped      \* ghost: data that left the queue without being sent

openvars == <<modes, ref_count, open_flag, serial_rx, serial_tx, heap,
              interrupts, user, oflag, asserted>>
sendvars == <<data_queue, activated, dma, busy, done, writer, data, skipped>>
serialvars == <<openvars, sendvars>>

Structures == {"rx_fifo", "rx_dma", "tx_fifo", "tx_dma"}

UserPlace == {"run", "store_rx", "test_tx", "store_tx", "count",   \* open
              "free_rx", "clear_rx", "free_tx", "clear_tx", "closed"} \* close

SerialTypeOK ==
  /\ modes \in ModeSets
  /\ ref_count \in 0 .. OpenMax
  /\ open_flag \subseteq {"INT_RX", "DMA_RX", "INT_TX", "DMA_TX"}
  /\ {serial_rx, serial_tx} \subseteq Structures \cup {"NULL"}
  /\ heap \subseteq Structures
  /\ interrupts \subseteq {"RX", "TX"}
  /\ user \in [User -> UserPlace]
  /\ oflag \in [User -> modes \cup {{}}]
  /\ asserted \subseteq {"replaced", "close", "isr", "freed"}
  /\ data_queue \in Seq(Data) /\ Len(data_queue) <= QueueSize
  /\ {activated, busy, done} \subseteq BOOLEAN
  /\ dma \in Data \cup {Nothing}
  /\ writer \in [Writer -> {"run", "push", "pushed", "transmit", "putc", "wait",
                           "asleep"}]
  /\ data \in [Writer -> Data \cup {Nothing}]
  /\ skipped \subseteq Data

SerialInit ==
  /\ modes \in ModeSets
  /\ ref_count = 0 /\ open_flag = {}
  /\ serial_rx = "NULL" /\ serial_tx = "NULL"
  /\ heap = {} /\ interrupts = {} /\ asserted = {}
  /\ user = [u \in User |-> "run"] /\ oflag = [u \in User |-> {}]
  /\ data_queue = << >> /\ activated = FALSE /\ dma = Nothing
  /\ busy = FALSE /\ done = FALSE
  /\ writer = [w \in Writer |-> "run"]
  /\ data = [w \in Writer |-> Nothing]
  /\ skipped = {}

SerialRuns == asserted = {}

-----------------------------------------------------------------------------
(* rt_device_open with rt_serial_open; rt_malloc, which may wait for the    *)
(* heap, has memory.  Users in the middle of it and everybody else are      *)
(* interleaved.                                                             *)

UserGoes(u, place) == user' = [user EXCEPT ![u] = place]

RxKind(mode) == IF "DMA_RX" \in mode THEN "rx_dma"
                ELSE IF "INT_RX" \in mode THEN "rx_fifo" ELSE "NULL"
TxKind(mode) == IF "DMA_TX" \in mode THEN "tx_dma"
                ELSE IF "INT_TX" \in mode THEN "tx_fifo" ELSE "NULL"

\* As far as the test of serial_rx.
SerialOpen(u, mode) ==
  /\ SerialRuns /\ user[u] = "run" /\ ref_count < OpenMax
  /\ LateTx \/ ref_count = 0 \/ serial_tx # "NULL" \/ TxKind(mode) = "NULL"
  /\ open_flag' = mode /\ oflag' = [oflag EXCEPT ![u] = mode]
  /\ UserGoes(u, IF serial_rx = "NULL" THEN "store_rx" ELSE "test_tx")
  /\ UNCHANGED <<modes, ref_count, serial_rx, serial_tx, heap, interrupts,
                 asserted, sendvars>>

\* What another user has stored meanwhile is replaced; the model goes no
\* further.
StoreRx(u) ==
  LET rx == RxKind(oflag[u])
  IN /\ SerialRuns /\ user[u] = "store_rx"
     /\ asserted' = IF serial_rx # "NULL" THEN {"replaced"} ELSE {}
     /\ serial_rx' = rx
     /\ heap' = heap \cup ({rx} \ {"NULL"})
     /\ interrupts' = interrupts \cup (IF rx = "rx_fifo" THEN {"RX"} ELSE {})
     /\ UserGoes(u, "test_tx")
     /\ UNCHANGED <<modes, ref_count, open_flag, serial_tx, oflag, sendvars>>

TestTx(u) ==
  /\ SerialRuns /\ user[u] = "test_tx"
  /\ UserGoes(u, IF serial_tx = "NULL" THEN "store_tx" ELSE "count")
  /\ UNCHANGED <<modes, ref_count, open_flag, serial_rx, serial_tx, heap,
                 interrupts, oflag, asserted, sendvars>>

StoreTx(u) ==
  LET tx == TxKind(oflag[u])
  IN /\ SerialRuns /\ user[u] = "store_tx"
     /\ asserted' = IF serial_tx # "NULL" THEN {"replaced"} ELSE {}
     /\ serial_tx' = tx
     /\ heap' = heap \cup ({tx} \ {"NULL"})
     /\ interrupts' = interrupts \cup (IF tx = "tx_fifo" THEN {"TX"} ELSE {})
     /\ activated' = FALSE /\ done' = FALSE /\ data_queue' = << >>
     /\ UserGoes(u, "count")
     /\ UNCHANGED <<modes, ref_count, open_flag, serial_rx, oflag, dma, busy,
                    writer, data, skipped>>

\* The end, in rt_device_open.
CountOpen(u) ==
  /\ SerialRuns /\ user[u] = "count"
  /\ open_flag' = oflag[u]
  /\ ref_count' = ref_count + 1
  /\ UserGoes(u, "run") /\ oflag' = [oflag EXCEPT ![u] = {}]
  /\ UNCHANGED <<modes, serial_rx, serial_tx, heap, interrupts, asserted,
                 sendvars>>

-----------------------------------------------------------------------------
(* rt_device_close with rt_serial_close *)

\* Nobody is in a call, and what was written has been sent: the last close is
\* made then.
Quiet == /\ \A w \in Writer : writer[w] = "run"
         /\ data_queue = << >> /\ dma = Nothing /\ ~busy

\* Faulty variant: every close frees.
SerialCloseFrees(u) ==
  /\ SerialRuns /\ user[u] = "run"
  /\ ref_count > 0 /\ (ref_count = 1 => Quiet)
  /\ ref_count' = ref_count - 1
  /\ UserGoes(u, "free_rx")
  /\ UNCHANGED <<modes, open_flag, serial_rx, serial_tx, heap, interrupts,
                 oflag, asserted, sendvars>>

\* Only the last one goes on to rt_serial_close.
SerialClose(u) ==
  /\ SerialRuns /\ user[u] = "run"
  /\ ref_count > 0 /\ (ref_count = 1 => Quiet)
  /\ ref_count' = ref_count - 1
  /\ UserGoes(u, IF ref_count = 1 THEN "free_rx" ELSE "run")
  /\ UNCHANGED <<modes, open_flag, serial_rx, serial_tx, heap, interrupts,
                 oflag, asserted, sendvars>>

\* rt_free of a pointer, with the assertion before it, or nothing to free.
FreeOf(u, flags, pointer, freed, nothing) ==
  /\ SerialRuns
  /\ IF flags \cap open_flag = {}
     THEN UserGoes(u, nothing) /\ UNCHANGED <<heap, asserted>>
     ELSE /\ UserGoes(u, freed)
          /\ asserted' = IF pointer = "NULL" THEN {"close"} ELSE {}
          /\ heap' = heap \ {pointer}
  /\ UNCHANGED <<modes, ref_count, open_flag, serial_rx, serial_tx, interrupts,
                 oflag, sendvars>>

\* Of the two flags of a direction the one for interrupts is tested first.
FreeRx(u) ==
  /\ user[u] = "free_rx"
  /\ FreeOf(u, {"INT_RX", "DMA_RX"},
            IF "INT_RX" \in open_flag THEN serial_rx ELSE serial_tx,
            "clear_rx", "free_tx")

FreeTx(u) ==
  /\ user[u] = "free_tx"
  /\ FreeOf(u, {"INT_TX", "DMA_TX"},
            IF "INT_TX" \in open_flag THEN serial_rx ELSE serial_tx,
            "clear_tx", "closed")

\* Also when the device received by interrupt, the interrupt that is turned
\* off is the transmitter's.
ClearRx(u) ==
  /\ SerialRuns /\ user[u] = "clear_rx"
  /\ serial_rx' = "NULL"
  /\ IF "INT_RX" \in open_flag
     THEN open_flag' = open_flag \ {"INT_RX"} /\ interrupts' = interrupts \ {"TX"}
     ELSE open_flag' = open_flag \ {"DMA_RX"} /\ UNCHANGED interrupts
  /\ UserGoes(u, "free_tx")
  /\ UNCHANGED <<modes, ref_count, serial_tx, heap, oflag, asserted, sendvars>>

ClearTx(u) ==
  /\ SerialRuns /\ user[u] = "clear_tx"
  /\ serial_tx' = "NULL"
  /\ IF "INT_TX" \in open_flag
     THEN open_flag' = open_flag \ {"INT_TX"} /\ interrupts' = interrupts \ {"TX"}
     ELSE open_flag' = open_flag \ {"DMA_TX"} /\ UNCHANGED interrupts
  /\ UserGoes(u, "closed")
  /\ UNCHANGED <<modes, ref_count, serial_rx, heap, oflag, asserted, sendvars>>

\* The end, in rt_device_close.
SerialClosed(u) ==
  /\ SerialRuns /\ user[u] = "closed"
  /\ open_flag' = {}
  /\ UserGoes(u, "run")
  /\ UNCHANGED <<modes, ref_count, serial_rx, serial_tx, heap, interrupts,
                 oflag, asserted, sendvars>>

\* A byte comes in; with its interrupt enabled the handler needs the buffer.
RxInd ==
  /\ SerialRuns /\ "RX" \in interrupts
  /\ asserted' = IF serial_rx = "NULL" THEN {"isr"}
                 ELSE IF serial_rx \notin heap THEN {"freed"} ELSE {}
  /\ UNCHANGED <<modes, ref_count, open_flag, serial_rx, serial_tx, heap,
                 interrupts, user, oflag, sendvars>>

-----------------------------------------------------------------------------
(* Sending by DMA *)

WriterGoes(w, place) == writer' = [writer EXCEPT ![w] = place]

\* What is being written is not written a second time meanwhile.  A completion
\* has one waiting thread, so that one thread at a time may send by interrupt.
Write(w, d) ==
  /\ SerialRuns /\ ref_count > 0 /\ writer[w] = "run"
  /\ d # dma /\ \A u \in Writer : data[u] # d
  /\ \A i \in DOMAIN data_queue : data_queue[i] # d
  /\ data' = [data EXCEPT ![w] = d]
  /\ \/ "DMA_TX" \in open_flag /\ WriterGoes(w, "push")
     \/ /\ "INT_TX" \in open_flag /\ \A u \in Writer : writer[u] = "run"
        /\ WriterGoes(w, "putc")
  /\ skipped' = skipped \ {d}
  /\ UNCHANGED <<openvars, data_queue, activated, dma, busy, done>>

Push(w) ==
  /\ writer[w] = "push" /\ Len(data_queue) < QueueSize
  /\ data_queue' = Append(data_queue, data[w])
  /\ WriterGoes(w, "pushed")
  /\ UNCHANGED <<openvars, activated, dma, busy, done, data, skipped>>

\* Faulty variant: the writer does not look whether a transfer is going on.
ActivateAlways(w) ==
  /\ writer[w] = "pushed"
  /\ activated' = TRUE /\ WriterGoes(w, "transmit")
  /\ UNCHANGED <<openvars, data_queue, dma, busy, done, data, skipped>>

\* The critical section of _serial_dma_tx.
Activate(w) ==
  /\ writer[w] = "pushed"
  /\ IF activated
     THEN /\ WriterGoes(w, "run") /\ data' = [data EXCEPT ![w] = Nothing]
          /\ UNCHANGED activated
     ELSE activated' = TRUE /\ WriterGoes(w, "transmit") /\ UNCHANGED data
  /\ UNCHANGED <<openvars, data_queue, dma, busy, done, skipped>>

Transmit(w) ==
  /\ writer[w] = "transmit"
  /\ dma' = data[w]
  /\ WriterGoes(w, "run") /\ data' = [data EXCEPT ![w] = Nothing]
  /\ UNCHANGED <<openvars, data_queue, activated, busy, done, skipped>>

\* A pop with no time to wait, also of an empty queue.
Popped == IF data_queue = << >> THEN << >> ELSE Tail(data_queue)
Unsent == IF data_queue = << >> THEN {} ELSE {Head(data_queue)} \ {dma}

\* Faulty variant: the queue is not looked at again.
TxDmaDoneStops ==
  /\ SerialRuns /\ dma # Nothing
  /\ data_queue' = Popped
  /\ activated' = FALSE /\ dma' = Nothing
  /\ skipped' = skipped \cup Unsent
  /\ UNCHANGED <<openvars, busy, done, writer, data>>

\* RT_SERIAL_EVENT_TX_DMADONE: pop, and peak at what is next.
TxDmaDone ==
  /\ SerialRuns /\ dma # Nothing
  /\ data_queue' = Popped
  /\ skipped' = skipped \cup Unsent
  /\ IF Popped # << >>
     THEN activated' = TRUE /\ dma' = Head(Popped)
     ELSE activated' = FALSE /\ dma' = Nothing
  /\ UNCHANGED <<openvars, busy, done, writer, data>>

-----------------------------------------------------------------------------
(* Sending by interrupt *)

\* putc of the low level: it takes the byte, or says that it is busy.
Putc(w) ==
  /\ writer[w] = "putc"
  /\ IF busy THEN WriterGoes(w, "wait") /\ UNCHANGED <<busy, data>>
     ELSE /\ busy' = TRUE
          /\ WriterGoes(w, "run") /\ data' = [data EXCEPT ![w] = Nothing]
  /\ UNCHANGED <<openvars, data_queue, activated, dma, done, skipped>>

\* Faulty variant: what was completed before the wait is thrown away.
WaitForgets(w) ==
  /\ writer[w] = "wait"
  /\ done' = FALSE
  /\ WriterGoes(w, "asleep")
  /\ UNCHANGED <<openvars, data_queue, activated, dma, busy, data, skipped>>

\* rt_completion_wait.
Wait(w) ==
  /\ writer[w] = "wait"
  /\ done' = FALSE
  /\ WriterGoes(w, IF done THEN "putc" ELSE "asleep")
  /\ UNCHANGED <<openvars, data_queue, activated, dma, busy, data, skipped>>

\* It returns, and the loop goes on.
WaitReturn(w) ==
  /\ writer[w] = "asleep" /\ done
  /\ done' = FALSE
  /\ WriterGoes(w, "putc")
  /\ UNCHANGED <<openvars, data_queue, activated, dma, busy, data, skipped>>

\* RT_SERIAL_EVENT_TX_DONE.
TxDone ==
  /\ SerialRuns /\ busy
  /\ busy' = FALSE /\ done' = TRUE
  /\ UNCHANGED <<openvars, data_queue, activated, dma, writer, data, skipped>>

SerialNext ==
  \/ \E u \in User :
       \/ \E mode \in modes : SerialOpen(u, mode)
       \/ StoreRx(u) \/ TestTx(u) \/ StoreTx(u) \/ CountOpen(u)
       \/ SerialClose(u) \/ FreeRx(u) \/ ClearRx(u) \/ FreeTx(u)
       \/ ClearTx(u) \/ SerialClosed(u)
  \/ RxInd
  \/ \E w \in Writer :
       \/ \E d \in Data : Write(w, d)
       \/ Push(w) \/ Activate(w) \/ Transmit(w) \/ Putc(w) \/ Wait(w)
       \/ WaitReturn(w)
  \/ TxDmaDone \/ TxDone

SerialSpec == SerialInit /\ [][SerialNext]_serialvars

\* What a writer does next in its call.
WriterStep(w) ==
  Push(w) \/ Activate(w) \/ Transmit(w) \/ Putc(w) \/ Wait(w) \/ WaitReturn(w)

-----------------------------------------------------------------------------
(* Properties *)

\* A writer works with what the device points to, of the kind its mode needs
\* and allocated, while a user is in the middle of one more open or of a close
\* that is not the last.  With one thread in User, opens and closes do not
\* overlap each other.
StructureInUse ==
  /\ ref_count > 0 => {serial_rx, serial_tx} \ {"NULL"} \subseteq heap
  /\ \A w \in Writer :
       /\ writer[w] \in {"push", "pushed", "transmit"} => serial_tx = "tx_dma"
       /\ writer[w] \in {"putc", "wait", "asleep"} => serial_tx = "tx_fifo"

\* The DMA is used by one at a time, and nothing waits in the queue unless a
\* transfer is going on or a writer is about to look, although writer and
\* handler test and set activated in turn.
TransferGoesOn ==
  /\ Cardinality({w \in Writer : writer[w] = "transmit"})
       + (IF dma # Nothing THEN 1 ELSE 0) <= 1
  /\ activated =
       (dma # Nothing \/ \E w \in Writer : writer[w] = "transmit")
  /\ data_queue # << >> =>
       activated \/ \E w \in Writer : writer[w] = "pushed"

\* A writer sleeps only while the interrupt that will wake it is to come, even
\* if it came between putc and the wait.
WriterNotStranded == \A w \in Writer : writer[w] = "asleep" => busy \/ done

\* Writers, interrupts and the one who opens and closes the device agree on the
\* structure in use and on who starts the next transfer.
SendingIsConsistent == StructureInUse /\ TransferGoesOn /\ WriterNotStranded

\* "the actually written size on successful" (device.c:311): what was
\* accepted is sent before it leaves the queue.  A writer that looks at
\* activated after the handler has sent its data sends them again, and the
\* handler takes what comes next off the queue unsent.
SentBeforePopped == skipped = {}

\* RT_ASSERT(rx_fifo != RT_NULL) in the handler (serial.c:527), and what
\* it points to is allocated.
HandlerHasBuffer == asserted \cap {"isr", "freed"} = {}

\* RT_ASSERT(tx_fifo != RT_NULL) in rt_serial_close (serial.c:377).
CloseFindsStructure == "close" \notin asserted

\* No open replaces the structure that another one has just stored.
NothingReplaced == "replaced" \notin asserted
=============================================================================
