-------------------------------- MODULE Uart --------------------------------
(***************************************************************************)
(* The serial driver of the board (drivers/serial.c) with the finsh shell  *)
(* that reads from it.  Receiving: the interrupt handler puts bytes into a *)
(* circular buffer and releases the shell's semaphore.  Sending: writers   *)
(* link data nodes to a list, which the DMA and its interrupt work off.    *)
(* Threads are interleaved in any order; a thread at rt_sem_take or        *)
(* rt_mp_alloc goes on when there is a permit or a block.                  *)
(***************************************************************************)
EXTENDS Integers, Sequences, SequencesExt, FiniteSets

CONSTANTS Byte,
          LF, CR, NUL,            \* '\n', '\r' and '\0' of them
          UART_RX_BUFFER_SIZE,
          UART_TX_DMA_NODE_SIZE,  \* data nodes in the pool
          SignalMax,              \* bound: the value of rx_sem
          UartWriter,             \* threads, each with a buffer to write
          NoBuffer

ASSUME UartType == /\ {LF, CR, NUL} \subseteq Byte /\ LF # CR
                   /\ UART_RX_BUFFER_SIZE \in Nat \ {0, 1}
                   /\ UART_TX_DMA_NODE_SIZE \in Nat \ {0}
                   /\ SignalMax \in Nat \ {0}
                   /\ NoBuffer \notin UartWriter

VARIABLES rx_buffer, read_index, save_index,  \* uart->int_rx
          rx_indicate,  \* the shell's callback is set
          handler,      \* the receive interrupt is being handled
          rx_sem, shell,
          unheard,      \* ghost: the last byte came before rx_indicate was set
          left,         \* ghost: how the shell left its loop, if nothing came since
          free_nodes,   \* data nodes in the pool
          list,         \* list_head to list_tail, as the writers' buffers
          channel,      \* the buffer the enabled DMA channel sends
          uart_writer,  \* where each writer is
          flag,         \* how the device sends: DMA_TX or polling
          returned      \* what its last call returned of the size: all or none

bytevars == <<rx_buffer, read_index, save_index, rx_indicate, handler, rx_sem,
            shell, unheard, left>>
nodevars == <<free_nodes, list, channel, uart_writer, flag, returned>>
uartvars == <<bytevars, nodevars>>

Index == 0 .. UART_RX_BUFFER_SIZE - 1

UartTypeOK ==
  /\ rx_buffer \in [Index -> Byte]
  /\ read_index \in Index /\ save_index \in Index
  /\ rx_indicate \in BOOLEAN /\ handler \in BOOLEAN /\ unheard \in BOOLEAN
  /\ rx_sem \in 0 .. SignalMax
  /\ shell \in {"start", "wait", "read", "return"}
  /\ left \in {"none", "line", "more"}
  /\ free_nodes \in 0 .. UART_TX_DMA_NODE_SIZE
  /\ list \in Seq(UartWriter)
  /\ channel \in UartWriter \cup {NoBuffer}
  /\ uart_writer \in [UartWriter -> {"run", "alloc", "link"}]
  /\ flag \in {"DMA_TX", "poll"}
  /\ returned \in [UartWriter -> {"all", "none"}]

\* After rt_serial_init; the interrupt is enabled before the shell is there.
UartInit ==
  /\ rx_buffer = [i \in Index |-> CHOOSE b \in Byte : TRUE]
  /\ read_index = 0 /\ save_index = 0
  /\ rx_indicate = FALSE /\ handler = FALSE /\ unheard = FALSE
  /\ rx_sem = 0 /\ shell = "start" /\ left = "none"
  /\ free_nodes = UART_TX_DMA_NODE_SIZE
  /\ list = << >> /\ channel = NoBuffer
  /\ uart_writer = [w \in UartWriter |-> "run"]
  /\ flag \in {"DMA_TX", "poll"}
  /\ returned = [w \in UartWriter |-> "all"]

Following(i) == (i + 1) % UART_RX_BUFFER_SIZE

-----------------------------------------------------------------------------
(* Receiving *)

\* Faulty variant: the byte that is overwritten is still to be read.
ReceiveKeepsReadIndex(b) ==
  /\ handler' = TRUE
  /\ rx_buffer' = [rx_buffer EXCEPT ![save_index] = b]
  /\ save_index' = Following(save_index)
  /\ unheard' = ~rx_indicate /\ left' = "more"
  /\ UNCHANGED <<read_index, rx_indicate, rx_sem, shell, nodevars>>

\* One turn of the loop of rt_hw_serial_isr; the first one is the interrupt.
Receive(b) ==
  /\ rx_sem < SignalMax
  /\ handler' = TRUE
  /\ rx_buffer' = [rx_buffer EXCEPT ![save_index] = b]
  /\ save_index' = Following(save_index)
  /\ read_index' = IF save_index' = read_index THEN Following(read_index)
                   ELSE read_index
  /\ unheard' = ~rx_indicate /\ left' = "more"
  /\ UNCHANGED <<rx_indicate, rx_sem, shell, nodevars>>

\* Its end: finsh_rx_ind releases the semaphore.
ReceiveEnd ==
  /\ handler
  /\ handler' = FALSE
  /\ rx_sem' = IF rx_indicate THEN rx_sem + 1 ELSE rx_sem
  /\ UNCHANGED <<rx_buffer, read_index, save_index, rx_indicate, shell,
                 unheard, left, nodevars>>

\* finsh_set_device, and the start of finsh_thread_entry after it.
SetDevice ==
  /\ ~handler /\ shell = "start"
  /\ rx_indicate' = TRUE
  /\ shell' = "wait"
  /\ UNCHANGED <<rx_buffer, read_index, save_index, handler, rx_sem, unheard,
                 left, nodevars>>

ShellWait ==
  /\ ~handler /\ shell = "wait"
  /\ rx_sem > 0
  /\ rx_sem' = rx_sem - 1
  /\ shell' = "read"
  /\ UNCHANGED <<rx_buffer, read_index, save_index, rx_indicate, handler,
                 unheard, left, nodevars>>

\* "none": the buffer was empty, "line": a line has ended; then the shell runs
\* the command and comes back to rt_sem_take.
ShellLeaves(why) == shell' = "wait" /\ left' = why

\* Faulty variant: the shell reads one byte for each permit.
ShellReadsOne ==
  /\ ~handler /\ shell = "read"
  /\ read_index' = IF read_index # save_index THEN Following(read_index)
                   ELSE read_index
  /\ ShellLeaves("none")
  /\ UNCHANGED <<rx_buffer, save_index, rx_indicate, handler, rx_sem, unheard,
                 nodevars>>

\* A turn of the loop of finsh_thread_entry with its rt_serial_read of one
\* byte: until it returns none, or a line ends.
ShellRead ==
  /\ ~handler /\ shell = "read"
  /\ \/ /\ read_index = save_index
        /\ ShellLeaves("none") /\ UNCHANGED read_index
     \/ /\ read_index # save_index
        /\ read_index' = Following(read_index)
        /\ CASE rx_buffer[read_index] = LF -> ShellLeaves("line")
             [] rx_buffer[read_index] = CR -> shell' = "return" /\ UNCHANGED left
             [] OTHER -> UNCHANGED <<shell, left>>
  /\ UNCHANGED <<rx_buffer, save_index, rx_indicate, handler, rx_sem, unheard,
                 nodevars>>

\* The second read of the turn, after '\r'.
ShellReadNext ==
  /\ ~handler /\ shell = "return"
  /\ \/ /\ read_index = save_index
        /\ ShellLeaves("none") /\ UNCHANGED read_index
     \/ /\ read_index # save_index
        /\ read_index' = Following(read_index)
        /\ IF rx_buffer[read_index] \in {LF, CR, NUL} THEN ShellLeaves("line")
           ELSE shell' = "read" /\ UNCHANGED left
  /\ UNCHANGED <<rx_buffer, save_index, rx_indicate, handler, rx_sem, unheard,
                 nodevars>>

-----------------------------------------------------------------------------
(* Sending *)

\* A writer writes its buffer again when it is not on the list any more, as
\* tx_complete tells it.
UartWrite(w) ==
  /\ flag = "DMA_TX"
  /\ ~handler /\ uart_writer[w] = "run"
  /\ w \notin ToSet(list)
  /\ uart_writer' = [uart_writer EXCEPT ![w] = "alloc"]
  /\ UNCHANGED <<free_nodes, list, channel, flag, returned, bytevars>>

WriteAlloc(w) ==
  /\ ~handler /\ uart_writer[w] = "alloc"
  /\ free_nodes > 0
  /\ free_nodes' = free_nodes - 1
  /\ uart_writer' = [uart_writer EXCEPT ![w] = "link"]
  /\ UNCHANGED <<list, channel, flag, returned, bytevars>>

\* Faulty variant: the channel is enabled whatever the list holds.
WriteLinkEnables(w) ==
  /\ ~handler /\ uart_writer[w] = "link"
  /\ list' = Append(list, w)
  /\ channel' = w
  /\ uart_writer' = [uart_writer EXCEPT ![w] = "run"]
  /\ returned' = [returned EXCEPT ![w] = "none"]
  /\ UNCHANGED <<free_nodes, flag, bytevars>>

\* The critical section; ptr has not been moved when the call returns
\* ptr - buffer.
WriteLink(w) ==
  /\ ~handler /\ uart_writer[w] = "link"
  /\ list' = Append(list, w)
  /\ channel' = IF list = << >> THEN w ELSE channel
  /\ uart_writer' = [uart_writer EXCEPT ![w] = "run"]
  /\ returned' = [returned EXCEPT ![w] = "none"]
  /\ UNCHANGED <<free_nodes, flag, bytevars>>

\* The call on a device that polls.
WritePoll(w) ==
  /\ flag = "poll"
  /\ ~handler /\ uart_writer[w] = "run"
  /\ returned' = [returned EXCEPT ![w] = "all"]
  /\ UNCHANGED <<free_nodes, list, channel, uart_writer, flag, bytevars>>

\* Faulty variant: the next node is left to the next write.
DmaTxIsrStops ==
  /\ ~handler /\ channel # NoBuffer
  /\ list' = Tail(list)
  /\ free_nodes' = free_nodes + 1
  /\ channel' = NoBuffer
  /\ UNCHANGED <<uart_writer, flag, returned, bytevars>>

\* rt_hw_serial_dma_tx_isr when the DMA has sent its buffer.  Its assertion:
\* the list has a head.
DmaTxIsr ==
  /\ ~handler /\ channel # NoBuffer
  /\ list # << >>
  /\ list' = Tail(list)
  /\ free_nodes' = free_nodes + 1
  /\ channel' = IF Tail(list) # << >> THEN Tail(list)[1] ELSE NoBuffer
  /\ UNCHANGED <<uart_writer, flag, returned, bytevars>>

UartNext ==
  \/ \E b \in Byte : Receive(b)
  \/ ReceiveEnd \/ SetDevice \/ ShellWait \/ ShellRead \/ ShellReadNext
  \/ \E w \in UartWriter :
       UartWrite(w) \/ WriteAlloc(w) \/ WriteLink(w) \/ WritePoll(w)
  \/ DmaTxIsr

UartSpec == UartInit /\ [][UartNext]_uartvars

-----------------------------------------------------------------------------
(* Properties *)

\* What rt_serial_read can still read.
Unread ==
  [i \in 1 .. (save_index - read_index) % UART_RX_BUFFER_SIZE |->
     rx_buffer[(read_index + i - 1) % UART_RX_BUFFER_SIZE]]

Received == INSTANCE LossyFifo
            WITH bytes <- Unread, Capacity <- UART_RX_BUFFER_SIZE - 1

\* The circular buffer is a queue that loses the oldest byte when full,
\* with the handler and the reader moving read_index both.
BytesInOrder == Received!Spec

\* While the shell sleeps no byte has come since it left its loop, and none is
\* in the buffer unless it left it at the end of a line: what is behind that
\* stays there until the next byte comes.  All this although one permit stands
\* for many bytes, and it may find none for one.
NoByteLeft ==
  shell = "wait" /\ rx_sem = 0 /\ ~handler /\ ~unheard =>
    left = "line" \/ (left = "none" /\ Unread = << >>)

\* The channel sends the head of the list, so that tx_complete names the
\* buffer that was sent, and the assertion on list_head holds; nodes are in
\* the pool, on the list or with a writer about to link one.
SendsHead ==
  /\ channel = IF list = << >> THEN NoBuffer ELSE list[1]
  /\ free_nodes + Len(list)
       + Cardinality({w \in UartWriter : uart_writer[w] = "link"})
       = UART_TX_DMA_NODE_SIZE

\* Neither direction of the line stops with something to do, but for the rest
\* of a burst behind the end of a line, although one interrupt and one permit
\* stand for many bytes, and writers and the interrupt start the channel in turn.
LineGoesOn == NoByteLeft /\ SendsHead

\* "the actually written size on successful" (device.c:311), also when
\* the device sends by DMA.
WriteReturnsSize == \A w \in UartWriter : returned[w] = "all"
=============================================================================
