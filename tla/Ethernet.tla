------------------------------ MODULE Ethernet ------------------------------
(***************************************************************************)
(* The Ethernet driver of the board (drivers/stm32_eth.c) and the threads  *)
(* erx and etx of lwip-1.4.1/src/netif/ethernetif.c between it and the     *)
(* TCP/IP thread.  Mailboxes and semaphores keep what their own modules    *)
(* promise; threads, the interrupt handler and the two DMA engines are     *)
(* interleaved, a thread only while no handler runs.                       *)
(***************************************************************************)
EXTENDS Integers, Sequences, SequencesExt, FiniteSets

CONSTANTS Sender,       \* the threads that send packets: the TCP/IP thread
          ETH_TXBUFNB, ETH_RXBUFNB,
          MBOX_SIZE,    \* RT_LWIP_ETHTHREAD_MBOX_SIZE
          Nobody

ASSUME EthernetType ==
  /\ {ETH_TXBUFNB, ETH_RXBUFNB, MBOX_SIZE} \subseteq Nat \ {0}
  /\ Nobody \notin Sender

VARIABLES sender,       \* "run", or "ack" in ethernetif_linkoutput
          tx_mb,        \* eth_tx_thread_mb: messages on their senders' stacks
          tx_ack,       \* value of the semaphore
          etx, etx_msg, \* where the thread etx is, and the message it has
          tx_buf_free,  \* value of the semaphore
          tx_own,       \* the OWN bits of the transmit descriptors
          DMATxDescToSet,
          tx_dma        \* the descriptor the transmit DMA is at

VARIABLES rx_mb,        \* number of mails in eth_rx_thread_mb
          erx,          \* where the thread erx is
          rx_own, DMARxDescToGet, rx_dma,
          gave_up,      \* ghost: erx left its loop on a frame that was dropped
          link_changed, link_status,
          netif_up      \* what lwIP was told of the link

VARIABLES status,       \* the bits R and T of DMASR
          handling      \* the bits ETH_IRQHandler has read, while it runs

ethtxvars == <<sender, tx_mb, tx_ack, etx, etx_msg, tx_buf_free, tx_own,
               DMATxDescToSet, tx_dma>>
linkvars == <<link_changed, link_status, netif_up>>
ethrxvars == <<rx_mb, erx, rx_own, DMARxDescToGet, rx_dma, gave_up, linkvars>>
ethvars == <<ethtxvars, ethrxvars, status, handling>>

TxDesc == 0 .. ETH_TXBUFNB - 1
RxDesc == 0 .. ETH_RXBUFNB - 1

EthTypeOK ==
  /\ sender \in [Sender -> {"run", "ack"}]
  /\ tx_mb \in Seq(Sender)
  /\ tx_ack \in Nat /\ tx_buf_free \in Nat
  /\ etx \in {"recv", "take", "fill", "own", "ack"}
  /\ etx_msg \in Sender \cup {Nobody}
  /\ tx_own \in [TxDesc -> BOOLEAN] /\ rx_own \in [RxDesc -> BOOLEAN]
  /\ DMATxDescToSet \in TxDesc /\ tx_dma \in TxDesc
  /\ DMARxDescToGet \in RxDesc /\ rx_dma \in RxDesc
  /\ rx_mb \in 0 .. MBOX_SIZE
  /\ erx \in {"recv", "up", "down", "rx"}
  /\ {gave_up, link_changed, link_status, netif_up} \subseteq BOOLEAN
  /\ status \subseteq {"R", "T"} /\ handling \subseteq {"R", "T"}

EthInit ==
  /\ sender = [s \in Sender |-> "run"]
  /\ tx_mb = << >> /\ tx_ack = 0
  /\ etx = "recv" /\ etx_msg = Nobody
  /\ tx_buf_free = ETH_TXBUFNB
  /\ tx_own = [d \in TxDesc |-> FALSE] /\ DMATxDescToSet = 0 /\ tx_dma = 0
  /\ rx_mb = 0 /\ erx = "recv"
  /\ rx_own = [d \in RxDesc |-> TRUE] /\ DMARxDescToGet = 0 /\ rx_dma = 0
  /\ gave_up = FALSE
  /\ link_changed = FALSE /\ link_status = TRUE /\ netif_up = TRUE
  /\ status = {} /\ handling = {}

ThreadsRun == handling = {}

-----------------------------------------------------------------------------
(* Sending *)

\* ethernetif_linkoutput: a message that does not fit is not sent.
LinkOutput(s) ==
  /\ ThreadsRun /\ sender[s] = "run"
  /\ Len(tx_mb) < MBOX_SIZE
  /\ tx_mb' = Append(tx_mb, s)
  /\ sender' = [sender EXCEPT ![s] = "ack"]
  /\ UNCHANGED <<tx_ack, etx, etx_msg, tx_buf_free, tx_own, DMATxDescToSet,
                 tx_dma, ethrxvars, status, handling>>

LinkOutputAck(s) ==
  /\ ThreadsRun /\ sender[s] = "ack"
  /\ tx_ack > 0
  /\ tx_ack' = tx_ack - 1
  /\ sender' = [sender EXCEPT ![s] = "run"]
  /\ UNCHANGED <<tx_mb, etx, etx_msg, tx_buf_free, tx_own, DMATxDescToSet,
                 tx_dma, ethrxvars, status, handling>>

\* Faulty variant: the sender is told before its packet has been copied.
TxRecvAcks ==
  /\ ThreadsRun /\ etx = "recv" /\ tx_mb # << >>
  /\ etx_msg' = Head(tx_mb) /\ tx_mb' = Tail(tx_mb)
  /\ tx_ack' = tx_ack + 1
  /\ etx' = "take"
  /\ UNCHANGED <<sender, tx_buf_free, tx_own, DMATxDescToSet, tx_dma, ethrxvars,
                 status, handling>>

TxRecv ==
  /\ ThreadsRun /\ etx = "recv" /\ tx_mb # << >>
  /\ etx_msg' = Head(tx_mb) /\ tx_mb' = Tail(tx_mb)
  /\ etx' = "take"
  /\ UNCHANGED <<sender, tx_ack, tx_buf_free, tx_own, DMATxDescToSet, tx_dma,
                 ethrxvars, status, handling>>

\* Faulty variant: the packet is copied although the semaphore timed out.
TxTakeIgnoresTimeout ==
  /\ ThreadsRun /\ etx = "take"
  /\ tx_buf_free' = IF tx_buf_free > 0 THEN tx_buf_free - 1 ELSE 0
  /\ etx' = "fill"
  /\ UNCHANGED <<sender, tx_mb, tx_ack, etx_msg, tx_own, DMATxDescToSet,
                 tx_dma, ethrxvars, status, handling>>

\* Faulty variant: the sender of a packet that is dropped is not told.
TxTakeDrops ==
  /\ ThreadsRun /\ etx = "take"
  /\ IF tx_buf_free > 0
     THEN tx_buf_free' = tx_buf_free - 1 /\ etx' = "fill"
     ELSE etx' = "recv" /\ UNCHANGED tx_buf_free
  /\ UNCHANGED <<sender, tx_mb, tx_ack, etx_msg, tx_own, DMATxDescToSet,
                 tx_dma, ethrxvars, status, handling>>

\* rt_stm32_eth_tx: the semaphore is waited for two ticks.
TxTake ==
  /\ ThreadsRun /\ etx = "take"
  /\ IF tx_buf_free > 0
     THEN tx_buf_free' = tx_buf_free - 1 /\ etx' = "fill"
     ELSE etx' = "ack" /\ UNCHANGED tx_buf_free
  /\ UNCHANGED <<sender, tx_mb, tx_ack, etx_msg, tx_own, DMATxDescToSet,
                 tx_dma, ethrxvars, status, handling>>

\* The copy of the packet to the descriptor's buffer.
TxFill ==
  /\ ThreadsRun /\ etx = "fill"
  /\ etx' = "own"
  /\ UNCHANGED <<sender, tx_mb, tx_ack, etx_msg, tx_buf_free, tx_own,
                 DMATxDescToSet, tx_dma, ethrxvars, status, handling>>

TxOwn ==
  /\ ThreadsRun /\ etx = "own"
  /\ tx_own' = [tx_own EXCEPT ![DMATxDescToSet] = TRUE]
  /\ DMATxDescToSet' = (DMATxDescToSet + 1) % ETH_TXBUFNB
  /\ etx' = "ack"
  /\ UNCHANGED <<sender, tx_mb, tx_ack, etx_msg, tx_buf_free, tx_dma, ethrxvars,
                 status, handling>>

TxAck ==
  /\ ThreadsRun /\ etx = "ack"
  /\ tx_ack' = tx_ack + 1
  /\ etx_msg' = Nobody
  /\ etx' = "recv"
  /\ UNCHANGED <<sender, tx_mb, tx_buf_free, tx_own, DMATxDescToSet, tx_dma,
                 ethrxvars, status, handling>>

\* The DMA has sent a frame: it gives the descriptor back and sets T.
DmaSent ==
  /\ tx_own[tx_dma]
  /\ tx_own' = [tx_own EXCEPT ![tx_dma] = FALSE]
  /\ tx_dma' = (tx_dma + 1) % ETH_TXBUFNB
  /\ status' = status \cup {"T"}
  /\ UNCHANGED <<sender, tx_mb, tx_ack, etx, etx_msg, tx_buf_free,
                 DMATxDescToSet, ethrxvars, handling>>

-----------------------------------------------------------------------------
(* Receiving *)

\* The DMA has stored a frame; without a descriptor the frame is lost.
DmaReceived ==
  /\ rx_own[rx_dma]
  /\ rx_own' = [rx_own EXCEPT ![rx_dma] = FALSE]
  /\ rx_dma' = (rx_dma + 1) % ETH_RXBUFNB
  /\ status' = status \cup {"R"}
  /\ UNCHANGED <<rx_mb, erx, DMARxDescToGet, gave_up, linkvars, ethtxvars,
                 handling>>

\* Faulty variant: the link is not looked at.
RxRecvWithoutLink ==
  /\ ThreadsRun /\ erx = "recv" /\ rx_mb > 0
  /\ rx_mb' = rx_mb - 1
  /\ link_changed' = FALSE
  /\ gave_up' = FALSE
  /\ erx' = "rx"
  /\ UNCHANGED <<rx_own, DMARxDescToGet, rx_dma, link_status, netif_up,
                 ethtxvars, status, handling>>

\* The mail, and the link's state in its critical section.
RxRecv ==
  /\ ThreadsRun /\ erx = "recv" /\ rx_mb > 0
  /\ rx_mb' = rx_mb - 1
  /\ link_changed' = FALSE
  /\ erx' = IF ~link_changed THEN "rx" ELSE IF link_status THEN "up" ELSE "down"
  /\ gave_up' = FALSE
  /\ UNCHANGED <<rx_own, DMARxDescToGet, rx_dma, link_status, netif_up,
                 ethtxvars, status, handling>>

RxLink ==
  /\ ThreadsRun /\ erx \in {"up", "down"}
  /\ netif_up' = (erx = "up")
  /\ erx' = "rx"
  /\ UNCHANGED <<rx_mb, rx_own, DMARxDescToGet, rx_dma, gave_up, link_changed,
                 link_status, ethtxvars, status, handling>>

\* Faulty variant: one frame for each mail.
RxFrameOnce(dropped) ==
  /\ ThreadsRun /\ erx = "rx"
  /\ ~rx_own[DMARxDescToGet]
  /\ rx_own' = [rx_own EXCEPT ![DMARxDescToGet] = TRUE]
  /\ DMARxDescToGet' = (DMARxDescToGet + 1) % ETH_RXBUFNB
  /\ erx' = "recv"
  /\ UNCHANGED <<rx_mb, rx_dma, gave_up, linkvars, ethtxvars, status, handling>>

\* rt_stm32_eth_rx; the loop of erx ends when it returns no frame.
RxEmpty ==
  /\ ThreadsRun /\ erx = "rx"
  /\ rx_own[DMARxDescToGet]
  /\ erx' = "recv"
  /\ UNCHANGED <<rx_mb, rx_own, DMARxDescToGet, rx_dma, gave_up, linkvars,
                 ethtxvars, status, handling>>

\* A frame with an error, or for which there is no memory, is dropped: its
\* descriptor is given back, and none is returned.
RxFrame(dropped) ==
  /\ ThreadsRun /\ erx = "rx"
  /\ ~rx_own[DMARxDescToGet]
  /\ rx_own' = [rx_own EXCEPT ![DMARxDescToGet] = TRUE]
  /\ DMARxDescToGet' = (DMARxDescToGet + 1) % ETH_RXBUFNB
  /\ gave_up' = dropped
  /\ erx' = IF dropped THEN "recv" ELSE "rx"
  /\ UNCHANGED <<rx_mb, rx_dma, linkvars, ethtxvars, status, handling>>

\* eth_device_linkchange, by a driver that watches the link: a mail that does
\* not fit is not sent.
LinkChange(up) ==
  /\ ThreadsRun
  /\ link_changed' = TRUE /\ link_status' = up
  /\ rx_mb' = IF rx_mb < MBOX_SIZE THEN rx_mb + 1 ELSE rx_mb
  /\ UNCHANGED <<erx, rx_own, DMARxDescToGet, rx_dma, gave_up, netif_up,
                 ethtxvars, status, handling>>

-----------------------------------------------------------------------------
(* ETH_IRQHandler *)

\* It reads DMASR, and later clears the bits it has read.  In between only
\* the DMA works, so that its two calls are taken together.
Irq ==
  /\ handling = {} /\ status # {}
  /\ handling' = status
  /\ rx_mb' = IF "R" \in status /\ rx_mb < MBOX_SIZE THEN rx_mb + 1 ELSE rx_mb
  /\ tx_buf_free' = IF "T" \in status THEN tx_buf_free + 1 ELSE tx_buf_free
  /\ UNCHANGED <<sender, tx_mb, tx_ack, etx, etx_msg, tx_own, DMATxDescToSet,
                 tx_dma, erx, rx_own, DMARxDescToGet, rx_dma, gave_up, linkvars,
                 status>>

\* Faulty variant: T stays set and interrupts once more.
IrqKeepsT ==
  /\ handling # {}
  /\ status' = status \ {"R"}
  /\ handling' = {}
  /\ UNCHANGED <<ethtxvars, ethrxvars>>

IrqClear ==
  /\ handling # {}
  /\ status' = status \ handling
  /\ handling' = {}
  /\ UNCHANGED <<ethtxvars, ethrxvars>>

EthNext ==
  \/ \E s \in Sender : LinkOutput(s) \/ LinkOutputAck(s)
  \/ TxRecv \/ TxTake \/ TxFill \/ TxOwn \/ TxAck \/ DmaSent
  \/ DmaReceived \/ RxRecv \/ RxLink \/ RxEmpty
  \/ \E dropped \in BOOLEAN : RxFrame(dropped)
  \/ \E up \in BOOLEAN : LinkChange(up)
  \/ Irq \/ IrqClear

EthSpec == EthInit /\ [][EthNext]_ethvars

\* What the thread etx does next.
EtxStep == TxRecv \/ TxTake \/ TxFill \/ TxOwn \/ TxAck

-----------------------------------------------------------------------------
(* Properties *)

\* The buffer a packet is copied to is not one the DMA is sending: the
\* permits never outnumber the descriptors that are given back, although a
\* descriptor is given back before its interrupt is handled.
TxBufferIsFree ==
  /\ etx \in {"fill", "own"} => ~tx_own[DMATxDescToSet]
  /\ tx_buf_free + Cardinality({d \in TxDesc : tx_own[d]})
       + (IF etx \in {"fill", "own"} THEN 1 ELSE 0)
       + (IF "T" \in status \ handling THEN 1 ELSE 0) <= ETH_TXBUFNB

\* A message is on the stack of a thread that is still waiting: nobody leaves
\* ethernetif_linkoutput while etx may look at its packet.
MessageIsAlive ==
  /\ \A s \in ToSet(tx_mb) : sender[s] = "ack"
  /\ etx_msg # Nobody => sender[etx_msg] = "ack"

\* A packet is read and copied only while it is where etx looks for it and
\* the place it goes to is free.
PacketsAreSafe == TxBufferIsFree /\ MessageIsAlive

ErxSleeps == erx = "recv" /\ rx_mb = 0 /\ status = {} /\ handling = {}

\* erx does not sleep while a frame is in a descriptor, unless it has just
\* dropped one, or while lwIP has not been told of the link, although
\* interrupts and mails are fewer than frames.
NothingLeftBehind ==
  ErxSleeps => (rx_own[DMARxDescToGet] \/ gave_up) /\ netif_up = link_status

\* "receive all of buffer" (ethernetif.c:367), when erx sleeps again.
ReceivesAll == ErxSleeps => rx_own[DMARxDescToGet]

\* "init tx buffer free semaphore" (stm32_eth.c:3512): with all quiet it
\* counts the transmit buffers that are free.
CountsFreeBuffers ==
  (etx = "recv" /\ status = {} /\ handling = {}) =>
    tx_buf_free = Cardinality({d \in TxDesc : ~tx_own[d]})
=============================================================================
