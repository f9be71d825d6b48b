---------------------------- MODULE DeviceProofs ----------------------------
(***************************************************************************)
(* The drivers of the board keep their invariants, for any buffer sizes,   *)
(* numbers of nodes and descriptors, bytes, writers and bounds.            *)
(***************************************************************************)
EXTENDS Uart, Ethernet, Serial, DfsMount, FileTable, SequenceTheorems,
        FiniteSetTheorems, WellFoundedInduction, TLAPS

(* The next place of a ring. *)
LEMMA NextPlace ==
  ASSUME NEW N \in Nat \ {0}, NEW i \in 0 .. N - 1
  PROVE  (i + 1) % N = IF i + 1 = N THEN 0 ELSE i + 1
<1>1. CASE i + 1 = N
  BY <1>1
<1>2. CASE i + 1 # N
  <2>1. i + 1 \in 0 .. N - 1
    BY <1>2
  <2>2. \A n \in Nat \ {0} : \A j \in 0 .. n - 1 : j % n = j
    OBVIOUS
  <2> QED BY <1>2, <2>1, <2>2
<1> QED BY <1>1, <1>2

-----------------------------------------------------------------------------
(* The serial driver *)

Linking == {w \in UartWriter : uart_writer[w] = "link"}

\* Types, without the contents of the buffer.
UartTypes ==
  /\ read_index \in Index /\ save_index \in Index
  /\ rx_indicate \in BOOLEAN /\ handler \in BOOLEAN /\ unheard \in BOOLEAN
  /\ rx_sem \in Nat
  /\ free_nodes \in Nat
  /\ list \in Seq(UartWriter)
  /\ channel \in UartWriter \cup {NoBuffer}
  /\ uart_writer \in [UartWriter -> {"run", "alloc", "link"}]
  /\ IsFiniteSet(Linking)

\* The callback is set when the shell has started, and a byte the handler
\* has just stored is told of at its end if the callback is set.
HandlerTells ==
  /\ shell = "start" <=> ~rx_indicate
  /\ handler => (unheard <=> ~rx_indicate)

\* Without a permit or a reader no byte has come that was told of, and nothing
\* is there but behind the end of a line.
BytesArePermitted ==
  shell \in {"start", "wait"} /\ rx_sem = 0 /\ ~handler /\ ~unheard
    => left = "line" \/ (left = "none" /\ read_index = save_index)

UartInv == UartTypes /\ HandlerTells /\ BytesArePermitted /\ SendsHead

LEMMA UartInitInv == UartInit => UartInv
<1> SUFFICES ASSUME UartInit PROVE UartInv
  OBVIOUS
<1>1. Linking = {}
  BY DEF UartInit, Linking
<1>2. UartTypes
  <2>1. 0 \in Index
    BY UartType DEF Index
  <2>2. << >> \in Seq(UartWriter) /\ UART_TX_DMA_NODE_SIZE \in Nat
    BY UartType
  <2> QED BY <1>1, <2>1, <2>2, FS_EmptySet DEF UartInit, UartTypes
<1>3. HandlerTells /\ BytesArePermitted
  BY DEF UartInit, HandlerTells, BytesArePermitted
<1>4. SendsHead
  <2>1. Cardinality({w \in UartWriter : uart_writer[w] = "link"}) = 0
    BY <1>1, FS_EmptySet DEF Linking
  <2>2. list = << >> /\ channel = NoBuffer /\ free_nodes = UART_TX_DMA_NODE_SIZE
    BY DEF UartInit
  <2>3. UART_TX_DMA_NODE_SIZE \in Nat /\ Len(list) = 0
    BY <2>2, UartType
  <2> QED BY <2>1, <2>2, <2>3 DEF SendsHead
<1> QED BY <1>2, <1>3, <1>4 DEF UartInv

LEMMA FollowingIsIndex == \A i \in Index : Following(i) \in Index
BY UartType DEF Following, Index

(* A step of the receiving side does not touch the nodes. *)
LEMMA ReceivingKeepsNodes ==
  ASSUME UartInv, UNCHANGED nodevars
  PROVE  /\ SendsHead'
         /\ IsFiniteSet(Linking)'
         /\ UNCHANGED <<free_nodes, list, channel, uart_writer>>
BY DEF UartInv, UartTypes, nodevars, SendsHead, Linking

LEMMA ReceivingKeepsInv ==
  ASSUME UartInv,
         (\E b \in Byte : Receive(b)) \/ ReceiveEnd \/ SetDevice \/ ShellWait
           \/ ShellRead \/ ShellReadNext
  PROVE  UartInv'
<1>1. UNCHANGED nodevars
  BY DEF Receive, ReceiveEnd, SetDevice, ShellWait, ShellRead, ShellReadNext
<1>2. /\ SendsHead'
      /\ IsFiniteSet(Linking)'
      /\ UNCHANGED <<free_nodes, list, channel, uart_writer>>
  BY <1>1, ReceivingKeepsNodes
<1>3. UartTypes /\ HandlerTells /\ BytesArePermitted
  BY DEF UartInv
<1>4. UartTypes' /\ HandlerTells' /\ BytesArePermitted'
  <2>1. ASSUME NEW b \in Byte, Receive(b)
        PROVE  UartTypes' /\ HandlerTells' /\ BytesArePermitted'
    BY <1>2, <1>3, <2>1, FollowingIsIndex
    DEF Receive, UartTypes, HandlerTells, BytesArePermitted
  <2>2. CASE ReceiveEnd
    <3>1. /\ handler /\ handler' = FALSE
          /\ rx_sem' = IF rx_indicate THEN rx_sem + 1 ELSE rx_sem
          /\ UNCHANGED <<read_index, save_index, rx_indicate, shell, unheard, left>>
      BY <2>2 DEF ReceiveEnd
    <3>2. rx_sem' \in Nat /\ (rx_indicate => rx_sem' # 0)
      BY <1>3, <3>1 DEF UartTypes
    <3>3. UartTypes'
      BY <1>2, <1>3, <3>1, <3>2 DEF UartTypes
    <3>4. HandlerTells'
      BY <1>3, <3>1 DEF HandlerTells
    <3>5. BytesArePermitted'
      <4>1. unheard \/ rx_sem' # 0
        BY <1>3, <3>1, <3>2 DEF HandlerTells
      <4> QED BY <3>1, <4>1 DEF BytesArePermitted
    <3> QED BY <3>3, <3>4, <3>5
  <2>3. CASE SetDevice
    BY <1>2, <1>3, <2>3 DEF SetDevice, UartTypes, HandlerTells, BytesArePermitted
  <2>4. CASE ShellWait
    BY <1>2, <1>3, <2>4 DEF ShellWait, UartTypes, HandlerTells, BytesArePermitted
  <2>5. CASE ShellRead
    BY <1>2, <1>3, <2>5, FollowingIsIndex
    DEF ShellRead, ShellLeaves, UartTypes, HandlerTells, BytesArePermitted
  <2>6. CASE ShellReadNext
    BY <1>2, <1>3, <2>6, FollowingIsIndex
    DEF ShellReadNext, ShellLeaves, UartTypes, HandlerTells, BytesArePermitted
  <2> QED BY <2>1, <2>2, <2>3, <2>4, <2>5, <2>6
<1> QED BY <1>2, <1>4 DEF UartInv

(* A step of the sending side does not touch the circular buffer. *)
LEMMA SendingKeepsBytes ==
  ASSUME UartInv, UNCHANGED bytevars
  PROVE  /\ HandlerTells' /\ BytesArePermitted'
         /\ UNCHANGED <<read_index, save_index, rx_indicate, handler, unheard, rx_sem>>
BY DEF UartInv, bytevars, HandlerTells, BytesArePermitted

LEMMA WriteAllocKeepsInv ==
  ASSUME UartInv, NEW w \in UartWriter, WriteAlloc(w)
  PROVE  UartTypes' /\ SendsHead'
<1>1. Linking' = Linking \cup {w} /\ w \notin Linking
  BY DEF WriteAlloc, Linking, UartInv, UartTypes
<1>2. /\ IsFiniteSet(Linking')
      /\ Cardinality(Linking') = Cardinality(Linking) + 1
  BY <1>1, FS_AddElement DEF UartInv, UartTypes
<1>3. Cardinality(Linking) \in Nat /\ Len(list) \in Nat
  BY FS_CardinalityType DEF UartInv, UartTypes
<1>4. UartTypes'
  BY <1>2 DEF WriteAlloc, UartInv, UartTypes, bytevars
<1>5. free_nodes + Len(list) + Cardinality(Linking) = UART_TX_DMA_NODE_SIZE
  BY DEF UartInv, SendsHead, Linking
<1>6. free_nodes' + Len(list') + Cardinality(Linking') = UART_TX_DMA_NODE_SIZE
  BY <1>2, <1>3, <1>5 DEF WriteAlloc, UartInv, UartTypes
<1> QED BY <1>4, <1>6 DEF WriteAlloc, UartInv, SendsHead, Linking

LEMMA WriteLinkKeepsInv ==
  ASSUME UartInv, NEW w \in UartWriter, WriteLink(w)
  PROVE  UartTypes' /\ SendsHead'
<1>1. Linking' = Linking \ {w} /\ w \in Linking
  BY DEF WriteLink, Linking, UartInv, UartTypes
<1>2. /\ IsFiniteSet(Linking')
      /\ Cardinality(Linking') = Cardinality(Linking) - 1
  BY <1>1, FS_RemoveElement DEF UartInv, UartTypes
<1>3. Cardinality(Linking) \in Nat /\ Len(list) \in Nat /\ list \in Seq(UartWriter)
  BY FS_CardinalityType DEF UartInv, UartTypes
<1>4. list' = Append(list, w)
  BY DEF WriteLink
<1>5. /\ list' \in Seq(UartWriter) /\ list' # << >>
      /\ Len(list') = Len(list) + 1
      /\ list'[1] = IF list = << >> THEN w ELSE list[1]
  BY <1>3, <1>4
<1>6. UartTypes'
  BY <1>2, <1>5 DEF WriteLink, UartInv, UartTypes, bytevars
<1>7. free_nodes + Len(list) + Cardinality(Linking) = UART_TX_DMA_NODE_SIZE
  BY DEF UartInv, SendsHead, Linking
<1>8. free_nodes' + Len(list') + Cardinality(Linking') = UART_TX_DMA_NODE_SIZE
  BY <1>2, <1>3, <1>5, <1>7 DEF WriteLink, UartInv, UartTypes
<1>9. channel' = IF list' = << >> THEN NoBuffer ELSE list'[1]
  BY <1>5 DEF WriteLink, UartInv, SendsHead
<1> QED BY <1>6, <1>8, <1>9 DEF SendsHead, Linking

LEMMA DmaTxIsrKeepsInv ==
  ASSUME UartInv, DmaTxIsr
  PROVE  UartTypes' /\ SendsHead'
<1>1. Linking' = Linking
  BY DEF DmaTxIsr, Linking
<1>2. Cardinality(Linking) \in Nat /\ Len(list) \in Nat /\ list \in Seq(UartWriter)
  BY FS_CardinalityType DEF UartInv, UartTypes
<1>3. /\ list' \in Seq(UartWriter)
      /\ Len(list') = Len(list) - 1
      /\ list' # << >> => list'[1] \in UartWriter
  BY <1>2 DEF DmaTxIsr
<1>4. channel' = IF list' = << >> THEN NoBuffer ELSE list'[1]
  BY DEF DmaTxIsr
<1>5. UartTypes'
  BY <1>1, <1>3, <1>4 DEF DmaTxIsr, UartInv, UartTypes, bytevars
<1>6. free_nodes + Len(list) + Cardinality(Linking) = UART_TX_DMA_NODE_SIZE
  BY DEF UartInv, SendsHead, Linking
<1>7. free_nodes' + Len(list') + Cardinality(Linking') = UART_TX_DMA_NODE_SIZE
  BY <1>1, <1>2, <1>3, <1>6 DEF DmaTxIsr, UartInv, UartTypes
<1> QED BY <1>4, <1>5, <1>7 DEF SendsHead, Linking

(* The other steps of a writer leave the nodes where they are. *)
LEMMA WritingKeepsInv ==
  ASSUME UartInv, NEW w \in UartWriter, UartWrite(w) \/ WritePoll(w)
  PROVE  UartTypes' /\ SendsHead'
<1>1. Linking' = Linking
  BY DEF UartWrite, WritePoll, Linking, UartInv, UartTypes
<1>2. /\ uart_writer' \in [UartWriter -> {"run", "alloc", "link"}]
      /\ UNCHANGED <<free_nodes, list, channel, bytevars>>
  BY DEF UartWrite, WritePoll, UartInv, UartTypes
<1>3. UartTypes'
  BY <1>1, <1>2 DEF UartInv, UartTypes, bytevars
<1>4. SendsHead'
  BY <1>1, <1>2 DEF UartInv, SendsHead, Linking
<1> QED BY <1>3, <1>4

LEMMA UartStepInv == UartInv /\ [UartNext]_uartvars => UartInv'
<1> SUFFICES ASSUME UartInv, [UartNext]_uartvars PROVE UartInv'
  OBVIOUS
<1>1. CASE UNCHANGED uartvars
  <2>1. UNCHANGED bytevars /\ UNCHANGED nodevars
    BY <1>1 DEF uartvars
  <2> QED BY <2>1, SendingKeepsBytes, ReceivingKeepsNodes
          DEF UartInv, UartTypes, bytevars, nodevars, Linking
<1>2. CASE (\E b \in Byte : Receive(b)) \/ ReceiveEnd \/ SetDevice \/ ShellWait
          \/ ShellRead \/ ShellReadNext
  BY <1>2, ReceivingKeepsInv
<1>3. ASSUME NEW w \in UartWriter,
             UartWrite(w) \/ WriteAlloc(w) \/ WriteLink(w) \/ WritePoll(w)
      PROVE  UartInv'
  <2>1. UartTypes' /\ SendsHead'
    BY <1>3, WritingKeepsInv, WriteAllocKeepsInv, WriteLinkKeepsInv
  <2>2. UNCHANGED bytevars
    BY <1>3 DEF UartWrite, WriteAlloc, WriteLink, WritePoll
  <2> QED BY <2>1, <2>2, SendingKeepsBytes DEF UartInv
<1>4. CASE DmaTxIsr
  <2>1. UNCHANGED bytevars
    BY <1>4 DEF DmaTxIsr
  <2> QED BY <1>4, <2>1, DmaTxIsrKeepsInv, SendingKeepsBytes DEF UartInv
<1> QED BY <1>1, <1>2, <1>3, <1>4 DEF UartNext

LEMMA UartInvLine == UartInv => LineGoesOn
<1> SUFFICES ASSUME UartInv PROVE LineGoesOn
  OBVIOUS
<1>1. ASSUME shell = "wait", rx_sem = 0, ~handler, ~unheard, left # "line"
      PROVE  left = "none" /\ Unread = << >>
  <2>1. left = "none" /\ read_index = save_index
    BY <1>1 DEF UartInv, BytesArePermitted
  <2>2. save_index - read_index = 0
    BY <2>1 DEF UartInv, UartTypes, Index
  <2>3. 0 % UART_RX_BUFFER_SIZE = 0
    BY UartType
  <2>4. 1 .. (save_index - read_index) % UART_RX_BUFFER_SIZE = {}
    BY <2>2, <2>3
  <2>5. \A f : [i \in {} |-> f[i]] = << >>
    OBVIOUS
  <2> QED BY <2>1, <2>4, <2>5 DEF Unread
<1> QED BY <1>1 DEF LineGoesOn, NoByteLeft, UartInv

(* Neither direction of the line stops with something to do (serial.c,      *)
(* finsh_thread_entry): the shell sleeps only when no byte it was told of   *)
(* came since it left its loop, and none is unread but behind the end of a  *)
(* line; the channel sends the head of the list whenever the list has one.  *)
THEOREM UartLineGoesOn == UartSpec => []LineGoesOn
<1>1. UartSpec => []UartInv
  BY UartInitInv, UartStepInv, PTL DEF UartSpec
<1> QED BY <1>1, UartInvLine, PTL

\* The place i places after n in the ring of the receive buffer.
Around(n, i) ==
  IF n + i < UART_RX_BUFFER_SIZE THEN n + i ELSE n + i - UART_RX_BUFFER_SIZE

\* How many bytes are between read_index and save_index.
Waiting == IF save_index >= read_index THEN save_index - read_index
           ELSE save_index - read_index + UART_RX_BUFFER_SIZE

LEMMA AroundIsMod ==
  \A n \in Index : \A i \in 0 .. UART_RX_BUFFER_SIZE - 1 :
    /\ (n + i) % UART_RX_BUFFER_SIZE = Around(n, i)
    /\ Around(n, i) \in Index
<1> SUFFICES ASSUME NEW n \in Index, NEW i \in 0 .. UART_RX_BUFFER_SIZE - 1
             PROVE  /\ (n + i) % UART_RX_BUFFER_SIZE = Around(n, i)
                    /\ Around(n, i) \in Index
  OBVIOUS
<1>1. UART_RX_BUFFER_SIZE \in Nat \ {0} /\ n \in 0 .. UART_RX_BUFFER_SIZE - 1
  BY UartType DEF Index
<1>2. \A m \in Nat \ {0} : \A j \in 0 .. m - 1 : j % m = j
  OBVIOUS
<1>3. \A m \in Nat \ {0} : \A j \in m .. 2 * m - 1 : j % m = j - m
  OBVIOUS
<1>4. CASE n + i < UART_RX_BUFFER_SIZE
  BY <1>1, <1>2, <1>4 DEF Around, Index
<1>5. CASE n + i >= UART_RX_BUFFER_SIZE
  BY <1>1, <1>3, <1>5 DEF Around, Index
<1> QED BY <1>1, <1>4, <1>5

\* What the buffer holds; its initial contents need not be a byte.
BufferOK == /\ read_index \in Index /\ save_index \in Index
            /\ rx_buffer \in [Index -> Byte \cup {CHOOSE b \in Byte : TRUE}]

\* read_index and the number of unread bytes determine what can be read.
UnreadFollow ==
  /\ Waiting \in 0 .. UART_RX_BUFFER_SIZE - 1
  /\ save_index = Around(read_index, Waiting)
  /\ Unread = [i \in 1 .. Waiting |-> rx_buffer[Around(read_index, i - 1)]]

LEMMA UnreadBytes == BufferOK => UnreadFollow
<1> SUFFICES ASSUME read_index \in Index, save_index \in Index PROVE UnreadFollow
  BY DEF BufferOK
<1>1. UART_RX_BUFFER_SIZE \in Nat \ {0}
  BY UartType
<1>2. /\ Waiting \in 0 .. UART_RX_BUFFER_SIZE - 1
      /\ save_index = Around(read_index, Waiting)
  BY <1>1 DEF Waiting, Around, Index
<1>3. (save_index - read_index) % UART_RX_BUFFER_SIZE = Waiting
  <2>1. \A m \in Nat \ {0} : \A j \in 0 .. m - 1 : j % m = j
    OBVIOUS
  <2>2. \A m \in Nat \ {0} : \A j \in 1 - m .. -1 : j % m = j + m
    OBVIOUS
  <2> QED BY <1>1, <2>1, <2>2 DEF Waiting, Index
<1>4. ASSUME NEW i \in 1 .. Waiting
      PROVE  (read_index + i - 1) % UART_RX_BUFFER_SIZE = Around(read_index, i - 1)
  <2>1. /\ i - 1 \in 0 .. UART_RX_BUFFER_SIZE - 1
        /\ read_index + i - 1 = read_index + (i - 1)
    BY <1>1, <1>2 DEF Index
  <2> QED BY <2>1, AroundIsMod
<1> QED BY <1>2, <1>3, <1>4 DEF Unread, UnreadFollow

\* One turn of the handler's loop puts a byte at the end, and drops the first
\* one of a full buffer.
LEMMA ReceivePuts ==
  ASSUME BufferOK, NEW b \in Byte, Receive(b)
  PROVE  /\ BufferOK'
         /\ Unread' = Received!Newest(Append(Unread, b))
<1> DEFINE N    == UART_RX_BUFFER_SIZE
           B    == Byte \cup {CHOOSE x \in Byte : TRUE}
           n    == Waiting
           more == Append(Unread, b)
<1>1. N \in Nat /\ N >= 2
  BY UartType
<1>2. /\ n \in 0 .. N - 1 /\ save_index = Around(read_index, n)
      /\ Unread = [i \in 1 .. n |-> rx_buffer[Around(read_index, i - 1)]]
  BY UnreadBytes DEF UnreadFollow
<1>3. \A i \in Index : Following(i) = Around(i, 1) /\ Around(i, 1) \in Index
  BY <1>1, AroundIsMod DEF Following
<1>4. /\ save_index' = Around(save_index, 1)
      /\ read_index' = IF Around(save_index, 1) = read_index
                       THEN Around(read_index, 1) ELSE read_index
      /\ rx_buffer' = [rx_buffer EXCEPT ![save_index] = b]
  BY <1>3 DEF Receive, BufferOK
<1>5. BufferOK'
  BY <1>3, <1>4 DEF BufferOK
<1>6. /\ Waiting' \in 0 .. N - 1
      /\ Unread' = [i \in 1 .. Waiting' |-> rx_buffer'[Around(read_index', i - 1)]]
  <2>1. UnreadFollow'
    BY <1>5, UnreadBytes, PTL
  <2> QED BY <2>1 DEF UnreadFollow
<1>7. /\ Unread \in Seq(B) /\ Len(Unread) = n
      /\ \A i \in 1 .. n : Unread[i] = rx_buffer[Around(read_index, i - 1)]
  <2>1. \A i \in 1 .. n : Around(read_index, i - 1) \in Index
    BY <1>1, <1>2, AroundIsMod DEF BufferOK
  <2>2. Unread \in [1 .. n -> B]
    BY <1>2, <2>1 DEF BufferOK
  <2> HIDE DEF n
  <2> QED BY <1>2, <2>2
<1>8. /\ more \in Seq(B) /\ Len(more) = n + 1
      /\ \A i \in 1 .. n : more[i] = Unread[i]
      /\ more[n + 1] = b
  <2> HIDE DEF n
  <2> QED BY <1>7
<1> HIDE DEF more
<1>9. ASSUME NEW i \in 0 .. n
      PROVE  /\ Around(read_index, i) \in Index
             /\ rx_buffer'[Around(read_index, i)] = more[i + 1]
  <2>0. Around(read_index, i) \in Index
    BY <1>1, <1>2, AroundIsMod DEF BufferOK
  <2>1. CASE i = n
    BY <1>2, <1>4, <1>8, <2>0, <2>1 DEF BufferOK
  <2>2. CASE i # n
    <3>1. i + 1 \in 1 .. n /\ Around(read_index, (i + 1) - 1) = Around(read_index, i)
      BY <1>2, <2>2 DEF Index
    <3>2. Around(read_index, i) # save_index
      BY <1>1, <1>2, <2>2 DEF Around, BufferOK, Index
    <3>3. more[i + 1] = rx_buffer[Around(read_index, i)]
      BY <1>7, <1>8, <3>1
    <3> QED BY <1>4, <2>0, <3>2, <3>3 DEF BufferOK
  <2> QED BY <2>0, <2>1, <2>2
<1>10. CASE n < N - 1
  <2>1. read_index' = read_index /\ Waiting' = n + 1
    BY <1>1, <1>2, <1>4, <1>10 DEF Around, Waiting, BufferOK, Index
  <2>2. Unread' = [i \in 1 .. n + 1 |-> more[i]]
    <3>1. \A i \in 1 .. n + 1 : i - 1 \in 0 .. n /\ (i - 1) + 1 = i
      BY <1>2
    <3> QED BY <1>6, <1>9, <2>1, <3>1
  <2>3. more = [i \in 1 .. n + 1 |-> more[i]]
    BY <1>8
  <2>4. ~(Len(more) > N - 1)
    BY <1>1, <1>2, <1>8, <1>10
  <2> QED BY <1>5, <2>2, <2>3, <2>4 DEF Received!Newest, more
<1>11. CASE n = N - 1
  <2>1. read_index' = Around(read_index, 1) /\ Waiting' = n
    BY <1>1, <1>2, <1>4, <1>11 DEF Around, Waiting, BufferOK, Index
  <2>2. \A i \in 1 .. n : Around(read_index', i - 1) = Around(read_index, i)
    BY <1>1, <1>2, <1>11, <2>1 DEF Around, BufferOK, Index
  <2>3. Unread' = [i \in 1 .. n |-> more[i + 1]]
    BY <1>2, <1>6, <1>9, <2>1, <2>2
  <2>4. Tail(more) = [i \in 1 .. n |-> more[i + 1]]
    <3> HIDE DEF n
    <3>1. Len(more) = n + 1 /\ n \in Nat /\ more \in Seq(B)
      BY <1>2, <1>8
    <3>2. more # << >>
      BY <3>1
    <3>3. /\ Tail(more) \in Seq(B) /\ Len(Tail(more)) = Len(more) - 1
          /\ \A i \in 1 .. Len(Tail(more)) : Tail(more)[i] = more[i + 1]
      BY <3>1, <3>2, HeadTailProperties
    <3>4. Len(more) - 1 = n
      BY <3>1
    <3> DEFINE rest == Tail(more)
    <3>5. rest \in [1 .. Len(rest) -> B]
      BY <3>3, LenProperties
    <3> HIDE DEF rest
    <3>6. rest = [i \in 1 .. n |-> rest[i]]
      BY <3>3, <3>4, <3>5 DEF rest
    <3> QED BY <3>3, <3>4, <3>6 DEF rest
  <2>5. Len(more) > N - 1
    BY <1>1, <1>8, <1>11
  <2> QED BY <1>5, <2>3, <2>4, <2>5 DEF Received!Newest, more
<1> QED BY <1>1, <1>2, <1>10, <1>11

\* rt_serial_read of a byte takes the first one.
LEMMA ReadGets ==
  ASSUME BufferOK, ShellRead \/ ShellReadNext
  PROVE  /\ BufferOK'
         /\ \/ Unread' = Unread
            \/ Unread # << >> /\ Unread' = Tail(Unread)
<1> DEFINE N == UART_RX_BUFFER_SIZE
           B == Byte \cup {CHOOSE x \in Byte : TRUE}
           n == Waiting
<1>1. N \in Nat /\ N >= 2
  BY UartType
<1>2. UNCHANGED <<rx_buffer, save_index>>
  BY DEF ShellRead, ShellReadNext
<1>3. CASE read_index = save_index
  <2>1. read_index' = read_index
    BY <1>3 DEF ShellRead, ShellReadNext
  <2> QED BY <1>2, <2>1 DEF BufferOK, Unread
<1>4. CASE read_index # save_index
  <2>1. read_index' = Around(read_index, 1) /\ read_index' \in Index
    BY <1>1, <1>4, AroundIsMod DEF ShellRead, ShellReadNext, Following, BufferOK
  <2>2. BufferOK'
    BY <1>2, <2>1 DEF BufferOK
  <2>3. /\ n \in 0 .. N - 1 /\ save_index = Around(read_index, n)
        /\ Unread = [i \in 1 .. n |-> rx_buffer[Around(read_index, i - 1)]]
    BY UnreadBytes DEF UnreadFollow
  <2>4. Unread' = [i \in 1 .. Waiting' |-> rx_buffer'[Around(read_index', i - 1)]]
    <3>1. UnreadFollow'
      BY <2>2, UnreadBytes, PTL
    <3> QED BY <3>1 DEF UnreadFollow
  <2>5. n # 0 /\ Waiting' = n - 1
    BY <1>1, <1>2, <1>4, <2>1, <2>3 DEF Around, Waiting, BufferOK, Index
  <2>6. \A i \in 1 .. n - 1 : /\ Around(read_index', i - 1) = Around(read_index, i)
                              /\ (i + 1) - 1 = i /\ i + 1 \in 1 .. n
    BY <1>1, <2>1, <2>3 DEF Around, BufferOK, Index
  <2>7. /\ Unread \in Seq(B) /\ Len(Unread) = n
        /\ \A i \in 1 .. n : Unread[i] = rx_buffer[Around(read_index, i - 1)]
    <3>1. \A i \in 1 .. n : Around(read_index, i - 1) \in Index
      BY <1>1, <2>3, AroundIsMod DEF BufferOK
    <3>2. Unread \in [1 .. n -> B]
      BY <2>3, <3>1 DEF BufferOK
    <3> HIDE DEF n
    <3> QED BY <2>3, <3>2
  <2>8. Tail(Unread) = [i \in 1 .. n - 1 |-> Unread[i + 1]] /\ Unread # << >>
    <3> HIDE DEF n
    <3> QED BY <2>3, <2>5, <2>7
  <2>9. Unread' = [i \in 1 .. n - 1 |-> rx_buffer[Around(read_index, i)]]
    BY <1>2, <2>4, <2>5, <2>6
  <2>10. \A i \in 1 .. n - 1 : Unread[i + 1] = rx_buffer[Around(read_index, i)]
    <3> HIDE DEF n
    <3> QED BY <2>3, <2>6, <2>7
  <2> QED BY <2>2, <2>8, <2>9, <2>10
<1> QED BY <1>3, <1>4

LEMMA UartStepImplements ==
  BufferOK /\ [UartNext]_uartvars => BufferOK' /\ [Received!Next]_Unread
<1> SUFFICES ASSUME BufferOK, [UartNext]_uartvars
             PROVE  BufferOK' /\ [Received!Next]_Unread
  OBVIOUS
<1>1. ASSUME UNCHANGED <<rx_buffer, read_index, save_index>>
      PROVE  BufferOK' /\ [Received!Next]_Unread
  BY <1>1 DEF BufferOK, Unread
<1>2. CASE UNCHANGED uartvars
  BY <1>1, <1>2 DEF uartvars, bytevars
<1>3. ASSUME NEW b \in Byte, Receive(b)
      PROVE  BufferOK' /\ [Received!Next]_Unread
  BY <1>3, ReceivePuts DEF Received!Next, Received!Put
<1>4. CASE ShellRead \/ ShellReadNext
  BY <1>4, ReadGets DEF Received!Next, Received!Get
<1>5. CASE ReceiveEnd \/ SetDevice \/ ShellWait \/ DmaTxIsr
  BY <1>1, <1>5 DEF ReceiveEnd, SetDevice, ShellWait, DmaTxIsr, bytevars
<1>6. ASSUME NEW w \in UartWriter,
             UartWrite(w) \/ WriteAlloc(w) \/ WriteLink(w) \/ WritePoll(w)
      PROVE  UNCHANGED bytevars
  BY <1>6 DEF UartWrite, WriteAlloc, WriteLink, WritePoll
<1> QED BY <1>1, <1>2, <1>3, <1>4, <1>5, <1>6 DEF UartNext, bytevars

(* The receive buffer is a queue that loses the oldest byte when it is full  *)
(* (serial.c:331), for a ring of any size, with the handler and the reader   *)
(* moving read_index both.                                                   *)
THEOREM UartReceives == UartSpec => BytesInOrder
<1>1. UartInit => BufferOK /\ Received!Init
  <2> SUFFICES ASSUME UartInit PROVE BufferOK /\ Received!Init
    OBVIOUS
  <2>1. BufferOK
    BY UartType DEF UartInit, BufferOK, Index
  <2>2. Waiting = 0
    BY UartType DEF UartInit, Waiting
  <2>3. 1 .. Waiting = {}
    BY <2>2
  <2>4. \A f : [i \in {} |-> f[i]] = << >>
    OBVIOUS
  <2>5. Unread = [i \in {} |-> rx_buffer[Around(read_index, i - 1)]]
    BY <2>1, <2>3, UnreadBytes DEF UnreadFollow
  <2>6. [i \in {} |-> rx_buffer[Around(read_index, i - 1)]] = << >>
    OBVIOUS
  <2> QED BY <2>1, <2>5, <2>6 DEF Received!Init
<1> QED BY <1>1, UartStepImplements, PTL DEF UartSpec, BytesInOrder, Received!Spec

-----------------------------------------------------------------------------
(* The Ethernet driver *)

\* The one thread of the TCP/IP stack sends all the packets.
OneSender == \A s, t \in Sender : s = t

Owned == {d \in TxDesc : tx_own[d]}

\* The descriptors the DMA has yet to send are those from where it is to
\* where the next packet goes.
OwnedInRing ==
  LET a == tx_dma
      b == DMATxDescToSet
  IN  IF a = b THEN Owned \in {{}, TxDesc}
      ELSE Owned = {d \in TxDesc : IF a < b THEN a <= d /\ d < b
                                   ELSE a <= d \/ d < b}

Filling == IF etx \in {"fill", "own"} THEN 1 ELSE 0

\* A permit the interrupt has yet to give back.
Unclaimed == IF "T" \in status \ handling THEN 1 ELSE 0

Carried == IF etx_msg # Nobody THEN 1 ELSE 0

\* The sender waits for exactly one message or answer.
OneMessage ==
  /\ \A s \in Sender :
       Len(tx_mb) + Carried + tx_ack = IF sender[s] = "ack" THEN 1 ELSE 0
  /\ etx = "recv" <=> etx_msg = Nobody

\* A frame or a change of the link that erx has not seen has a mail, or an
\* interrupt to come.
MailToCome ==
  /\ "R" \in handling => rx_mb > 0
  /\ erx = "recv" /\ rx_mb = 0 /\ "R" \notin status
       => rx_own[DMARxDescToGet] \/ gave_up

LinkToCome ==
  /\ link_changed => rx_mb > 0
  /\ ~link_changed => link_status = IF erx \in {"up", "down"} THEN erx = "up"
                                    ELSE netif_up

EthInv ==
  /\ EthTypeOK
  /\ TxBufferIsFree
  /\ OwnedInRing
  /\ OneMessage
  /\ MailToCome /\ LinkToCome

LEMMA TxCardinalities ==
  /\ IsFiniteSet(Owned)
  /\ Cardinality(Owned) \in Nat
  /\ Cardinality(TxDesc) = ETH_TXBUFNB
<1>1. ETH_TXBUFNB \in Nat \ {0}
  BY EthernetType
<1>2. IsFiniteSet(TxDesc) /\ Cardinality(TxDesc) = ETH_TXBUFNB
  BY <1>1, FS_Interval DEF TxDesc
<1>3. Owned \subseteq TxDesc
  BY DEF Owned
<1> QED BY <1>2, <1>3, FS_Subset, FS_CardinalityType

\* The sum TxBufferIsFree bounds.
TxCount == tx_buf_free + Cardinality(Owned) + Filling + Unclaimed

LEMMA EthInitInv == EthInit => EthInv
<1> SUFFICES ASSUME EthInit PROVE EthInv
  OBVIOUS
<1>1. Owned = {}
  BY DEF EthInit, Owned
<1>2. Cardinality(Owned) = 0
  BY <1>1, FS_EmptySet
<1>3. /\ ETH_TXBUFNB \in Nat \ {0} /\ ETH_RXBUFNB \in Nat \ {0}
      /\ MBOX_SIZE \in Nat \ {0}
  BY EthernetType
<1>4. EthTypeOK
  <2>1. 0 \in TxDesc /\ 0 \in RxDesc /\ 0 \in 0 .. MBOX_SIZE
    BY <1>3 DEF TxDesc, RxDesc
  <2>2. << >> \in Seq(Sender)
    OBVIOUS
  <2> QED BY <1>3, <2>1, <2>2 DEF EthInit, EthTypeOK
<1>5. TxBufferIsFree
  BY <1>2, <1>3 DEF EthInit, TxBufferIsFree, Owned
<1>6. OwnedInRing
  BY <1>1 DEF EthInit, OwnedInRing
<1>7. OneMessage
  BY DEF EthInit, OneMessage, Carried
<1>8. MailToCome /\ LinkToCome
  <2>1. 0 \in RxDesc
    BY <1>3 DEF RxDesc
  <2> QED BY <2>1 DEF EthInit, MailToCome, LinkToCome
<1> QED BY <1>4, <1>5, <1>6, <1>7, <1>8 DEF EthInv

(* A permit, or one that etx has taken, says that the descriptor the next   *)
(* packet goes to has been given back.                                      *)
LEMMA PermitMeansFree ==
  ASSUME EthInv, Cardinality(Owned) < ETH_TXBUFNB
  PROVE  ~tx_own[DMATxDescToSet]
<1>1. Owned # TxDesc
  BY TxCardinalities, EthernetType
<1>2. DMATxDescToSet \in TxDesc /\ tx_dma \in TxDesc
  BY DEF EthInv, EthTypeOK
<1>3. DMATxDescToSet \notin Owned
  <2>1. CASE tx_dma = DMATxDescToSet
    BY <1>1, <2>1 DEF EthInv, OwnedInRing
  <2>2. CASE tx_dma # DMATxDescToSet
    BY <1>2, <2>2 DEF EthInv, OwnedInRing, TxDesc
  <2> QED BY <2>1, <2>2
<1> QED BY <1>2, <1>3 DEF Owned

(* Whoever sends, receives or interrupts: the other half is as it was. *)
LEMMA TxHalfKept ==
  ASSUME EthInv, UNCHANGED ethtxvars, Unclaimed' = Unclaimed
  PROVE  TxBufferIsFree' /\ OwnedInRing' /\ OneMessage'
<1>1. UNCHANGED <<sender, tx_mb, tx_ack, etx, etx_msg, tx_buf_free, tx_own,
                  DMATxDescToSet, tx_dma>>
  BY DEF ethtxvars
<1>2. TxBufferIsFree'
  BY <1>1 DEF EthInv, TxBufferIsFree, Unclaimed
<1>3. OwnedInRing'
  BY <1>1 DEF EthInv, OwnedInRing, Owned
<1>4. OneMessage'
  BY <1>1 DEF EthInv, OneMessage, Carried
<1> QED BY <1>2, <1>3, <1>4

LEMMA RxHalfKept ==
  ASSUME EthInv, UNCHANGED ethrxvars,
         "R" \in status <=> "R" \in status', "R" \in handling <=> "R" \in handling'
  PROVE  MailToCome' /\ LinkToCome'
BY DEF EthInv, ethrxvars, linkvars, MailToCome, LinkToCome

(* A step of the sending half, in terms of the count and the ring. *)
LEMMA CountGivesFree ==
  ASSUME TxCount <= ETH_TXBUFNB, etx \in {"fill", "own"} => ~tx_own[DMATxDescToSet]
  PROVE  TxBufferIsFree
BY DEF TxCount, TxBufferIsFree, Filling, Unclaimed, Owned

LEMMA FreeGivesCount ==
  ASSUME EthInv
  PROVE  /\ TxCount <= ETH_TXBUFNB
         /\ etx \in {"fill", "own"} => ~tx_own[DMATxDescToSet]
         /\ Cardinality(Owned) \in Nat /\ tx_buf_free \in Nat
         /\ Filling \in {0, 1} /\ Unclaimed \in {0, 1}
         /\ ETH_TXBUFNB \in Nat \ {0}
<1>1. TxBufferIsFree /\ tx_buf_free \in Nat
  BY DEF EthInv, EthTypeOK
<1>2. TxCount <= ETH_TXBUFNB /\ (etx \in {"fill", "own"} => ~tx_own[DMATxDescToSet])
  BY <1>1 DEF TxCount, TxBufferIsFree, Filling, Unclaimed, Owned
<1> QED BY <1>1, <1>2, TxCardinalities, EthernetType DEF Filling, Unclaimed

\* What the steps of the sending half leave alone.
LEMMA TxTypes ==
  ASSUME EthInv
  PROVE  /\ sender \in [Sender -> {"run", "ack"}] /\ tx_mb \in Seq(Sender)
         /\ tx_ack \in Nat /\ etx \in {"recv", "take", "fill", "own", "ack"}
         /\ etx_msg \in Sender \cup {Nobody} /\ Nobody \notin Sender
         /\ tx_own \in [TxDesc -> BOOLEAN]
         /\ DMATxDescToSet \in TxDesc /\ tx_dma \in TxDesc
         /\ status \subseteq {"R", "T"} /\ handling \subseteq {"R", "T"}
BY EthernetType DEF EthInv, EthTypeOK

(* A step that leaves the semaphore, the descriptors and the bits alone     *)
(* keeps the count, if etx does not begin or end the copy of a packet.      *)
LEMMA RingKept ==
  ASSUME EthInv, UNCHANGED <<tx_buf_free, tx_own, DMATxDescToSet, tx_dma>>,
         Unclaimed' = Unclaimed,
         etx' \in {"fill", "own"} <=> etx \in {"fill", "own"}
  PROVE  TxBufferIsFree' /\ OwnedInRing'
<1>1. Owned' = Owned
  BY DEF Owned
<1>2. Filling' = Filling
  BY DEF Filling
<1>3. TxCount' <= ETH_TXBUFNB
  BY <1>1, <1>2, FreeGivesCount DEF TxCount
<1>4. (etx \in {"fill", "own"} => ~tx_own[DMATxDescToSet])'
  BY FreeGivesCount
<1>5. TxBufferIsFree'
  BY <1>3, <1>4 DEF TxCount, TxBufferIsFree, Filling, Unclaimed, Owned
<1>6. OwnedInRing'
  BY <1>1 DEF EthInv, OwnedInRing
<1> QED BY <1>5, <1>6

LEMMA LinkOutputKeeps ==
  ASSUME EthInv, OneSender, NEW s \in Sender, LinkOutput(s) \/ LinkOutputAck(s)
  PROVE  EthInv'
<1>1. /\ UNCHANGED <<etx, etx_msg, tx_buf_free, tx_own, DMATxDescToSet, tx_dma,
                     ethrxvars, status, handling>>
      /\ Unclaimed' = Unclaimed
  BY DEF LinkOutput, LinkOutputAck, Unclaimed
<1>2. TxBufferIsFree' /\ OwnedInRing'
  BY <1>1, RingKept
<1>3. MailToCome' /\ LinkToCome'
  BY <1>1, RxHalfKept
<1>4. Len(tx_mb) \in Nat /\ Carried \in {0, 1} /\ Carried' = Carried /\ \A t \in Sender : t = s
  BY <1>1, TxTypes DEF Carried, OneSender
<1>5. Len(tx_mb) + Carried + tx_ack = IF sender[s] = "ack" THEN 1 ELSE 0
  BY DEF EthInv, OneMessage
<1>6. /\ sender' \in [Sender -> {"run", "ack"}] /\ tx_mb' \in Seq(Sender) /\ tx_ack' \in Nat
      /\ Len(tx_mb') + Carried' + tx_ack' = IF sender'[s] = "ack" THEN 1 ELSE 0
  <2>1. CASE LinkOutput(s)
    <3>1. Len(tx_mb') = Len(tx_mb) + 1 /\ tx_mb' \in Seq(Sender)
      BY <2>1, TxTypes DEF LinkOutput
    <3> QED BY <1>4, <1>5, <2>1, <3>1, TxTypes DEF LinkOutput
  <2>2. CASE LinkOutputAck(s)
    BY <1>4, <1>5, <2>2, TxTypes DEF LinkOutputAck
  <2> QED BY <2>1, <2>2
<1>7. OneMessage'
  BY <1>1, <1>4, <1>6 DEF EthInv, OneMessage
<1>8. EthTypeOK'
  BY <1>1, <1>6 DEF EthInv, EthTypeOK, ethrxvars, linkvars
<1> QED BY <1>2, <1>3, <1>7, <1>8 DEF EthInv

(* The steps of etx that handle its message. *)
LEMMA TxMessageKeeps ==
  ASSUME EthInv, TxRecv \/ TxAck
  PROVE  EthInv'
<1>1. /\ UNCHANGED <<sender, tx_buf_free, tx_own, DMATxDescToSet, tx_dma,
                     ethrxvars, status, handling>>
      /\ Unclaimed' = Unclaimed
      /\ etx \notin {"fill", "own"} /\ etx' \notin {"fill", "own"}
  BY DEF TxRecv, TxAck, Unclaimed
<1>2. TxBufferIsFree' /\ OwnedInRing'
  BY <1>1, RingKept
<1>3. MailToCome' /\ LinkToCome'
  BY <1>1, RxHalfKept
<1>4. /\ tx_mb' \in Seq(Sender) /\ tx_ack' \in Nat
      /\ etx' \in {"recv", "take", "fill", "own", "ack"}
      /\ etx_msg' \in Sender \cup {Nobody}
      /\ etx' = "recv" <=> etx_msg' = Nobody
      /\ Len(tx_mb') + Carried' + tx_ack' = Len(tx_mb) + Carried + tx_ack
  <2>1. CASE TxRecv
    <3>1. etx_msg = Nobody /\ Carried = 0
      BY <2>1 DEF TxRecv, EthInv, OneMessage, Carried
    <3>2. /\ tx_mb' \in Seq(Sender) /\ Len(tx_mb') = Len(tx_mb) - 1
          /\ Len(tx_mb) \in Nat /\ etx_msg' \in Sender
      BY <2>1, TxTypes DEF TxRecv
    <3>3. Carried' = 1
      BY <3>2, TxTypes DEF Carried
    <3> QED BY <2>1, <3>1, <3>2, <3>3, TxTypes DEF TxRecv
  <2>2. CASE TxAck
    <3>1. Carried = 1 /\ Carried' = 0
      BY <2>2 DEF TxAck, EthInv, OneMessage, Carried
    <3>2. Len(tx_mb) \in Nat
      BY TxTypes
    <3> QED BY <2>2, <3>1, <3>2, TxTypes DEF TxAck
  <2> QED BY <2>1, <2>2
<1>5. OneMessage'
  BY <1>1, <1>4 DEF EthInv, OneMessage
<1>6. EthTypeOK'
  BY <1>1, <1>4 DEF EthInv, EthTypeOK, ethrxvars, linkvars
<1> QED BY <1>2, <1>3, <1>5, <1>6 DEF EthInv

(* The steps of etx that handle the packet. *)
LEMMA TxPacketKeepsRest ==
  ASSUME EthInv, TxTake \/ TxFill \/ TxOwn
  PROVE  OneMessage' /\ MailToCome' /\ LinkToCome'
<1>1. /\ UNCHANGED <<sender, tx_mb, tx_ack, etx_msg, ethrxvars, status, handling>>
      /\ etx # "recv" /\ etx' # "recv"
  BY DEF TxTake, TxFill, TxOwn
<1>2. MailToCome' /\ LinkToCome'
  BY <1>1, RxHalfKept
<1>3. OneMessage'
  BY <1>1 DEF EthInv, OneMessage, Carried
<1> QED BY <1>2, <1>3

LEMMA TxTakeKeeps ==
  ASSUME EthInv, TxTake
  PROVE  EthInv'
<1>1. /\ UNCHANGED <<sender, tx_mb, tx_ack, etx_msg, tx_own, DMATxDescToSet,
                     tx_dma, ethrxvars, status, handling>>
      /\ Owned' = Owned /\ Unclaimed' = Unclaimed /\ Filling = 0
  BY DEF TxTake, Owned, Unclaimed, Filling
<1>2. /\ tx_buf_free' \in Nat /\ etx' \in {"recv", "take", "fill", "own", "ack"}
      /\ tx_buf_free' + Filling' = tx_buf_free /\ Filling' \in {0, 1}
      /\ etx' = "fill" => tx_buf_free > 0
  BY FreeGivesCount DEF TxTake, Filling
<1>3. TxCount' <= ETH_TXBUFNB
  BY <1>1, <1>2, FreeGivesCount DEF TxCount
<1>4. (etx \in {"fill", "own"} => ~tx_own[DMATxDescToSet])'
  <2>1. SUFFICES ASSUME tx_buf_free > 0 PROVE ~tx_own[DMATxDescToSet]
    BY <1>1, <1>2 DEF TxTake
  <2>2. Cardinality(Owned) < ETH_TXBUFNB
    BY <2>1, FreeGivesCount DEF TxCount
  <2> QED BY <2>2, PermitMeansFree
<1>5. TxBufferIsFree'
  BY <1>3, <1>4 DEF TxCount, TxBufferIsFree, Filling, Unclaimed, Owned
<1>6. OwnedInRing'
  BY <1>1 DEF EthInv, OwnedInRing
<1>7. EthTypeOK'
  BY <1>1, <1>2 DEF EthInv, EthTypeOK, ethrxvars, linkvars
<1> QED BY <1>5, <1>6, <1>7, TxPacketKeepsRest DEF EthInv

LEMMA TxFillKeeps ==
  ASSUME EthInv, TxFill
  PROVE  EthInv'
<1>1. /\ UNCHANGED <<sender, tx_mb, tx_ack, etx_msg, tx_buf_free, tx_own,
                     DMATxDescToSet, tx_dma, ethrxvars, status, handling>>
      /\ etx = "fill" /\ etx' = "own" /\ Unclaimed' = Unclaimed
  BY DEF TxFill, Unclaimed
<1>2. EthTypeOK'
  BY <1>1 DEF EthInv, EthTypeOK, ethrxvars, linkvars
<1> QED BY <1>1, <1>2, RingKept, TxPacketKeepsRest DEF EthInv

LEMMA TxOwnKeeps ==
  ASSUME EthInv, TxOwn
  PROVE  EthInv'
<1> DEFINE a == tx_dma
           b == DMATxDescToSet
<1>1. /\ UNCHANGED <<sender, tx_mb, tx_ack, etx_msg, tx_buf_free, tx_dma,
                     ethrxvars, status, handling>>
      /\ etx = "own" /\ etx' = "ack"
      /\ Filling = 1 /\ Filling' = 0 /\ Unclaimed' = Unclaimed
  BY DEF TxOwn, Filling, Unclaimed
<1>2. ETH_TXBUFNB \in Nat \ {0} /\ a \in 0 .. ETH_TXBUFNB - 1 /\ b \in 0 .. ETH_TXBUFNB - 1
  BY EthernetType, TxTypes DEF TxDesc
<1>3. /\ b' = IF b + 1 = ETH_TXBUFNB THEN 0 ELSE b + 1
      /\ a' = a
  BY <1>1, <1>2, NextPlace DEF TxOwn
<1>4. b \notin Owned
  BY <1>1, FreeGivesCount DEF Owned
<1>5. Owned' = Owned \cup {b} /\ tx_own' \in [TxDesc -> BOOLEAN]
  BY TxTypes DEF TxOwn, Owned
<1>6. Cardinality(Owned') = Cardinality(Owned) + 1
  BY <1>4, <1>5, TxCardinalities, FS_AddElement
<1>7. TxCount' <= ETH_TXBUFNB
  BY <1>1, <1>6, FreeGivesCount DEF TxCount
<1>8. TxBufferIsFree'
  BY <1>1, <1>7 DEF TxCount, TxBufferIsFree, Filling, Unclaimed, Owned
<1>9. OwnedInRing'
  <2>1. CASE a = b
    <3>1. Owned = {}
      BY <1>2, <1>4, <2>1 DEF EthInv, OwnedInRing, TxDesc
    <3> QED BY <1>2, <1>3, <1>5, <2>1, <3>1 DEF OwnedInRing, TxDesc
  <2>2. CASE a # b
    <3>1. Owned = {d \in TxDesc : IF a < b THEN a <= d /\ d < b ELSE a <= d \/ d < b}
      BY <2>2 DEF EthInv, OwnedInRing
    <3> HIDE DEF a, b
    <3>2. CASE a < b /\ b + 1 # ETH_TXBUFNB
      <4>1. a' < b' /\ Owned' = {d \in TxDesc : a' <= d /\ d < b'}
        BY <1>2, <1>3, <1>5, <3>1, <3>2 DEF TxDesc
      <4> QED BY <1>2, <1>3, <4>1 DEF OwnedInRing, a, b
    <3>3. CASE a < b /\ b + 1 = ETH_TXBUFNB /\ a # 0
      <4>1. b' < a' /\ Owned' = {d \in TxDesc : a' <= d \/ d < b'}
        BY <1>2, <1>3, <1>5, <3>1, <3>3 DEF TxDesc
      <4> QED BY <1>2, <1>3, <4>1 DEF OwnedInRing, a, b
    <3>4. CASE a < b /\ b + 1 = ETH_TXBUFNB /\ a = 0
      <4>1. b' = a' /\ Owned' = TxDesc
        BY <1>2, <1>3, <1>5, <3>1, <3>4 DEF TxDesc
      <4> QED BY <4>1 DEF OwnedInRing, a, b
    <3>5. CASE b < a /\ b + 1 # a
      <4>1. b' < a' /\ Owned' = {d \in TxDesc : a' <= d \/ d < b'}
        BY <1>2, <1>3, <1>5, <3>1, <3>5 DEF TxDesc
      <4> QED BY <1>2, <1>3, <4>1 DEF OwnedInRing, a, b
    <3>6. CASE b < a /\ b + 1 = a
      <4>1. b' = a' /\ Owned' = TxDesc
        BY <1>2, <1>3, <1>5, <3>1, <3>6 DEF TxDesc
      <4> QED BY <4>1 DEF OwnedInRing, a, b
    <3> QED BY <1>2, <2>2, <3>2, <3>3, <3>4, <3>5, <3>6
  <2> QED BY <2>1, <2>2
<1>10. EthTypeOK'
  <2>1. b' \in TxDesc
    BY <1>2, <1>3 DEF TxDesc
  <2> QED BY <1>1, <1>5, <2>1 DEF EthInv, EthTypeOK, ethrxvars, linkvars
<1> QED BY <1>8, <1>9, <1>10, TxPacketKeepsRest DEF EthInv

LEMMA DmaSentKeeps ==
  ASSUME EthInv, DmaSent
  PROVE  EthInv'
<1> DEFINE a == tx_dma
           b == DMATxDescToSet
<1>1. /\ UNCHANGED <<sender, tx_mb, tx_ack, etx, etx_msg, tx_buf_free,
                     DMATxDescToSet, ethrxvars, handling>>
      /\ status' = status \cup {"T"}
      /\ Filling' = Filling /\ Unclaimed' \in {0, 1}
  BY DEF DmaSent, Filling, Unclaimed
<1>2. ETH_TXBUFNB \in Nat \ {0} /\ a \in 0 .. ETH_TXBUFNB - 1 /\ b \in 0 .. ETH_TXBUFNB - 1
  BY EthernetType, TxTypes DEF TxDesc
<1>3. /\ a' = IF a + 1 = ETH_TXBUFNB THEN 0 ELSE a + 1
      /\ b' = b
  BY <1>1, <1>2, NextPlace DEF DmaSent
<1>4. a \in Owned
  BY TxTypes DEF DmaSent, Owned
<1>5. Owned' = Owned \ {a} /\ tx_own' \in [TxDesc -> BOOLEAN]
  BY TxTypes DEF DmaSent, Owned
<1>6. Cardinality(Owned') = Cardinality(Owned) - 1
  BY <1>4, <1>5, TxCardinalities, FS_RemoveElement
<1>7. TxCount' <= ETH_TXBUFNB
  BY <1>1, <1>6, FreeGivesCount DEF TxCount
<1>8. (etx \in {"fill", "own"} => ~tx_own[DMATxDescToSet])'
  BY <1>1, TxTypes, FreeGivesCount DEF DmaSent
<1>9. TxBufferIsFree'
  BY <1>7, <1>8 DEF TxCount, TxBufferIsFree, Filling, Unclaimed, Owned
<1>10. OwnedInRing'
  <2>1. CASE a = b
    <3>1. Owned = TxDesc
      BY <1>2, <1>4, <2>1 DEF EthInv, OwnedInRing, TxDesc
    <3> HIDE DEF a, b
    <3>2. CASE ETH_TXBUFNB = 1
      <4>1. a' = b' /\ Owned' = {}
        BY <1>2, <1>3, <1>5, <2>1, <3>1, <3>2 DEF TxDesc
      <4> QED BY <4>1 DEF OwnedInRing, a, b
    <3>3. CASE ETH_TXBUFNB # 1 /\ a + 1 = ETH_TXBUFNB
      <4>1. a' < b' /\ Owned' = {d \in TxDesc : a' <= d /\ d < b'}
        BY <1>2, <1>3, <1>5, <2>1, <3>1, <3>3 DEF TxDesc
      <4> QED BY <1>2, <1>3, <4>1 DEF OwnedInRing, a, b
    <3>4. CASE ETH_TXBUFNB # 1 /\ a + 1 # ETH_TXBUFNB
      <4>1. b' < a' /\ Owned' = {d \in TxDesc : a' <= d \/ d < b'}
        BY <1>2, <1>3, <1>5, <2>1, <3>1, <3>4 DEF TxDesc
      <4> QED BY <1>2, <1>3, <4>1 DEF OwnedInRing, a, b
    <3> QED BY <3>2, <3>3, <3>4
  <2>2. CASE a # b
    <3>1. Owned = {d \in TxDesc : IF a < b THEN a <= d /\ d < b ELSE a <= d \/ d < b}
      BY <2>2 DEF EthInv, OwnedInRing
    <3> HIDE DEF a, b
    <3>2. CASE a + 1 = b
      <4>1. a' = b' /\ Owned' = {}
        BY <1>2, <1>3, <1>5, <3>1, <3>2 DEF TxDesc
      <4> QED BY <4>1 DEF OwnedInRing, a, b
    <3>3. CASE a + 1 < b
      <4>1. a' < b' /\ Owned' = {d \in TxDesc : a' <= d /\ d < b'}
        BY <1>2, <1>3, <1>5, <3>1, <3>3 DEF TxDesc
      <4> QED BY <1>2, <1>3, <4>1 DEF OwnedInRing, a, b
    <3>4. CASE b < a /\ a + 1 # ETH_TXBUFNB
      <4>1. b' < a' /\ Owned' = {d \in TxDesc : a' <= d \/ d < b'}
        BY <1>2, <1>3, <1>5, <3>1, <3>4 DEF TxDesc
      <4> QED BY <1>2, <1>3, <4>1 DEF OwnedInRing, a, b
    <3>5. CASE b < a /\ a + 1 = ETH_TXBUFNB /\ b # 0
      <4>1. a' < b' /\ Owned' = {d \in TxDesc : a' <= d /\ d < b'}
        BY <1>2, <1>3, <1>5, <3>1, <3>5 DEF TxDesc
      <4> QED BY <1>2, <1>3, <4>1 DEF OwnedInRing, a, b
    <3>6. CASE b < a /\ a + 1 = ETH_TXBUFNB /\ b = 0
      <4>1. a' = b' /\ Owned' = {}
        BY <1>2, <1>3, <1>5, <3>1, <3>6 DEF TxDesc
      <4> QED BY <4>1 DEF OwnedInRing, a, b
    <3> QED BY <1>2, <2>2, <3>2, <3>3, <3>4, <3>5, <3>6
  <2> QED BY <2>1, <2>2
<1>11. OneMessage'
  BY <1>1 DEF EthInv, OneMessage, Carried
<1>12. MailToCome' /\ LinkToCome'
  BY <1>1, RxHalfKept
<1>13. EthTypeOK'
  <2>1. a' \in TxDesc
    BY <1>2, <1>3 DEF TxDesc
  <2> QED BY <1>1, <1>5, <2>1 DEF EthInv, EthTypeOK, ethrxvars, linkvars
<1> QED BY <1>9, <1>10, <1>11, <1>12, <1>13 DEF EthInv

(* The thread erx, the receive DMA and the link: no step of them touches    *)
(* the sending half.                                                        *)
LEMMA ReceiveHalfKeeps ==
  ASSUME EthInv,
         \/ DmaReceived \/ RxRecv \/ RxLink \/ RxEmpty
         \/ \E dropped \in BOOLEAN : RxFrame(dropped)
         \/ \E up \in BOOLEAN : LinkChange(up)
  PROVE  EthInv'
<1>1. UNCHANGED <<ethtxvars, handling>> /\ Unclaimed' = Unclaimed
  BY DEF DmaReceived, RxRecv, RxLink, RxEmpty, RxFrame, LinkChange, Unclaimed
<1>2. TxBufferIsFree' /\ OwnedInRing' /\ OneMessage'
  BY <1>1, TxHalfKept
<1>3. /\ rx_own \in [RxDesc -> BOOLEAN]
      /\ DMARxDescToGet \in RxDesc /\ rx_dma \in RxDesc
      /\ rx_mb \in 0 .. MBOX_SIZE
      /\ erx \in {"recv", "up", "down", "rx"}
      /\ {gave_up, link_changed, link_status, netif_up} \subseteq BOOLEAN
      /\ status \subseteq {"R", "T"}
      /\ MailToCome /\ LinkToCome
  BY DEF EthInv, EthTypeOK
<1>4. /\ MBOX_SIZE \in Nat \ {0}
      /\ (DMARxDescToGet + 1) % ETH_RXBUFNB \in RxDesc
      /\ (rx_dma + 1) % ETH_RXBUFNB \in RxDesc
  BY <1>3, EthernetType DEF RxDesc
<1> DEFINE RxTypes == /\ rx_own \in [RxDesc -> BOOLEAN]
                      /\ DMARxDescToGet \in RxDesc /\ rx_dma \in RxDesc
                      /\ rx_mb \in 0 .. MBOX_SIZE
                      /\ erx \in {"recv", "up", "down", "rx"}
                      /\ {gave_up, link_changed, link_status, netif_up} \subseteq BOOLEAN
                      /\ status \subseteq {"R", "T"}
<1>5. RxTypes' /\ MailToCome' /\ LinkToCome'
  <2>1. CASE DmaReceived
    BY <1>3, <1>4, <2>1 DEF DmaReceived, MailToCome, LinkToCome, linkvars
  <2>2. CASE RxRecv
    <3>1. /\ erx = "recv" /\ rx_mb > 0 /\ rx_mb' = rx_mb - 1 /\ handling' = {}
          /\ link_changed' = FALSE
          /\ erx' = IF ~link_changed THEN "rx" ELSE IF link_status THEN "up" ELSE "down"
          /\ UNCHANGED <<rx_own, DMARxDescToGet, rx_dma, link_status, netif_up, status>>
          /\ gave_up' = FALSE
      BY <2>2 DEF RxRecv, ThreadsRun
    <3>2. RxTypes'
      <4>1. rx_mb' \in 0 .. MBOX_SIZE
        BY <1>3, <1>4, <3>1
      <4>2. erx' \in {"recv", "up", "down", "rx"}
        BY <3>1
      <4> QED BY <1>3, <3>1, <4>1, <4>2
    <3>3. MailToCome'
      BY <3>1 DEF MailToCome
    <3>4. LinkToCome'
      <4>1. CASE link_changed /\ link_status
        BY <1>3, <3>1, <4>1 DEF LinkToCome
      <4>2. CASE link_changed /\ ~link_status
        BY <1>3, <3>1, <4>2 DEF LinkToCome
      <4>3. CASE ~link_changed
        BY <1>3, <3>1, <4>3 DEF LinkToCome
      <4> QED BY <4>1, <4>2, <4>3
    <3> QED BY <3>2, <3>3, <3>4
  <2>3. CASE RxLink
    BY <1>3, <1>4, <2>3 DEF RxLink, ThreadsRun, MailToCome, LinkToCome
  <2>4. CASE RxEmpty
    BY <1>3, <1>4, <2>4 DEF RxEmpty, ThreadsRun, MailToCome, LinkToCome, linkvars
  <2>5. ASSUME NEW dropped \in BOOLEAN, RxFrame(dropped)
        PROVE  RxTypes' /\ MailToCome' /\ LinkToCome'
    BY <1>3, <1>4, <2>5 DEF RxFrame, ThreadsRun, MailToCome, LinkToCome, linkvars
  <2>6. ASSUME NEW up \in BOOLEAN, LinkChange(up)
        PROVE  RxTypes' /\ MailToCome' /\ LinkToCome'
    BY <1>3, <1>4, <2>6 DEF LinkChange, ThreadsRun, MailToCome, LinkToCome
  <2> QED BY <2>1, <2>2, <2>3, <2>4, <2>5, <2>6
<1>6. EthTypeOK'
  BY <1>1, <1>5 DEF EthInv, EthTypeOK, ethtxvars
<1> QED BY <1>2, <1>5, <1>6 DEF EthInv

LEMMA IrqKeeps ==
  ASSUME EthInv, Irq \/ IrqClear
  PROVE  EthInv'
<1>1. UNCHANGED <<sender, tx_mb, tx_ack, etx, etx_msg, tx_own, DMATxDescToSet,
                  tx_dma, erx, rx_own, DMARxDescToGet, rx_dma, gave_up, linkvars>>
  BY DEF Irq, IrqClear, ethtxvars, ethrxvars
<1>2. Owned' = Owned /\ Filling' = Filling
  BY <1>1 DEF Owned, Filling
<1>3. tx_buf_free' \in Nat /\ tx_buf_free' + Unclaimed' <= tx_buf_free + Unclaimed
  BY FreeGivesCount DEF Irq, IrqClear, Unclaimed, ethtxvars
<1>4. TxCount' <= ETH_TXBUFNB
  BY <1>2, <1>3, FreeGivesCount DEF TxCount, Unclaimed
<1>5. (etx \in {"fill", "own"} => ~tx_own[DMATxDescToSet])'
  BY <1>1, FreeGivesCount
<1>6. TxBufferIsFree'
  BY <1>4, <1>5 DEF TxCount, TxBufferIsFree, Filling, Unclaimed, Owned
<1>7. OwnedInRing' /\ OneMessage'
  BY <1>1, <1>2 DEF EthInv, OwnedInRing, OneMessage, Carried
<1>8. rx_mb \in 0 .. MBOX_SIZE /\ MBOX_SIZE \in Nat \ {0} /\ MailToCome /\ LinkToCome
  BY EthernetType DEF EthInv, EthTypeOK
<1>9. rx_mb' \in 0 .. MBOX_SIZE /\ MailToCome' /\ LinkToCome'
  <2>1. CASE Irq
    BY <1>8, <2>1 DEF Irq, MailToCome, LinkToCome, linkvars
  <2>2. CASE IrqClear
    BY <1>8, <2>2 DEF IrqClear, MailToCome, LinkToCome, ethrxvars, linkvars
  <2> QED BY <2>1, <2>2
<1>10. status' \subseteq {"R", "T"} /\ handling' \subseteq {"R", "T"}
  BY TxTypes DEF Irq, IrqClear
<1>11. EthTypeOK'
  BY <1>1, <1>3, <1>9, <1>10 DEF EthInv, EthTypeOK, linkvars
<1> QED BY <1>6, <1>7, <1>9, <1>11 DEF EthInv

LEMMA EthStepInv == OneSender /\ EthInv /\ [EthNext]_ethvars => EthInv'
<1> SUFFICES ASSUME OneSender, EthInv, [EthNext]_ethvars PROVE EthInv'
  OBVIOUS
<1>1. CASE UNCHANGED ethvars
  <2>1. UNCHANGED <<ethtxvars, ethrxvars, status, handling>> /\ Unclaimed' = Unclaimed
    BY <1>1 DEF ethvars, Unclaimed
  <2>2. EthTypeOK'
    BY <2>1 DEF EthInv, EthTypeOK, ethtxvars, ethrxvars, linkvars
  <2> QED BY <2>1, <2>2, TxHalfKept, RxHalfKept DEF EthInv
<1>2. CASE EthNext
  BY <1>2, LinkOutputKeeps, TxMessageKeeps, TxTakeKeeps, TxFillKeeps, TxOwnKeeps,
     DmaSentKeeps, ReceiveHalfKeeps, IrqKeeps
  DEF EthNext
<1> QED BY <1>1, <1>2

LEMMA EthInvSafe == EthInv => PacketsAreSafe /\ NothingLeftBehind
<1> SUFFICES ASSUME EthInv PROVE PacketsAreSafe /\ NothingLeftBehind
  OBVIOUS
<1>1. MessageIsAlive
  <2>1. ASSUME NEW s \in Sender, Len(tx_mb) + Carried + tx_ack # 0
        PROVE  sender[s] = "ack"
    BY <2>1 DEF EthInv, OneMessage
  <2>2. Len(tx_mb) \in Nat /\ Carried \in {0, 1} /\ tx_ack \in Nat /\ tx_mb \in Seq(Sender)
    BY TxTypes DEF Carried
  <2>3. ASSUME NEW s \in ToSet(tx_mb) PROVE sender[s] = "ack"
    <3>1. s \in Sender /\ Len(tx_mb) > 0
      BY <2>2 DEF ToSet
    <3> QED BY <2>1, <2>2, <3>1
  <2>4. ASSUME etx_msg # Nobody PROVE sender[etx_msg] = "ack"
    BY <2>1, <2>2, <2>4, TxTypes DEF Carried
  <2> QED BY <2>3, <2>4 DEF MessageIsAlive
<1>2. ASSUME ErxSleeps
      PROVE  (rx_own[DMARxDescToGet] \/ gave_up) /\ netif_up = link_status
  BY <1>2 DEF EthInv, EthTypeOK, MailToCome, LinkToCome, ErxSleeps
<1> QED BY <1>1, <1>2 DEF EthInv, PacketsAreSafe, NothingLeftBehind

LEMMA EthInvariance == ASSUME OneSender PROVE EthSpec => []EthInv
BY OneSender, EthInitInv, EthStepInv, PTL DEF EthSpec

(* A packet is read and copied only while its message is on the stack of a  *)
(* waiting sender and the descriptor's buffer is free (ethernetif_linkoutput, *)
(* rt_stm32_eth_tx): the permits never outnumber the descriptors given back, *)
(* with the one sender the TCP/IP thread is.                                *)
THEOREM EthernetPacketsSafe ==
  ASSUME OneSender PROVE EthSpec => []PacketsAreSafe
<1>1. EthSpec => []EthInv
  BY OneSender, EthInvariance
<1> QED BY <1>1, EthInvSafe, PTL

(* erx does not sleep while a frame or a change of the link waits for it    *)
(* (eth_rx_thread_entry, ETH_IRQHandler), although a mail that does not fit *)
(* is not sent.                                                             *)
THEOREM EthernetNothingLeft ==
  ASSUME OneSender PROVE EthSpec => []NothingLeftBehind
<1>1. EthSpec => []EthInv
  BY OneSender, EthInvariance
<1> QED BY <1>1, EthInvSafe, PTL


-----------------------------------------------------------------------------
(* The serial framework *)

(***************************************************************************)
(* The modes a device is opened in together: to receive by interrupt and   *)
(* send by DMA, or to send by interrupt.  rt_serial_close frees the wrong  *)
(* structure for the others.  Opens and closes do not overlap each other,  *)
(* and only the first open of several brings a way to send.  See README.   *)
(***************************************************************************)
ModesFit ==
  \A m \in ModeSets : m \subseteq SUBSET {"INT_RX", "DMA_TX"} \/ m \subseteq SUBSET {"INT_TX"}

OneUser == \A t, u \in User : t = u

ByDma == modes \subseteq SUBSET {"INT_RX", "DMA_TX"}

DmaPlaces == {"push", "pushed", "transmit"}
IntPlaces == {"putc", "wait", "asleep"}

Opening == {"store_rx", "test_tx", "store_tx", "count"}
Closing == {"free_rx", "clear_rx", "free_tx", "clear_tx", "closed"}

SerialTypes ==
  /\ modes \in ModeSets
  /\ ref_count \in Nat
  /\ user \in [User -> UserPlace]
  /\ oflag \in [User -> modes \cup {{}}]
  /\ data_queue \in Seq(Data)
  /\ dma \in Data \cup {Nothing}
  /\ {activated, busy, done} \subseteq BOOLEAN
  /\ writer \in [Writer -> {"run"} \cup DmaPlaces \cup IntPlaces]
  /\ data \in [Writer -> Data \cup {Nothing}]
  /\ \A w \in Writer : writer[w] # "run" => data[w] \in Data

\* Whoever opens with these flags can send with serial_tx.
Sends(flags) ==
  /\ "DMA_TX" \in flags => serial_tx = "tx_dma"
  /\ "INT_TX" \in flags => serial_tx = "tx_fifo"

\* What the device points to is of the kind it is opened for, and allocated but
\* between the free and the store of a close.
PointsRight ==
  /\ ByDma => open_flag \subseteq {"INT_RX", "DMA_TX"}
  /\ ~ByDma => open_flag \subseteq {"INT_TX"}
  /\ serial_rx \in {"NULL", "rx_fifo"} /\ serial_tx \in {"NULL", "tx_dma", "tx_fifo"}
  /\ ByDma => serial_tx # "tx_fifo"
  /\ ~ByDma => serial_tx # "tx_dma" /\ serial_rx = "NULL"
  /\ ref_count # 0 => Sends(open_flag)
  /\ serial_rx \in heap \cup {"NULL"} \/ \E u \in User : user[u] = "clear_rx"
  /\ serial_tx \in heap \cup {"NULL"} \/ \E u \in User : user[u] = "clear_tx"
  /\ \A w \in Writer :
       /\ writer[w] \in DmaPlaces => serial_tx = "tx_dma"
       /\ writer[w] \in IntPlaces => serial_tx = "tx_fifo"

\* Without an open nobody sends, as without a structure.
NobodySends ==
  ref_count = 0 \/ serial_tx = "NULL" =>
    dma = Nothing /\ \A w \in Writer : writer[w] = "run"

\* A test of open holds when the pointer is stored.
UsersRight ==
  \A u \in User :
    /\ user[u] \in Opening => oflag[u] \in modes /\ open_flag = oflag[u]
    /\ user[u] = "store_rx" => serial_rx = "NULL"
    /\ user[u] = "store_tx" => serial_tx = "NULL"
    /\ user[u] = "count" => Sends(oflag[u])
    /\ user[u] \in Closing => ref_count = 0

\* TransferGoesOn, without counting.
OneTransfer ==
  /\ \A u, v \in Writer : writer[u] = "transmit" /\ writer[v] = "transmit" => u = v
  /\ \A u \in Writer : writer[u] = "transmit" => dma = Nothing
  /\ activated = (dma # Nothing \/ \E w \in Writer : writer[w] = "transmit")
  /\ data_queue # << >> => activated \/ \E w \in Writer : writer[w] = "pushed"

\* One thread at a time sends by interrupt, and waits for one that comes.
OneByInterrupt ==
  /\ \A u, v \in Writer : writer[u] \in IntPlaces /\ writer[v] \in IntPlaces => u = v
  /\ \A w \in Writer : writer[w] \in {"wait", "asleep"} => busy \/ done

SerialInv == /\ SerialTypes /\ PointsRight /\ NobodySends /\ UsersRight
             /\ OneTransfer /\ OneByInterrupt

LEMMA SerialInvImplies == SerialInv => SendingIsConsistent
<1> SUFFICES ASSUME SerialInv PROVE SendingIsConsistent
  OBVIOUS
<1> DEFINE T == {w \in Writer : writer[w] = "transmit"}
<1>1. Cardinality(T) + (IF dma # Nothing THEN 1 ELSE 0) <= 1
  <2>1. CASE T = {}
    BY <2>1, FS_EmptySet
  <2>2. CASE T # {}
    <3>1. PICK u \in T : T = {u}
      BY <2>2 DEF SerialInv, OneTransfer
    <3>2. dma = Nothing
      BY <3>1 DEF SerialInv, OneTransfer
    <3>3. Cardinality(T) = 1
      BY <3>1, FS_Singleton
    <3> QED BY <3>2, <3>3
  <2> QED BY <2>1, <2>2
<1>2. StructureInUse
  <2>1. ASSUME ref_count > 0 PROVE {serial_rx, serial_tx} \ {"NULL"} \subseteq heap
    <3>1. \A u \in User : user[u] # "clear_rx" /\ user[u] # "clear_tx"
      BY <2>1 DEF SerialInv, UsersRight, Closing
    <3> QED BY <3>1 DEF SerialInv, PointsRight
  <2> QED BY <2>1 DEF StructureInUse, SerialInv, PointsRight, DmaPlaces, IntPlaces
<1> QED BY <1>1, <1>2 DEF SerialInv, OneTransfer, OneByInterrupt,
                    SendingIsConsistent, TransferGoesOn, WriterNotStranded

(* A step of open or close, and a byte that comes in, leaves the writers     *)
(* alone; a new structure is stored when there is none.                      *)
UserStep(u) ==
  \/ \E mode \in modes : SerialOpen(u, mode)
  \/ StoreRx(u) \/ TestTx(u) \/ StoreTx(u) \/ CountOpen(u)
  \/ SerialClose(u) \/ FreeRx(u) \/ ClearRx(u) \/ FreeTx(u) \/ ClearTx(u)
  \/ SerialClosed(u)

LEMMA UserKeepsSending ==
  ASSUME SerialInv, NEW u \in User, UserStep(u)
  PROVE  /\ OneTransfer' /\ OneByInterrupt'
         /\ UNCHANGED <<modes, dma, busy, writer, data>> /\ ByDma' = ByDma
         /\ data_queue' \in Seq(Data) /\ {activated', done'} \subseteq BOOLEAN
<1>1. UNCHANGED <<modes, dma, busy, writer, data>> /\ ByDma' = ByDma
  BY DEF UserStep, SerialOpen, StoreRx, TestTx, StoreTx, CountOpen, SerialClose,
         FreeRx, FreeTx, FreeOf, ClearRx, ClearTx, SerialClosed, sendvars, ByDma
<1>2. CASE StoreTx(u)
  <2>1. /\ activated' = FALSE /\ done' = FALSE /\ data_queue' = << >>
        /\ dma = Nothing /\ \A w \in Writer : writer[w] = "run"
    BY <1>2 DEF StoreTx, SerialInv, UsersRight, NobodySends
  <2>2. << >> \in Seq(Data)
    OBVIOUS
  <2> QED BY <1>1, <2>1, <2>2 DEF OneTransfer, OneByInterrupt, IntPlaces
<1>3. CASE ~StoreTx(u)
  <2>1. UNCHANGED sendvars
    BY <1>3 DEF UserStep, SerialOpen, StoreRx, TestTx, CountOpen, SerialClose, FreeRx,
                FreeTx, FreeOf, ClearRx, ClearTx, SerialClosed
  <2> QED BY <1>1, <2>1 DEF sendvars, SerialInv, SerialTypes, OneTransfer, OneByInterrupt
<1> QED BY <1>2, <1>3

(* The places of the only user after his step. *)
LEMMA UserGoesTo ==
  ASSUME OneUser, SerialInv, NEW u \in User, NEW place \in UserPlace, UserGoes(u, place)
  PROVE  /\ user' \in [User -> UserPlace] /\ user'[u] = place
         /\ \A v \in User : v = u
BY DEF OneUser, SerialInv, SerialTypes, UserGoes

LEMMA SerialOpenKeepsInv ==
  ASSUME ModesFit, OneUser, ~LateTx, SerialInv, NEW u \in User,
         \/ \E mode \in modes : SerialOpen(u, mode)
         \/ StoreRx(u) \/ TestTx(u) \/ StoreTx(u) \/ CountOpen(u)
  PROVE  SerialInv'
<1>1. /\ OneTransfer' /\ OneByInterrupt'
      /\ UNCHANGED <<modes, dma, busy, writer, data>> /\ ByDma' = ByDma
      /\ data_queue' \in Seq(Data) /\ {activated', done'} \subseteq BOOLEAN
  BY UserKeepsSending DEF UserStep
<1>2. SerialTypes /\ PointsRight /\ NobodySends /\ UsersRight
  BY DEF SerialInv
<1>3. \A m \in modes :
        /\ ByDma => m \subseteq {"INT_RX", "DMA_TX"}
        /\ ~ByDma => m \subseteq {"INT_TX"}
  BY <1>2 DEF ModesFit, SerialTypes, ByDma
<1>4. {"run"} \cup Opening \cup Closing = UserPlace /\ "run" \notin Opening \cup Closing
      /\ Opening \cap Closing = {}
  BY DEF UserPlace, Opening, Closing
<1>5. ASSUME NEW mode \in modes, SerialOpen(u, mode) PROVE SerialInv'
  <2>1. /\ user[u] = "run" /\ open_flag' = mode /\ oflag' = [oflag EXCEPT ![u] = mode]
        /\ ref_count = 0 \/ serial_tx # "NULL" \/ TxKind(mode) = "NULL"
        /\ UNCHANGED <<ref_count, serial_rx, serial_tx, heap>>
    BY <1>5 DEF SerialOpen
  <2>2. PICK place \in {"store_rx", "test_tx"} :
          UserGoes(u, place) /\ (place = "store_rx" => serial_rx = "NULL")
    BY <1>5 DEF SerialOpen
  <2>3. user' \in [User -> UserPlace] /\ user'[u] = place /\ \A v \in User : v = u
    BY <2>2, UserGoesTo DEF UserPlace
  <2>4. SerialTypes'
    BY <1>1, <1>2, <2>1, <2>3 DEF SerialTypes
  <2>5. ref_count # 0 => Sends(mode)
    <3>1. /\ ByDma => mode \subseteq {"INT_RX", "DMA_TX"} /\ serial_tx \in {"NULL", "tx_dma"}
          /\ ~ByDma => mode \subseteq {"INT_TX"} /\ serial_tx \in {"NULL", "tx_fifo"}
      BY <1>2, <1>3 DEF PointsRight
    <3>2. ByDma => ("DMA_TX" \in mode => TxKind(mode) # "NULL") /\ "INT_TX" \notin mode
      BY <3>1 DEF TxKind
    <3>3. ~ByDma => ("INT_TX" \in mode => TxKind(mode) # "NULL") /\ "DMA_TX" \notin mode
      BY <3>1 DEF TxKind
    <3> QED BY <2>1, <3>1, <3>2, <3>3 DEF Sends
  <2>6. PointsRight'
    <3>1. Sends(open_flag)' <=> Sends(mode)
      BY <2>1 DEF Sends
    <3>2. /\ serial_rx \in heap \cup {"NULL"} /\ serial_tx \in heap \cup {"NULL"}
      BY <1>2, <2>1, <2>3 DEF PointsRight
    <3>3. /\ ByDma' => open_flag' \subseteq {"INT_RX", "DMA_TX"}
          /\ ~ByDma' => open_flag' \subseteq {"INT_TX"}
      BY <1>1, <1>3, <2>1
    <3>4. ref_count' # 0 => Sends(open_flag)'
      BY <2>1, <2>5, <3>1
    <3>5. UNCHANGED <<serial_rx, serial_tx, heap, writer>> /\ ByDma' = ByDma
      BY <1>1, <2>1
    <3> QED BY <1>2, <3>2, <3>3, <3>4, <3>5 DEF PointsRight
  <2>7. NobodySends'
    BY <1>1, <1>2, <2>1 DEF NobodySends
  <2>8. UsersRight'
    BY <1>1, <1>2, <2>1, <2>2, <2>3 DEF UsersRight, SerialTypes, Opening, Closing
  <2> QED BY <1>1, <2>4, <2>6, <2>7, <2>8 DEF SerialInv
<1>6. CASE StoreRx(u)
  <2>1. /\ user[u] = "store_rx" /\ UserGoes(u, "test_tx")
        /\ serial_rx' = RxKind(oflag[u]) /\ heap' = heap \cup ({serial_rx'} \ {"NULL"})
        /\ UNCHANGED <<ref_count, open_flag, serial_tx, oflag>>
    BY <1>6 DEF StoreRx
  <2>2. user' \in [User -> UserPlace] /\ user'[u] = "test_tx" /\ \A v \in User : v = u
    BY <2>1, UserGoesTo DEF UserPlace
  <2>3. SerialTypes'
    BY <1>1, <1>2, <2>1, <2>2 DEF SerialTypes
  <2>4. oflag[u] \in modes /\ open_flag = oflag[u]
    BY <1>2, <2>1 DEF UsersRight, Opening
  <2>5. /\ serial_rx' \in {"NULL", "rx_fifo"} /\ serial_rx' \in heap' \cup {"NULL"}
        /\ ~ByDma => serial_rx' = "NULL"
        /\ serial_tx \in heap' \cup {"NULL"}
    BY <1>2, <1>3, <2>1, <2>2, <2>4 DEF RxKind, PointsRight
  <2>6. PointsRight'
    BY <1>1, <1>2, <2>1, <2>5 DEF PointsRight, Sends
  <2>7. NobodySends'
    BY <1>1, <1>2, <2>1 DEF NobodySends
  <2>8. UsersRight'
    BY <1>1, <2>1, <2>2, <2>4 DEF UsersRight, Opening, Closing
  <2> QED BY <1>1, <2>3, <2>6, <2>7, <2>8 DEF SerialInv
<1>7. CASE TestTx(u)
  <2>1. /\ user[u] = "test_tx"
        /\ UNCHANGED <<ref_count, open_flag, serial_rx, serial_tx, heap, oflag>>
    BY <1>7 DEF TestTx
  <2>2. PICK place \in {"store_tx", "count"} :
          /\ UserGoes(u, place)
          /\ place = IF serial_tx = "NULL" THEN "store_tx" ELSE "count"
    BY <1>7 DEF TestTx
  <2>3. user' \in [User -> UserPlace] /\ user'[u] = place /\ \A v \in User : v = u
    BY <2>2, UserGoesTo DEF UserPlace
  <2>4. SerialTypes'
    BY <1>1, <1>2, <2>1, <2>3 DEF SerialTypes
  <2>5. oflag[u] \in modes /\ open_flag = oflag[u]
    BY <1>2, <2>1 DEF UsersRight, Opening
  <2>6. PointsRight'
    <3>1. serial_rx \in heap \cup {"NULL"} /\ serial_tx \in heap \cup {"NULL"}
      BY <1>2, <2>1, <2>3 DEF PointsRight
    <3> QED BY <1>1, <1>2, <2>1, <3>1 DEF PointsRight, Sends
  <2>7. NobodySends'
    BY <1>1, <1>2, <2>1 DEF NobodySends
  <2>8. serial_tx # "NULL" => Sends(oflag[u])
    BY <1>2, <1>3, <2>5 DEF Sends, PointsRight
  <2>9. UsersRight'
    BY <1>1, <2>1, <2>2, <2>3, <2>5, <2>8 DEF UsersRight, Opening, Closing, Sends
  <2> QED BY <1>1, <2>4, <2>6, <2>7, <2>9 DEF SerialInv
<1>8. CASE StoreTx(u)
  <2>1. /\ user[u] = "store_tx" /\ UserGoes(u, "count")
        /\ serial_tx' = TxKind(oflag[u]) /\ heap' = heap \cup ({serial_tx'} \ {"NULL"})
        /\ UNCHANGED <<ref_count, open_flag, serial_rx, oflag>>
    BY <1>8 DEF StoreTx
  <2>2. user' \in [User -> UserPlace] /\ user'[u] = "count" /\ \A v \in User : v = u
    BY <2>1, UserGoesTo DEF UserPlace
  <2>3. SerialTypes'
    BY <1>1, <1>2, <2>1, <2>2 DEF SerialTypes
  <2>4. oflag[u] \in modes /\ open_flag = oflag[u] /\ serial_tx = "NULL"
    BY <1>2, <2>1 DEF UsersRight, Opening
  <2>5. /\ serial_tx' \in {"NULL", "tx_dma", "tx_fifo"} /\ serial_tx' \in heap' \cup {"NULL"}
        /\ ByDma => serial_tx' # "tx_fifo"
        /\ ~ByDma => serial_tx' # "tx_dma"
        /\ serial_rx \in heap' \cup {"NULL"}
        /\ Sends(oflag[u])'
    BY <1>2, <1>3, <2>1, <2>2, <2>4 DEF TxKind, PointsRight, Sends
  <2>6. dma = Nothing /\ \A w \in Writer : writer[w] = "run"
    BY <1>2, <2>4 DEF NobodySends
  <2>7. PointsRight'
    <3>1. Sends(open_flag)'
      BY <2>1, <2>4, <2>5 DEF Sends
    <3> QED BY <1>1, <1>2, <2>1, <2>5, <2>6, <3>1 DEF PointsRight, DmaPlaces, IntPlaces
  <2>8. NobodySends'
    BY <1>1, <2>6 DEF NobodySends
  <2>9. UsersRight'
    BY <1>1, <2>1, <2>2, <2>4, <2>5 DEF UsersRight, Opening, Closing
  <2> QED BY <1>1, <2>3, <2>7, <2>8, <2>9 DEF SerialInv
<1>9. CASE CountOpen(u)
  <2>1. /\ user[u] = "count" /\ UserGoes(u, "run") /\ oflag' = [oflag EXCEPT ![u] = {}]
        /\ open_flag' = oflag[u] /\ ref_count' = ref_count + 1
        /\ UNCHANGED <<serial_rx, serial_tx, heap>>
    BY <1>9 DEF CountOpen
  <2>2. user' \in [User -> UserPlace] /\ user'[u] = "run" /\ \A v \in User : v = u
    BY <2>1, UserGoesTo DEF UserPlace
  <2>3. SerialTypes'
    <3>1. ref_count' \in Nat
      BY <1>2, <2>1 DEF SerialTypes
    <3>2. oflag' \in [User -> modes \cup {{}}]
      BY <1>2, <2>1 DEF SerialTypes
    <3> QED BY <1>1, <1>2, <2>2, <3>1, <3>2 DEF SerialTypes
  <2>4. oflag[u] \in modes /\ open_flag' = open_flag /\ Sends(oflag[u]) /\ ref_count \in Nat
    BY <1>2, <2>1 DEF UsersRight, Opening, SerialTypes
  <2>5. PointsRight'
    <3>1. serial_rx \in heap \cup {"NULL"} /\ serial_tx \in heap \cup {"NULL"}
      BY <1>2, <2>1, <2>2 DEF PointsRight
    <3>2. Sends(open_flag)'
      BY <2>1, <2>4 DEF Sends
    <3> QED BY <1>1, <1>2, <2>1, <2>4, <3>1, <3>2 DEF PointsRight
  <2>6. NobodySends'
    BY <1>1, <1>2, <2>1, <2>4 DEF NobodySends
  <2>7. UsersRight'
    BY <2>2 DEF UsersRight, Opening, Closing
  <2> QED BY <1>1, <2>3, <2>5, <2>6, <2>7 DEF SerialInv
<1> QED BY <1>5, <1>6, <1>7, <1>8, <1>9

LEMMA SerialCloseKeepsInv ==
  ASSUME ModesFit, OneUser, SerialInv, NEW u \in User,
         \/ SerialClose(u) \/ FreeRx(u) \/ ClearRx(u) \/ FreeTx(u) \/ ClearTx(u)
         \/ SerialClosed(u)
  PROVE  SerialInv'
<1>1. /\ OneTransfer' /\ OneByInterrupt'
      /\ UNCHANGED <<modes, dma, busy, writer, data>> /\ ByDma' = ByDma
      /\ data_queue' \in Seq(Data) /\ {activated', done'} \subseteq BOOLEAN
  BY UserKeepsSending DEF UserStep
<1>2. SerialTypes /\ PointsRight /\ NobodySends /\ UsersRight
  BY DEF SerialInv
<1>3. oflag' = oflag
  BY DEF SerialClose, FreeRx, FreeTx, FreeOf, ClearRx, ClearTx, SerialClosed
<1>4. CASE SerialClose(u)
  <2>1. /\ user[u] = "run" /\ ref_count > 0 /\ (ref_count = 1 => Quiet)
        /\ ref_count' = ref_count - 1
        /\ UNCHANGED <<open_flag, serial_rx, serial_tx, heap>>
    BY <1>4 DEF SerialClose
  <2>2. PICK place \in {"run", "free_rx"} :
          UserGoes(u, place) /\ (place = "free_rx" => ref_count = 1)
    BY <1>4 DEF SerialClose
  <2>3. user' \in [User -> UserPlace] /\ user'[u] = place /\ \A v \in User : v = u
    BY <2>2, UserGoesTo DEF UserPlace
  <2>4. SerialTypes'
    BY <1>1, <1>2, <1>3, <2>1, <2>3 DEF SerialTypes
  <2>5. PointsRight'
    <3>1. serial_rx \in heap \cup {"NULL"} /\ serial_tx \in heap \cup {"NULL"}
      BY <1>2, <2>1, <2>3 DEF PointsRight
    <3>2. Sends(open_flag) /\ (Sends(open_flag)' <=> Sends(open_flag))
      BY <1>2, <2>1 DEF PointsRight, Sends
    <3> QED BY <1>1, <1>2, <2>1, <3>1, <3>2 DEF PointsRight
  <2>6. NobodySends'
    <3>1. ref_count' = 0 => dma = Nothing /\ \A w \in Writer : writer[w] = "run"
      BY <1>2, <2>1 DEF Quiet, SerialTypes
    <3> QED BY <1>1, <1>2, <2>1, <3>1 DEF NobodySends
  <2>7. UsersRight'
    BY <2>1, <2>2, <2>3 DEF UsersRight, Opening, Closing
  <2> QED BY <1>1, <2>4, <2>5, <2>6, <2>7 DEF SerialInv
<1>5. ASSUME user[u] \in Closing, NEW place \in Closing \cup {"run"}, UserGoes(u, place),
             ref_count' = ref_count, open_flag' \subseteq open_flag,
             serial_rx' \in {serial_rx, "NULL"}, serial_tx' \in {serial_tx, "NULL"},
             serial_rx' \in heap' \cup {"NULL"} \/ place = "clear_rx",
             serial_tx' \in heap' \cup {"NULL"} \/ place = "clear_tx"
      PROVE  SerialInv'
  <2>1. user' \in [User -> UserPlace] /\ user'[u] = place /\ \A v \in User : v = u
    BY <1>5, UserGoesTo DEF UserPlace, Closing
  <2>2. ref_count = 0 /\ dma = Nothing /\ \A w \in Writer : writer[w] = "run"
    BY <1>2, <1>5 DEF UsersRight, NobodySends
  <2>3. SerialTypes'
    BY <1>1, <1>2, <1>3, <1>5, <2>1 DEF SerialTypes
  <2>4. PointsRight'
    <3>1. /\ ByDma => open_flag' \subseteq {"INT_RX", "DMA_TX"}
          /\ ~ByDma => open_flag' \subseteq {"INT_TX"}
          /\ serial_rx' \in {"NULL", "rx_fifo"} /\ serial_tx' \in {"NULL", "tx_dma", "tx_fifo"}
          /\ ByDma => serial_tx' # "tx_fifo"
          /\ ~ByDma => serial_tx' # "tx_dma" /\ serial_rx' = "NULL"
      BY <1>2, <1>5 DEF PointsRight
    <3> QED BY <1>1, <1>5, <2>1, <2>2, <3>1 DEF PointsRight, DmaPlaces, IntPlaces
  <2>5. NobodySends'
    BY <1>1, <2>2 DEF NobodySends
  <2>6. UsersRight'
    BY <1>5, <2>1, <2>2 DEF UsersRight, Opening, Closing
  <2> QED BY <1>1, <2>3, <2>4, <2>5, <2>6 DEF SerialInv
<1>6. /\ \A v \in User : v = u
      /\ ByDma => open_flag \subseteq {"INT_RX", "DMA_TX"}
      /\ ~ByDma => open_flag \subseteq {"INT_TX"} /\ serial_rx = "NULL"
      /\ serial_rx # serial_tx \/ serial_rx = "NULL"
      /\ serial_rx \in heap \cup {"NULL"} \/ user[u] = "clear_rx"
      /\ serial_tx \in heap \cup {"NULL"} \/ user[u] = "clear_tx"
  BY <1>2 DEF OneUser, PointsRight
<1>7. CASE FreeRx(u)
  <2>1. /\ user[u] = "free_rx"
        /\ UNCHANGED <<ref_count, open_flag, serial_rx, serial_tx>>
    BY <1>7 DEF FreeRx, FreeOf
  <2>2. \/ UserGoes(u, "free_tx") /\ heap' = heap
        \/ UserGoes(u, "clear_rx") /\ heap' = heap \ {serial_rx}
    BY <1>6, <1>7 DEF FreeRx, FreeOf
  <2>3. serial_tx' \in heap' \cup {"NULL"}
    BY <1>6, <2>1, <2>2
  <2> QED BY <1>5, <1>6, <2>1, <2>2, <2>3 DEF Closing
<1>8. CASE FreeTx(u)
  <2>1. /\ user[u] = "free_tx"
        /\ UNCHANGED <<ref_count, open_flag, serial_rx, serial_tx>>
    BY <1>8 DEF FreeTx, FreeOf
  <2>2. \/ UserGoes(u, "closed") /\ heap' = heap
        \/ /\ UserGoes(u, "clear_tx")
           /\ \/ heap' = heap \ {serial_rx} /\ serial_rx = "NULL"
              \/ heap' = heap \ {serial_tx}
    BY <1>6, <1>8 DEF FreeTx, FreeOf
  <2>3. serial_rx' \in heap' \cup {"NULL"}
    BY <1>6, <2>1, <2>2
  <2> QED BY <1>5, <1>6, <2>1, <2>2, <2>3 DEF Closing
<1>9. CASE ClearRx(u)
  <2>1. /\ user[u] = "clear_rx" /\ UserGoes(u, "free_tx")
        /\ serial_rx' = "NULL" /\ open_flag' \subseteq open_flag
        /\ UNCHANGED <<ref_count, serial_tx, heap>>
    BY <1>9 DEF ClearRx
  <2> QED BY <1>5, <1>6, <2>1 DEF Closing
<1>10. CASE ClearTx(u)
  <2>1. /\ user[u] = "clear_tx" /\ UserGoes(u, "closed")
        /\ serial_tx' = "NULL" /\ open_flag' \subseteq open_flag
        /\ UNCHANGED <<ref_count, serial_rx, heap>>
    BY <1>10 DEF ClearTx
  <2> QED BY <1>5, <1>6, <2>1 DEF Closing
<1>11. CASE SerialClosed(u)
  <2>1. /\ user[u] = "closed" /\ UserGoes(u, "run") /\ open_flag' = {}
        /\ UNCHANGED <<ref_count, serial_rx, serial_tx, heap>>
    BY <1>11 DEF SerialClosed
  <2> QED BY <1>5, <1>6, <2>1 DEF Closing
<1> QED BY <1>4, <1>7, <1>8, <1>9, <1>10, <1>11

LEMMA RxIndKeepsInv ==
  ASSUME SerialInv, RxInd
  PROVE  SerialInv'
BY DEF RxInd, sendvars, SerialInv, SerialTypes, PointsRight, NobodySends, UsersRight,
       OneTransfer, OneByInterrupt, ByDma, Sends

(* A step that is not of open or close. *)
LEMMA SendingKeepsPointers ==
  ASSUME SerialInv, UNCHANGED openvars,
         \A w \in Writer : \/ writer'[w] = writer[w] \/ writer'[w] = "run"
                           \/ /\ ref_count # 0
                              /\ \/ writer'[w] \in DmaPlaces /\ serial_tx = "tx_dma"
                                 \/ writer'[w] \in IntPlaces /\ serial_tx = "tx_fifo",
         dma' # Nothing => dma # Nothing \/ \E w \in Writer : writer[w] = "transmit"
  PROVE  PointsRight' /\ NobodySends' /\ UsersRight'
<1>1. /\ UNCHANGED <<modes, ref_count, open_flag, serial_rx, serial_tx, heap, user, oflag>>
      /\ ByDma' = ByDma /\ \A flags : Sends(flags)' <=> Sends(flags)
  BY DEF openvars, ByDma, Sends
<1>2. DmaPlaces \cap IntPlaces = {} /\ "run" \notin DmaPlaces \cup IntPlaces
  BY DEF DmaPlaces, IntPlaces
<1>3. PointsRight'
  <2>1. \A w \in Writer : /\ writer'[w] \in DmaPlaces => serial_tx = "tx_dma"
                          /\ writer'[w] \in IntPlaces => serial_tx = "tx_fifo"
    BY <1>2 DEF SerialInv, PointsRight
  <2>2. Sends(open_flag)' <=> Sends(open_flag)
    BY <1>1 DEF Sends
  <2> QED BY <1>1, <2>1, <2>2 DEF SerialInv, PointsRight
<1>4. NobodySends'
  <2>1. ASSUME ref_count = 0 \/ serial_tx = "NULL"
        PROVE  dma' = Nothing /\ \A w \in Writer : writer'[w] = "run"
    BY <2>1 DEF SerialInv, NobodySends
  <2> QED BY <1>1, <2>1 DEF NobodySends
<1>5. UsersRight'
  BY <1>1 DEF SerialInv, UsersRight, Sends
<1> QED BY <1>3, <1>4, <1>5

(* A writer's steps. *)
LEMMA WriterKeepsInv ==
  ASSUME SerialInv, NEW w \in Writer,
         (\E d \in Data : Write(w, d)) \/ WriterStep(w)
  PROVE  SerialInv'
<1>1. UNCHANGED openvars /\ UNCHANGED <<modes, ref_count, user, oflag>>
  BY DEF Write, WriterStep, Push, Activate, Transmit, Putc, Wait, WaitReturn, openvars
<1>2. /\ SerialTypes /\ PointsRight /\ NobodySends /\ UsersRight
      /\ OneTransfer /\ OneByInterrupt
  BY DEF SerialInv
<1>3. ASSUME NEW place \in {"run"} \cup DmaPlaces \cup IntPlaces, WriterGoes(w, place)
      PROVE  /\ writer' \in [Writer -> {"run"} \cup DmaPlaces \cup IntPlaces]
             /\ \A u \in Writer : writer'[u] = IF u = w THEN place ELSE writer[u]
  BY <1>2, <1>3 DEF WriterGoes, SerialTypes
<1>4. /\ {"run", "push", "pushed", "transmit", "putc", "wait", "asleep"}
           \subseteq {"run"} \cup DmaPlaces \cup IntPlaces
      /\ \A x \in DmaPlaces : x \notin IntPlaces /\ x # "run"
      /\ "run" \notin IntPlaces
      /\ \A x \in IntPlaces : x # "transmit" /\ x # "pushed"
  BY DEF DmaPlaces, IntPlaces
<1>5. ASSUME NEW d \in Data, Write(w, d) PROVE SerialInv'
  <2>1. PICK place \in {"push", "putc"} :
          /\ WriterGoes(w, place) /\ writer[w] = "run" /\ ref_count # 0
          /\ place = "push" => serial_tx = "tx_dma"
          /\ place = "putc" => serial_tx = "tx_fifo" /\ \A u \in Writer : writer[u] = "run"
          /\ data' = [data EXCEPT ![w] = d]
          /\ UNCHANGED <<data_queue, activated, dma, busy, done>>
    BY <1>2, <1>5 DEF Write, PointsRight, Sends, SerialTypes
  <2>2. /\ writer' \in [Writer -> {"run"} \cup DmaPlaces \cup IntPlaces]
        /\ \A u \in Writer : writer'[u] = IF u = w THEN place ELSE writer[u]
    BY <1>3, <1>4, <2>1
  <2>3. SerialTypes'
    BY <1>1, <1>2, <2>1, <2>2 DEF SerialTypes
  <2>4. PointsRight' /\ NobodySends' /\ UsersRight'
    BY <1>1, <2>1, <2>2, SendingKeepsPointers DEF DmaPlaces, IntPlaces
  <2>5. OneTransfer'
    BY <1>2, <2>1, <2>2 DEF OneTransfer
  <2>6. OneByInterrupt'
    BY <1>2, <1>4, <2>1, <2>2 DEF OneByInterrupt, DmaPlaces
  <2> QED BY <2>3, <2>4, <2>5, <2>6 DEF SerialInv
<1>6. CASE Push(w)
  <2>1. /\ writer[w] = "push" /\ data[w] \in Data /\ ref_count # 0 /\ serial_tx = "tx_dma"
        /\ data_queue' = Append(data_queue, data[w]) /\ WriterGoes(w, "pushed")
        /\ UNCHANGED <<activated, dma, busy, done, data>>
    BY <1>2, <1>6 DEF Push, SerialTypes, PointsRight, NobodySends, DmaPlaces
  <2>2. /\ writer' \in [Writer -> {"run"} \cup DmaPlaces \cup IntPlaces]
        /\ \A u \in Writer : writer'[u] = IF u = w THEN "pushed" ELSE writer[u]
    BY <1>3, <1>4, <2>1
  <2>3. SerialTypes'
    BY <1>1, <1>2, <2>1, <2>2 DEF SerialTypes
  <2>4. PointsRight' /\ NobodySends' /\ UsersRight'
    BY <1>1, <2>1, <2>2, SendingKeepsPointers DEF DmaPlaces
  <2>5. OneTransfer'
    BY <1>2, <2>1, <2>2 DEF OneTransfer
  <2>6. OneByInterrupt'
    BY <1>2, <1>4, <2>1, <2>2 DEF OneByInterrupt, IntPlaces
  <2> QED BY <2>3, <2>4, <2>5, <2>6 DEF SerialInv
<1>7. CASE Activate(w)
  <2>1. /\ writer[w] = "pushed" /\ data[w] \in Data /\ ref_count # 0 /\ serial_tx = "tx_dma"
        /\ UNCHANGED <<data_queue, dma, busy, done>>
        /\ activated \in BOOLEAN
    BY <1>2, <1>7 DEF Activate, SerialTypes, PointsRight, NobodySends, DmaPlaces
  <2>2. CASE activated
    <3>1. /\ WriterGoes(w, "run") /\ activated' = activated
          /\ data' = [data EXCEPT ![w] = Nothing]
      BY <1>7, <2>2 DEF Activate
    <3>2. /\ writer' \in [Writer -> {"run"} \cup DmaPlaces \cup IntPlaces]
          /\ \A u \in Writer : writer'[u] = IF u = w THEN "run" ELSE writer[u]
      BY <1>3, <1>4, <3>1
    <3>3. SerialTypes'
      BY <1>1, <1>2, <2>1, <3>1, <3>2 DEF SerialTypes
    <3>4. PointsRight' /\ NobodySends' /\ UsersRight'
      BY <1>1, <2>1, <3>2, SendingKeepsPointers
    <3>5. OneTransfer'
      BY <1>2, <2>1, <2>2, <3>1, <3>2 DEF OneTransfer
    <3>6. OneByInterrupt'
      BY <1>2, <1>4, <2>1, <3>2 DEF OneByInterrupt
    <3> QED BY <3>3, <3>4, <3>5, <3>6 DEF SerialInv
  <2>3. CASE ~activated
    <3>1. WriterGoes(w, "transmit") /\ activated' = TRUE /\ data' = data
      BY <1>7, <2>3 DEF Activate
    <3>2. /\ writer' \in [Writer -> {"run"} \cup DmaPlaces \cup IntPlaces]
          /\ \A u \in Writer : writer'[u] = IF u = w THEN "transmit" ELSE writer[u]
      BY <1>3, <1>4, <3>1
    <3>3. SerialTypes'
      BY <1>1, <1>2, <2>1, <3>1, <3>2 DEF SerialTypes
    <3>4. PointsRight' /\ NobodySends' /\ UsersRight'
      BY <1>1, <2>1, <3>2, SendingKeepsPointers DEF DmaPlaces
    <3>5. OneTransfer'
      BY <1>2, <2>1, <2>3, <3>1, <3>2 DEF OneTransfer
    <3>6. OneByInterrupt'
      BY <1>2, <1>4, <2>1, <3>2 DEF OneByInterrupt, IntPlaces
    <3> QED BY <3>3, <3>4, <3>5, <3>6 DEF SerialInv
  <2> QED BY <2>2, <2>3
<1>8. CASE Transmit(w)
  <2>1. /\ writer[w] = "transmit" /\ data[w] \in Data /\ ref_count # 0 /\ serial_tx = "tx_dma"
        /\ dma' = data[w] /\ dma' # Nothing
        /\ WriterGoes(w, "run") /\ data' = [data EXCEPT ![w] = Nothing]
        /\ UNCHANGED <<data_queue, activated, busy, done>>
    BY <1>2, <1>8, SerialType DEF Transmit, SerialTypes, PointsRight, NobodySends, DmaPlaces
  <2>2. /\ writer' \in [Writer -> {"run"} \cup DmaPlaces \cup IntPlaces]
        /\ \A u \in Writer : writer'[u] = IF u = w THEN "run" ELSE writer[u]
    BY <1>3, <1>4, <2>1
  <2>3. SerialTypes'
    BY <1>1, <1>2, <2>1, <2>2 DEF SerialTypes
  <2>4. PointsRight' /\ NobodySends' /\ UsersRight'
    BY <1>1, <2>1, <2>2, SendingKeepsPointers
  <2>5. OneTransfer'
    BY <1>2, <2>1, <2>2 DEF OneTransfer
  <2>6. OneByInterrupt'
    BY <1>2, <1>4, <2>1, <2>2 DEF OneByInterrupt
  <2> QED BY <2>3, <2>4, <2>5, <2>6 DEF SerialInv
<1>9. CASE Putc(w) \/ Wait(w) \/ WaitReturn(w)
  <2>1. /\ writer[w] \in IntPlaces /\ data[w] \in Data /\ ref_count # 0 /\ serial_tx = "tx_fifo"
        /\ UNCHANGED <<data_queue, activated, dma>>
        /\ \A u \in Writer \ {w} : writer[u] \notin IntPlaces
        /\ writer[w] \in {"wait", "asleep"} => busy \/ done
    BY <1>2, <1>9
    DEF Putc, Wait, WaitReturn, SerialTypes, PointsRight, NobodySends, IntPlaces,
        OneByInterrupt
  <2>2. PICK place \in {"run", "putc", "wait", "asleep"} :
          /\ WriterGoes(w, place)
          /\ place = "run" => data' = [data EXCEPT ![w] = Nothing]
          /\ place # "run" => data' = data
          /\ {busy', done'} \subseteq BOOLEAN
          /\ place \in {"wait", "asleep"} => busy' \/ done'
    <3>1. CASE Putc(w)
      <4>1. CASE busy
        BY <1>2, <3>1, <4>1 DEF Putc, SerialTypes
      <4>2. CASE ~busy
        BY <1>2, <3>1, <4>2 DEF Putc, SerialTypes
      <4> QED BY <4>1, <4>2
    <3>2. CASE Wait(w)
      <4>1. CASE done
        BY <1>2, <3>2, <4>1 DEF Wait, SerialTypes
      <4>2. CASE ~done
        BY <1>2, <2>1, <3>2, <4>2 DEF Wait, SerialTypes
      <4> QED BY <4>1, <4>2
    <3>3. CASE WaitReturn(w)
      BY <1>2, <3>3 DEF WaitReturn, SerialTypes
    <3> QED BY <1>9, <3>1, <3>2, <3>3
  <2>3. /\ writer' \in [Writer -> {"run"} \cup DmaPlaces \cup IntPlaces]
        /\ \A u \in Writer : writer'[u] = IF u = w THEN place ELSE writer[u]
    BY <1>3, <1>4, <2>2
  <2>4. SerialTypes'
    BY <1>1, <1>2, <2>1, <2>2, <2>3 DEF SerialTypes
  <2>5. PointsRight' /\ NobodySends' /\ UsersRight'
    BY <1>1, <2>1, <2>3, SendingKeepsPointers DEF IntPlaces
  <2>6. OneTransfer'
    BY <1>2, <1>4, <2>1, <2>3 DEF OneTransfer
  <2>7. OneByInterrupt'
    BY <1>2, <1>4, <2>1, <2>2, <2>3 DEF OneByInterrupt, IntPlaces
  <2> QED BY <2>4, <2>5, <2>6, <2>7 DEF SerialInv
<1> QED BY <1>5, <1>6, <1>7, <1>8, <1>9 DEF WriterStep

(* The handlers of the transmitter's interrupts. *)
LEMMA SerialIsrKeepsInv ==
  ASSUME SerialInv, TxDmaDone \/ TxDone
  PROVE  SerialInv'
<1>1. UNCHANGED openvars /\ UNCHANGED <<modes, ref_count, user, oflag, writer, data>>
  BY DEF TxDmaDone, TxDone, openvars
<1>2. /\ SerialTypes /\ PointsRight /\ NobodySends /\ UsersRight
      /\ OneTransfer /\ OneByInterrupt
  BY DEF SerialInv
<1>3. CASE TxDone
  <2>1. UNCHANGED <<data_queue, activated, dma>> /\ busy' = FALSE /\ done' = TRUE
    BY <1>3 DEF TxDone
  <2>2. PointsRight' /\ NobodySends' /\ UsersRight'
    BY <1>1, <2>1, SendingKeepsPointers
  <2> QED BY <1>1, <1>2, <2>1, <2>2 DEF SerialInv, SerialTypes, OneTransfer, OneByInterrupt
<1>4. CASE TxDmaDone
  <2>1. /\ dma # Nothing /\ data_queue' = Popped /\ UNCHANGED <<busy, done>>
        /\ Popped # << >> => activated' = TRUE /\ dma' = Head(Popped)
        /\ Popped = << >> => activated' = FALSE /\ dma' = Nothing
    BY <1>4 DEF TxDmaDone
  <2>2. Popped \in Seq(Data) /\ (Popped # << >> => Head(Popped) \in Data)
    BY <1>2 DEF Popped, SerialTypes
  <2>3. \A w \in Writer : writer[w] # "transmit"
    BY <1>2, <2>1 DEF OneTransfer
  <2>4. SerialTypes'
    BY <1>1, <1>2, <2>1, <2>2 DEF SerialTypes
  <2>5. PointsRight' /\ NobodySends' /\ UsersRight'
    BY <1>1, <2>1, SendingKeepsPointers
  <2>6. OneTransfer'
    BY <1>1, <2>1, <2>2, <2>3, SerialType DEF OneTransfer
  <2>7. OneByInterrupt'
    BY <1>1, <1>2, <2>1 DEF OneByInterrupt
  <2> QED BY <2>4, <2>5, <2>6, <2>7 DEF SerialInv
<1> QED BY <1>3, <1>4

(* While one user at a time opens the device once more or closes it, step    *)
(* by step, a writer finds the structure of its mode, no data is left in the *)
(* queue without a transfer or a writer that looks, there is one transfer at *)
(* a time and no writer sleeps through its completion (serial.c:146-396,     *)
(* device.c:175-262): for modes that fit, when only a first open brings a    *)
(* way to send.                                                              *)
THEOREM SerialSendingIsConsistent ==
  ASSUME ModesFit, OneUser, ~LateTx
  PROVE  SerialSpec => []SendingIsConsistent
<1>1. SerialInit => SerialInv
  <2> SUFFICES ASSUME SerialInit PROVE SerialInv
    OBVIOUS
  <2>1. \A w \in Writer : writer[w] = "run"
    BY DEF SerialInit
  <2>2. SerialTypes
    <3>1. << >> \in Seq(Data)
      OBVIOUS
    <3>2. activated \in BOOLEAN /\ busy \in BOOLEAN /\ done \in BOOLEAN
      BY DEF SerialInit
    <3>3. /\ writer \in [Writer -> {"run"} \cup DmaPlaces \cup IntPlaces]
          /\ data \in [Writer -> Data \cup {Nothing}]
      BY DEF SerialInit
    <3> QED BY <2>1, <3>1, <3>2, <3>3 DEF SerialInit, SerialTypes, UserPlace
  <2>3. PointsRight
    BY <2>1 DEF SerialInit, PointsRight, DmaPlaces, IntPlaces
  <2>4. OneTransfer
    BY <2>1 DEF SerialInit, OneTransfer
  <2>5. OneByInterrupt
    BY <2>1 DEF OneByInterrupt, IntPlaces
  <2>6. NobodySends /\ UsersRight
    BY <2>1 DEF SerialInit, NobodySends, UsersRight, Opening, Closing
  <2> QED BY <2>2, <2>3, <2>4, <2>5, <2>6 DEF SerialInv
<1>2. SerialInv /\ [SerialNext]_serialvars => SerialInv'
  <2> SUFFICES ASSUME SerialInv, [SerialNext]_serialvars PROVE SerialInv'
    OBVIOUS
  <2>1. CASE UNCHANGED serialvars
    BY <2>1 DEF serialvars, openvars, sendvars, SerialInv, SerialTypes, PointsRight,
                OneTransfer, OneByInterrupt, NobodySends,
                UsersRight, Sends, ByDma
  <2>2. CASE SerialNext
    BY <2>2, SerialOpenKeepsInv, SerialCloseKeepsInv, RxIndKeepsInv, WriterKeepsInv,
       SerialIsrKeepsInv
    DEF SerialNext, WriterStep
  <2> QED BY <2>1, <2>2
<1> QED BY <1>1, <1>2, SerialInvImplies, PTL DEF SerialSpec


-----------------------------------------------------------------------------
(* Mounting *)

\* Lowest is a member of the set it is taken of.
LEMMA LowestIsMember ==
  ASSUME NEW A, A \subseteq Nat, A # {}
  PROVE  Lowest(A) \in A
<1> DEFINE Less == {ss \in Nat \X Nat : ss[1] < ss[2]}
<1>1. IsWellFoundedOn(Less, Nat)
  BY NatLessThanWellFounded, Zenon DEF OpToRel
<1> HIDE DEF Less
<1>2. PICK p \in A : \A q \in A : ~(<<q, p>> \in Less)
  BY <1>1, WFMin
<1>3. ASSUME NEW q \in A
      PROVE  p <= q
  <2>1. p \in Nat /\ q \in Nat
    OBVIOUS
  <2>2. <<q, p>> \in Nat \X Nat /\ <<q, p>>[1] = q /\ <<q, p>>[2] = p
    BY <2>1
  <2>3. ~(q < p)
    BY <1>2, <2>2 DEF Less
  <2> QED BY <2>1, <2>3
<1> QED BY <1>3 DEF Lowest

MountPlaces == {"open", "mount", "save", "fat", "fail", "clear"}
FormatPlaces == {"mkfs", "assign", "format"}
OpenPlaces == {"mount", "save", "fat", "fail", "format"}

Fs(t) == mounting[t].fs
Dev(t) == mounting[t].dev
DevOf(s) == filesystem_table[s].dev_id
VolumeOf(s) == filesystem_table[s].data

\* A thread that mounts is about an entry without a volume yet.
ThreadsRight ==
  \A t \in Mounter :
    /\ MountAt(t, "run") => mounting[t] = NotMounting
    /\ ~MountAt(t, "run") => Dev(t) \in Device
    /\ mounting[t].at \in MountPlaces =>
         Fs(t) \in Mounted /\ DevOf(Fs(t)) = Dev(t) /\ VolumeOf(Fs(t)) = None
    /\ mounting[t].at \in FormatPlaces => Fs(t) = None
    /\ mounting[t].at \in {"save", "fat", "assign", "format"} =>
         mounting[t].index \in Volume

TableRight ==
  \A s \in Slot :
    /\ s \notin Mounted => filesystem_table[s] = Empty
    /\ s \in Mounted => DevOf(s) \in Device
    /\ s \in Mounted /\ VolumeOf(s) = None => \E t \in Mounter : Fs(t) = s

OneDevice ==
  /\ \A r, s \in Mounted : DevOf(r) = DevOf(s) => r = s
  /\ \A t, u \in Mounter : Dev(t) = Dev(u) /\ Dev(t) # None => t = u
  /\ \A t \in Mounter : mounting[t].at \in FormatPlaces =>
       \A s \in Mounted : DevOf(s) # Dev(t)

\* DevicesMatch, without counting.
HeldByMount(d) == \E s \in Mounted : DevOf(s) = d /\ VolumeOf(s) # None
HeldByThread(d) == \E t \in Mounter : Dev(t) = d /\ mounting[t].at \in OpenPlaces
Held(d) == HeldByMount(d) \/ HeldByThread(d)

RefsRight == \A d \in Device : dev_ref[d] = IF Held(d) THEN 1 ELSE 0

\* Who has a volume, and nobody else, has it for its device.
VolumesRight ==
  /\ \A s \in Mounted : VolumeOf(s) # None => disk[VolumeOf(s)] = DevOf(s)
  /\ \A t \in Mounter : mounting[t].at \in {"fat", "format"} =>
       disk[mounting[t].index] = Dev(t)
  /\ \A t \in Mounter : mounting[t].at \in {"save", "assign"} =>
       disk[mounting[t].index] = None
  /\ \A v \in Volume : disk[v] # None =>
       \/ \E s \in Mounted : VolumeOf(s) = v
       \/ \E t \in Mounter : mounting[t].at \in {"fat", "format"} /\ mounting[t].index = v
  /\ \A t, u \in Mounter :
       mounting[t].at \in {"save", "assign"} /\ mounting[u].at \in {"save", "assign"} => t = u

MountInv ==
  MountTypeOK /\ ThreadsRight /\ TableRight /\ OneDevice /\ RefsRight /\ VolumesRight

LEMMA MountFacts ==
  /\ Slot \subseteq Nat /\ Volume \subseteq Nat
  /\ None \notin Slot /\ None \notin Volume /\ None \notin Device /\ None \notin Path
BY DfsMountType DEF Slot, Volume

LEMMA MountInvImplies == MountInv => DevicesMatch /\ VolumesMatch
<1> SUFFICES ASSUME MountInv PROVE DevicesMatch /\ VolumesMatch
  OBVIOUS
<1>1. DevicesMatch
  <2> SUFFICES ASSUME NEW d \in Device
               PROVE  dev_ref[d] =
                        Cardinality({s \in Mounted : /\ filesystem_table[s].dev_id = d
                                                    /\ filesystem_table[s].data # None})
                        + Cardinality({t \in Mounter : /\ mounting[t].dev = d
                                                     /\ mounting[t].at \in OpenPlaces})
    BY DEF DevicesMatch, OpenPlaces
  <2> DEFINE A == {s \in Mounted : /\ filesystem_table[s].dev_id = d
                                   /\ filesystem_table[s].data # None}
             B == {t \in Mounter : /\ mounting[t].dev = d
                                   /\ mounting[t].at \in OpenPlaces}
  <2>1. /\ \A r, s \in A : r = s
        /\ \A t, u \in B : t = u
        /\ A = {} \/ B = {}
    BY MountFacts DEF MountInv, OneDevice, ThreadsRight, OpenPlaces, MountPlaces,
                      FormatPlaces, Dev, DevOf, VolumeOf, Fs
  <2>2. dev_ref[d] = IF A # {} \/ B # {} THEN 1 ELSE 0
    BY DEF MountInv, RefsRight, Held, HeldByMount, HeldByThread, Dev, DevOf, VolumeOf
  <2>3. Cardinality(A) = IF A = {} THEN 0 ELSE 1
    <3>1. CASE A = {}
      BY <3>1, FS_EmptySet
    <3>2. CASE A # {}
      <4>1. PICK s : A = {s}
        BY <2>1, <3>2
      <4> QED BY <4>1, FS_Singleton
    <3> QED BY <3>1, <3>2
  <2>4. Cardinality(B) = IF B = {} THEN 0 ELSE 1
    <3>1. CASE B = {}
      BY <3>1, FS_EmptySet
    <3>2. CASE B # {}
      <4>1. PICK t : B = {t}
        BY <2>1, <3>2
      <4> QED BY <4>1, FS_Singleton
    <3> QED BY <3>1, <3>2
  <2> HIDE DEF A, B
  <2>5. dev_ref[d] = Cardinality(A) + Cardinality(B)
    BY <2>1, <2>2, <2>3, <2>4
  <2> QED BY <2>5 DEF A, B
<1>2. VolumesMatch
  <2> SUFFICES ASSUME \A t \in Mounter : MountAt(t, "run"), NEW v \in Volume
               PROVE  {disk[v]} \ {None} = {filesystem_table[s].dev_id : s \in
                                             {r \in Mounted : filesystem_table[r].data = v}}
    BY DEF VolumesMatch
  <2> DEFINE A == {r \in Mounted : filesystem_table[r].data = v}
  <2>1. \A s \in A : filesystem_table[s].dev_id = disk[v] /\ disk[v] # None
    BY MountFacts DEF MountInv, VolumesRight, TableRight, VolumeOf, DevOf, Mounted
  <2>2. disk[v] # None => A # {}
    BY DEF MountInv, VolumesRight, VolumeOf, MountAt
  <2> QED BY <2>1, <2>2
<1> QED BY <1>1, <1>2

LEMMA MountInitInv == MountInit => MountInv
<1> SUFFICES ASSUME MountInit PROVE MountInv
  OBVIOUS
<1>1. /\ Mounted = {}
      /\ \A t \in Mounter : mounting[t] = NotMounting /\ mounting[t].at = "run"
                            /\ mounting[t].dev = None
  BY DEF MountInit, Mounted, NotMounting, Empty
<1>2. MountTypeOK
  BY DEF MountInit, MountTypeOK, NotMounting, Empty
<1>3. ThreadsRight
  BY <1>1 DEF ThreadsRight, MountPlaces, FormatPlaces, MountAt
<1>4. TableRight
  BY <1>1 DEF TableRight, MountInit
<1>5. OneDevice
  BY <1>1 DEF OneDevice, FormatPlaces, Dev
<1>6. RefsRight
  BY <1>1 DEF RefsRight, Held, HeldByMount, HeldByThread, OpenPlaces, MountInit
<1>7. VolumesRight
  BY <1>1 DEF VolumesRight, MountInit
<1> QED BY <1>2, <1>3, <1>4, <1>5, <1>6, <1>7 DEF MountInv

(* What a thread is at after a step of its own. *)
LEMMA MountGoesEffect ==
  ASSUME MountInv, NEW t \in Mounter, NEW m, mounting' = [mounting EXCEPT ![t] = m]
  PROVE  \A u \in Mounter : mounting'[u] = IF u = t THEN m ELSE mounting[u]
BY DEF MountInv, MountTypeOK

LEMMA MountGoesFields ==
  ASSUME MountInv, NEW t \in Mounter, NEW place, MountGoes(t, place)
  PROVE  /\ \A u \in Mounter \ {t} : mounting'[u] = mounting[u]
         /\ mounting'[t] = [at |-> place, fs |-> Fs(t), dev |-> Dev(t),
                            index |-> mounting[t].index]
BY DEF MountInv, MountTypeOK, MountGoes, Fs, Dev


\* A device is open for the thread that mounts or formats it, for no other.
LEMMA RefOfMounter ==
  ASSUME MountInv, NEW t \in Mounter, ~MountAt(t, "run")
  PROVE  /\ Dev(t) \in Device
         /\ ~HeldByMount(Dev(t)) /\ \A u \in Mounter \ {t} : Dev(u) # Dev(t)
         /\ dev_ref[Dev(t)] = IF mounting[t].at \in OpenPlaces THEN 1 ELSE 0
<1>1. Dev(t) \in Device /\ Dev(t) # None
  BY MountFacts DEF MountInv, ThreadsRight
<1>2. mounting[t].at \in MountPlaces \cup FormatPlaces
  BY DEF MountInv, MountTypeOK, MountAt, MountPlaces, FormatPlaces
<1>3. ~HeldByMount(Dev(t))
  BY <1>1, <1>2 DEF MountInv, ThreadsRight, OneDevice, HeldByMount
<1>4. \A u \in Mounter \ {t} : Dev(u) # Dev(t)
  BY <1>1 DEF MountInv, OneDevice
<1> QED BY <1>1, <1>3, <1>4 DEF MountInv, RefsRight, Held, HeldByThread

(* A thread goes on with its entry and its device, or with its device.      *)
LEMMA MoverKeeps ==
  ASSUME MountInv, NEW t \in Mounter, NEW q, NEW i \in Volume \cup {None},
         filesystem_table' = filesystem_table,
         \A u \in Mounter \ {t} : mounting'[u] = mounting[u],
         mounting'[t] = [at |-> q, fs |-> Fs(t), dev |-> Dev(t), index |-> i],
         \/ mounting[t].at \in MountPlaces /\ q \in MountPlaces
         \/ mounting[t].at \in FormatPlaces /\ q \in FormatPlaces,
         q \in {"save", "fat", "assign", "format"} => i \in Volume,
         dev_ref' = [dev_ref EXCEPT ![Dev(t)] = IF q \in OpenPlaces THEN 1 ELSE 0]
  PROVE  ThreadsRight' /\ TableRight' /\ OneDevice' /\ RefsRight'
<1>1. /\ ~MountAt(t, "run") /\ q # "run"
      /\ \A x \in MountPlaces : x \notin FormatPlaces
  BY DEF MountAt, MountPlaces, FormatPlaces
<1>2. /\ Mounted' = Mounted
      /\ \A s : DevOf(s)' = DevOf(s) /\ VolumeOf(s)' = VolumeOf(s)
      /\ \A u \in Mounter : Fs(u)' = Fs(u) /\ Dev(u)' = Dev(u)
      /\ mounting'[t].at = q /\ mounting'[t].index = i
  BY DEF Mounted, DevOf, VolumeOf, Fs, Dev
<1>3. ThreadsRight'
  <2> SUFFICES ASSUME NEW u \in Mounter
               PROVE  (/\ MountAt(u, "run") => mounting[u] = NotMounting
                       /\ ~MountAt(u, "run") => Dev(u) \in Device
                       /\ mounting[u].at \in MountPlaces =>
                            Fs(u) \in Mounted /\ DevOf(Fs(u)) = Dev(u) /\ VolumeOf(Fs(u)) = None
                       /\ mounting[u].at \in FormatPlaces => Fs(u) = None
                       /\ mounting[u].at \in {"save", "fat", "assign", "format"} =>
                            mounting[u].index \in Volume)'
    BY DEF ThreadsRight
  <2>1. CASE u = t
    BY <1>1, <1>2, <2>1 DEF MountInv, ThreadsRight, MountAt
  <2>2. CASE u # t
    BY <1>2, <2>2 DEF MountInv, ThreadsRight, MountAt
  <2> QED BY <2>1, <2>2
<1>4. TableRight'
  BY <1>2 DEF MountInv, TableRight
<1>5. OneDevice'
  BY <1>1, <1>2 DEF MountInv, OneDevice
<1>6. RefsRight'
  <2> SUFFICES ASSUME NEW d \in Device PROVE dev_ref'[d] = IF Held(d)' THEN 1 ELSE 0
    BY DEF RefsRight
  <2>1. /\ Dev(t) \in Device
        /\ ~HeldByMount(Dev(t)) /\ \A u \in Mounter \ {t} : Dev(u) # Dev(t)
    BY <1>1, RefOfMounter
  <2>2. HeldByMount(d)' = HeldByMount(d)
    BY <1>2 DEF HeldByMount
  <2>3. d # Dev(t) => HeldByThread(d)' = HeldByThread(d)
    BY <1>2 DEF HeldByThread
  <2>4. d = Dev(t) => (HeldByThread(d)' <=> q \in OpenPlaces)
    BY <1>2, <2>1 DEF HeldByThread
  <2>5. dev_ref'[d] = IF d = Dev(t) THEN (IF q \in OpenPlaces THEN 1 ELSE 0) ELSE dev_ref[d]
    BY DEF MountInv, MountTypeOK
  <2> QED BY <2>1, <2>2, <2>3, <2>4, <2>5 DEF MountInv, RefsRight, Held
<1> QED BY <1>3, <1>4, <1>5, <1>6

(* A thread ends its mount or format: with the entry of its own at most     *)
(* changed, to a mounted one or a free one.                                 *)
LEMMA LeaverKeeps ==
  ASSUME MountInv, NEW t \in Mounter, ~MountAt(t, "run"),
         mounting' = [mounting EXCEPT ![t] = NotMounting],
         \/ /\ filesystem_table' = filesystem_table
            /\ mounting[t].at \in FormatPlaces
            /\ dev_ref' = [dev_ref EXCEPT ![Dev(t)] = 0]
         \/ /\ mounting[t].at = "clear" /\ dev_ref' = dev_ref
            /\ filesystem_table' = [filesystem_table EXCEPT ![Fs(t)] = Empty]
         \/ /\ mounting[t].at \in MountPlaces \cap OpenPlaces /\ dev_ref' = dev_ref
            /\ \E v \in Volume : filesystem_table' = [filesystem_table EXCEPT ![Fs(t)].data = v]
  PROVE  ThreadsRight' /\ TableRight' /\ OneDevice' /\ RefsRight'
<1>1. /\ \A u \in Mounter \ {t} : mounting'[u] = mounting[u]
      /\ mounting'[t] = NotMounting
      /\ \A u \in Mounter \ {t} : Fs(u)' = Fs(u) /\ Dev(u)' = Dev(u)
      /\ Fs(t)' = None /\ Dev(t)' = None /\ mounting'[t].at = "run"
  BY DEF MountInv, MountTypeOK, Fs, Dev, NotMounting
<1>2. /\ Dev(t) \in Device
      /\ ~HeldByMount(Dev(t)) /\ \A u \in Mounter \ {t} : Dev(u) # Dev(t)
      /\ dev_ref[Dev(t)] = IF mounting[t].at \in OpenPlaces THEN 1 ELSE 0
  BY RefOfMounter
<1>3. /\ "run" \notin MountPlaces \cup FormatPlaces \cup OpenPlaces
      /\ "clear" \in MountPlaces /\ "clear" \notin OpenPlaces
      /\ \A x \in MountPlaces : x \notin FormatPlaces
  BY DEF MountPlaces, FormatPlaces, OpenPlaces
<1>4. \A u \in Mounter \ {t} :
        mounting[u].at \in MountPlaces => Fs(u) # Fs(t) \/ mounting[t].at \in FormatPlaces
  BY <1>2 DEF MountInv, ThreadsRight, OneDevice, MountTypeOK, MountAt, MountPlaces, FormatPlaces
<1>5. ASSUME \A s \in Slot : s # Fs(t) \/ mounting[t].at \in FormatPlaces =>
                               filesystem_table'[s] = filesystem_table[s],
             \A s \in Mounted' : s \in Mounted /\ DevOf(s)' = DevOf(s)
      PROVE  ThreadsRight' /\ OneDevice'
  <2>1. \A s \in Slot : s # Fs(t) \/ mounting[t].at \in FormatPlaces =>
             (s \in Mounted' <=> s \in Mounted) /\ DevOf(s)' = DevOf(s) /\ VolumeOf(s)' = VolumeOf(s)
    BY <1>5 DEF Mounted, DevOf, VolumeOf
  <2>2. ThreadsRight'
    <3> SUFFICES ASSUME NEW u \in Mounter
                 PROVE  (/\ MountAt(u, "run") => mounting[u] = NotMounting
                         /\ ~MountAt(u, "run") => Dev(u) \in Device
                         /\ mounting[u].at \in MountPlaces =>
                              Fs(u) \in Mounted /\ DevOf(Fs(u)) = Dev(u) /\ VolumeOf(Fs(u)) = None
                         /\ mounting[u].at \in FormatPlaces => Fs(u) = None
                         /\ mounting[u].at \in {"save", "fat", "assign", "format"} =>
                              mounting[u].index \in Volume)'
      BY DEF ThreadsRight
    <3>1. CASE u = t
      BY <1>1, <1>3, <3>1 DEF MountAt
    <3>2. CASE u # t
      <4>1. mounting[u].at \in MountPlaces => Fs(u) \in Slot
        BY DEF MountInv, ThreadsRight, Mounted
      <4> QED BY <1>1, <1>4, <2>1, <3>2, <4>1 DEF MountInv, ThreadsRight, MountAt
    <3> QED BY <3>1, <3>2
  <2>3. OneDevice'
    BY <1>1, <1>3, <1>5 DEF MountInv, OneDevice
  <2> QED BY <2>2, <2>3
<1>6. \A d : HeldByThread(d)' <=> HeldByThread(d) /\ d # Dev(t)
  BY <1>1, <1>2, <1>3 DEF HeldByThread
<1>7. CASE /\ filesystem_table' = filesystem_table
           /\ mounting[t].at \in FormatPlaces
           /\ dev_ref' = [dev_ref EXCEPT ![Dev(t)] = 0]
  <2>1. /\ Mounted' = Mounted
        /\ \A s : DevOf(s)' = DevOf(s) /\ VolumeOf(s)' = VolumeOf(s)
    BY <1>7 DEF Mounted, DevOf, VolumeOf
  <2>2. Fs(t) = None
    BY <1>7 DEF MountInv, ThreadsRight
  <2>3. TableRight'
    BY <1>1, <1>7, <2>1, <2>2, MountFacts DEF MountInv, TableRight
  <2>4. RefsRight'
    <3> SUFFICES ASSUME NEW d \in Device PROVE dev_ref'[d] = IF Held(d)' THEN 1 ELSE 0
      BY DEF RefsRight
    <3>1. HeldByMount(d)' = HeldByMount(d)
      BY <2>1 DEF HeldByMount
    <3>2. dev_ref'[d] = IF d = Dev(t) THEN 0 ELSE dev_ref[d]
      BY <1>7 DEF MountInv, MountTypeOK
    <3> QED BY <1>2, <1>6, <3>1, <3>2 DEF MountInv, RefsRight, Held
  <2> QED BY <1>5, <1>7, <2>1, <2>3, <2>4
<1>8. ASSUME mounting[t].at \in MountPlaces
      PROVE  /\ Fs(t) \in Slot /\ Fs(t) \in Mounted /\ DevOf(Fs(t)) = Dev(t)
             /\ VolumeOf(Fs(t)) = None /\ mounting[t].at \notin FormatPlaces
             /\ \A s \in Mounted : DevOf(s) = Dev(t) => s = Fs(t)
             /\ filesystem_table \in [Slot -> [path : Path \cup {None},
                                               dev_id : Device \cup {None},
                                               data : Volume \cup {None}]]
  BY <1>3, <1>8 DEF MountInv, ThreadsRight, OneDevice, MountTypeOK, Mounted
<1>9. CASE /\ mounting[t].at = "clear" /\ dev_ref' = dev_ref
           /\ filesystem_table' = [filesystem_table EXCEPT ![Fs(t)] = Empty]
  <2>1. /\ \A s \in Slot \ {Fs(t)} : filesystem_table'[s] = filesystem_table[s]
        /\ filesystem_table'[Fs(t)] = Empty
    BY <1>3, <1>8, <1>9
  <2>2. /\ Mounted' = Mounted \ {Fs(t)}
        /\ \A s \in Slot \ {Fs(t)} : DevOf(s)' = DevOf(s) /\ VolumeOf(s)' = VolumeOf(s)
    BY <1>3, <1>8, <1>9, <2>1 DEF Mounted, DevOf, VolumeOf, Empty
  <2>3. TableRight'
    BY <1>1, <2>1, <2>2 DEF MountInv, TableRight
  <2>4. RefsRight'
    <3> SUFFICES ASSUME NEW d \in Device PROVE dev_ref'[d] = IF Held(d)' THEN 1 ELSE 0
      BY DEF RefsRight
    <3>1. HeldByMount(d)' = HeldByMount(d)
      BY <1>3, <1>8, <1>9, <2>2 DEF HeldByMount, Mounted
    <3> QED BY <1>2, <1>3, <1>6, <1>9, <3>1 DEF MountInv, RefsRight, Held
  <2>5. \A s \in Mounted' : s \in Mounted /\ DevOf(s)' = DevOf(s)
    BY <2>2 DEF Mounted
  <2> QED BY <1>3, <1>5, <1>8, <1>9, <2>1, <2>3, <2>4, <2>5
<1>10. ASSUME mounting[t].at \in MountPlaces \cap OpenPlaces, dev_ref' = dev_ref,
              NEW v \in Volume, filesystem_table' = [filesystem_table EXCEPT ![Fs(t)].data = v]
       PROVE  ThreadsRight' /\ TableRight' /\ OneDevice' /\ RefsRight'
  <2> PICK f \in Slot : f = Fs(t)
    BY <1>8, <1>10
  <2>1. /\ \A s \in Slot \ {f} : filesystem_table'[s] = filesystem_table[s]
        /\ filesystem_table'[f] = [filesystem_table[f] EXCEPT !.data = v]
        /\ v # None
    BY <1>8, <1>10, MountFacts
  <2>2. /\ Mounted' = Mounted
        /\ \A s \in Slot : DevOf(s)' = DevOf(s)
        /\ \A s \in Slot \ {f} : VolumeOf(s)' = VolumeOf(s)
        /\ VolumeOf(f)' = v
    <3>1. /\ filesystem_table'[f].path = filesystem_table[f].path
          /\ filesystem_table'[f].dev_id = filesystem_table[f].dev_id
          /\ filesystem_table'[f].data = v
      BY <1>8, <1>10, <2>1
    <3>2. \A s \in Slot : /\ filesystem_table'[s].path = filesystem_table[s].path
                         /\ filesystem_table'[s].dev_id = filesystem_table[s].dev_id
      BY <2>1, <3>1
    <3>3. Mounted' = Mounted
      BY <3>2 DEF Mounted
    <3>4. \A s \in Slot : DevOf(s)' = DevOf(s)
      BY <3>2 DEF DevOf
    <3>5. \A s \in Slot \ {f} : VolumeOf(s)' = VolumeOf(s)
      BY <2>1 DEF VolumeOf
    <3>6. VolumeOf(f)' = v
      BY <3>1 DEF VolumeOf
    <3> QED BY <3>3, <3>4, <3>5, <3>6
  <2>3. TableRight'
    BY <1>1, <1>8, <1>10, <2>1, <2>2 DEF MountInv, TableRight
  <2>4. RefsRight'
    <3> SUFFICES ASSUME NEW d \in Device PROVE dev_ref'[d] = IF Held(d)' THEN 1 ELSE 0
      BY DEF RefsRight
    <3>1. HeldByMount(d)' <=> HeldByMount(d) \/ d = Dev(t)
      BY <1>8, <1>10, <2>1, <2>2 DEF HeldByMount, Mounted
    <3> QED BY <1>2, <1>6, <1>10, <3>1 DEF MountInv, RefsRight, Held
  <2>5. \A s \in Mounted' : s \in Mounted /\ DevOf(s)' = DevOf(s)
    BY <2>2 DEF Mounted
  <2> QED BY <1>3, <1>5, <1>8, <1>10, <2>1, <2>3, <2>4, <2>5
<1> QED BY <1>7, <1>9, <1>10

(* dfs_mount and dfs_mkfs begin. *)
LEMMA BeginKeepsInv ==
  ASSUME MountInv, NEW t \in Mounter, NEW d \in Device,
         \/ \E path \in Path : \E given : DfsMount(t, d, path, given)
         \/ DfsMkfs(t, d)
  PROVE  MountInv'
<1>1. /\ MountAt(t, "run") /\ ~InUse(d) /\ Dev(t) = None /\ Fs(t) = None
      /\ UNCHANGED <<disk, dev_ref, unmount_failed>>
      /\ \A s \in Mounted : DevOf(s) # d
      /\ \A u \in Mounter : Dev(u) # d
  <2>1. /\ MountAt(t, "run") /\ ~InUse(d)
        /\ UNCHANGED <<disk, dev_ref, unmount_failed>>
    BY DEF DfsMount, DfsMkfs
  <2>2. Dev(t) = None /\ Fs(t) = None
    BY <2>1 DEF MountInv, ThreadsRight, NotMounting, Dev, Fs
  <2> QED BY <2>1, <2>2 DEF InUse, DevOf, Dev
<1>2. PICK place \in {"open", "mkfs"}, fs \in Slot \cup {None} :
        /\ mounting' = [mounting EXCEPT ![t] = [at |-> place, fs |-> fs, dev |-> d,
                                                index |-> None]]
        /\ place = "mkfs" => fs = None /\ filesystem_table' = filesystem_table
        /\ place = "open" =>
             /\ fs \in Slot \ Mounted
             /\ \E path \in Path : filesystem_table' =
                  [filesystem_table EXCEPT ![fs] = [path |-> path, dev_id |-> d, data |-> None]]
  <2>1. CASE DfsMkfs(t, d)
    BY <2>1 DEF DfsMkfs, MountBegins
  <2>2. ASSUME NEW path \in Path, NEW given, DfsMount(t, d, path, given)
        PROVE  LET fs == Lowest(Slot \ Mounted)
               IN  /\ mounting' = [mounting EXCEPT ![t] = [at |-> "open", fs |-> fs, dev |-> d,
                                                           index |-> None]]
                   /\ fs \in Slot \ Mounted
                   /\ filesystem_table' =
                        [filesystem_table EXCEPT ![fs] = [path |-> path, dev_id |-> d, data |-> None]]
    <3>1. Slot \ Mounted # {} /\ Slot \ Mounted \subseteq Nat
      BY <2>2, MountFacts DEF DfsMount
    <3>2. Lowest(Slot \ Mounted) \in Slot \ Mounted
      BY <3>1, LowestIsMember
    <3> QED BY <2>2, <3>2 DEF DfsMount, MountBegins
  <2> QED BY <2>1, <2>2
<1>3. /\ \A u \in Mounter \ {t} : mounting'[u] = mounting[u]
      /\ mounting'[t] = [at |-> place, fs |-> fs, dev |-> d, index |-> None]
      /\ \A u \in Mounter \ {t} : Fs(u)' = Fs(u) /\ Dev(u)' = Dev(u)
      /\ Fs(t)' = fs /\ Dev(t)' = d /\ mounting'[t].at = place /\ d # None
  BY <1>2, MountFacts DEF MountInv, MountTypeOK, Fs, Dev
<1>4. /\ "open" \in MountPlaces /\ "open" \notin FormatPlaces \cup OpenPlaces
      /\ "mkfs" \in FormatPlaces /\ "mkfs" \notin MountPlaces \cup OpenPlaces
      /\ "run" \notin MountPlaces \cup FormatPlaces \cup OpenPlaces
  BY DEF MountPlaces, FormatPlaces, OpenPlaces
<1>5. /\ \A s \in Slot \ {fs} : filesystem_table'[s] = filesystem_table[s]
      /\ Mounted' = Mounted \cup ({fs} \ {None})
      /\ \A s \in Slot \ {fs} : DevOf(s)' = DevOf(s) /\ VolumeOf(s)' = VolumeOf(s)
      /\ fs # None => fs \in Slot \ Mounted /\ place = "open"
      /\ \A s \in Slot : s = fs => DevOf(s)' = d /\ VolumeOf(s)' = None
      /\ fs = None => place = "mkfs"
  <2>1. CASE place = "mkfs"
    BY <1>2, <2>1, MountFacts DEF Mounted, DevOf, VolumeOf
  <2>2. CASE place = "open"
    <3>1. PICK path \in Path : filesystem_table' =
            [filesystem_table EXCEPT ![fs] = [path |-> path, dev_id |-> d, data |-> None]]
      BY <1>2, <2>2
    <3>2. /\ \A s \in Slot \ {fs} : filesystem_table'[s] = filesystem_table[s]
          /\ filesystem_table'[fs] = [path |-> path, dev_id |-> d, data |-> None]
          /\ fs \in Slot \ Mounted /\ fs # None /\ path # None
      BY <1>2, <2>2, <3>1, MountFacts DEF MountInv, MountTypeOK
    <3>3. /\ filesystem_table'[fs].path = path /\ filesystem_table'[fs].dev_id = d
          /\ filesystem_table'[fs].data = None
      BY <3>2
    <3>4. Mounted' = Mounted \cup {fs}
      BY <3>2, <3>3 DEF Mounted
    <3> QED BY <2>2, <3>2, <3>3, <3>4 DEF DevOf, VolumeOf
  <2> QED BY <2>1, <2>2
<1>6. MountTypeOK'
  <2>1. mounting' \in [Mounter ->
                    [at : {"run", "open", "mount", "save", "fat", "fail", "clear",
                           "mkfs", "assign", "format"},
                     fs : Slot \cup {None}, dev : Device \cup {None},
                     index : Volume \cup {None}]]
    BY <1>2 DEF MountInv, MountTypeOK
  <2>2. filesystem_table' \in [Slot -> [path : Path \cup {None},
                                        dev_id : Device \cup {None},
                                        data : Volume \cup {None}]]
    <3>1. CASE place = "mkfs"
      BY <1>2, <3>1 DEF MountInv, MountTypeOK
    <3>2. CASE place = "open"
      BY <1>2, <3>2 DEF MountInv, MountTypeOK
    <3> QED BY <3>1, <3>2
  <2> QED BY <1>1, <2>1, <2>2 DEF MountInv, MountTypeOK
<1>7. ThreadsRight'
  <2> SUFFICES ASSUME NEW u \in Mounter
               PROVE  (/\ MountAt(u, "run") => mounting[u] = NotMounting
                       /\ ~MountAt(u, "run") => Dev(u) \in Device
                       /\ mounting[u].at \in MountPlaces =>
                            Fs(u) \in Mounted /\ DevOf(Fs(u)) = Dev(u) /\ VolumeOf(Fs(u)) = None
                       /\ mounting[u].at \in FormatPlaces => Fs(u) = None
                       /\ mounting[u].at \in {"save", "fat", "assign", "format"} =>
                            mounting[u].index \in Volume)'
    BY DEF ThreadsRight
  <2>1. CASE u = t
    BY <1>3, <1>4, <1>5, <2>1 DEF MountAt
  <2>2. CASE u # t
    <3>1. mounting[u].at \in MountPlaces => Fs(u) \in Mounted /\ Fs(u) \in Slot /\ Fs(u) # fs
      BY <1>5, MountFacts DEF MountInv, ThreadsRight, Mounted
    <3> QED BY <1>3, <1>5, <2>2, <3>1 DEF MountInv, ThreadsRight, MountAt
  <2> QED BY <2>1, <2>2
<1>8. TableRight'
  <2> SUFFICES ASSUME NEW s \in Slot
               PROVE  (/\ s \notin Mounted => filesystem_table[s] = Empty
                       /\ s \in Mounted => DevOf(s) \in Device
                       /\ s \in Mounted /\ VolumeOf(s) = None => \E u \in Mounter : Fs(u) = s)'
    BY DEF TableRight
  <2>1. CASE s = fs
    BY <1>3, <1>5, <2>1, MountFacts
  <2>2. CASE s # fs
    <3>1. \A u \in Mounter : Fs(u) = s => Fs(u)' = s
      BY <1>1, <1>3, MountFacts
    <3> QED BY <1>5, <2>2, <3>1 DEF MountInv, TableRight
  <2> QED BY <2>1, <2>2
<1>9. OneDevice'
  <2>1. \A s \in Mounted' : \/ s \in Mounted /\ s \in Slot \ {fs} /\ DevOf(s)' = DevOf(s)
                            \/ s = fs /\ DevOf(s)' = d /\ place = "open"
    <3> SUFFICES ASSUME NEW s \in Mounted'
                 PROVE  \/ s \in Mounted /\ s \in Slot \ {fs} /\ DevOf(s)' = DevOf(s)
                        \/ s = fs /\ DevOf(s)' = d /\ place = "open"
      OBVIOUS
    <3>1. s \in Slot
      BY DEF Mounted
    <3>2. CASE s = fs
      BY <1>5, <3>1, <3>2, MountFacts
    <3>3. CASE s # fs
      BY <1>5, <3>1, <3>3
    <3> QED BY <3>2, <3>3
  <2> QED BY <1>1, <1>3, <1>4, <2>1 DEF MountInv, OneDevice
<1>10. RefsRight'
  <2> SUFFICES ASSUME NEW x \in Device PROVE dev_ref'[x] = IF Held(x)' THEN 1 ELSE 0
    BY DEF RefsRight
  <2>1. HeldByThread(x)' = HeldByThread(x)
    BY <1>1, <1>3, <1>4 DEF HeldByThread, MountAt
  <2>2. HeldByMount(x)' = HeldByMount(x)
    <3>1. ASSUME NEW s \in Mounted', VolumeOf(s)' # None
          PROVE  s \in Mounted /\ DevOf(s)' = DevOf(s) /\ VolumeOf(s)' = VolumeOf(s)
      <4>1. s \in Slot /\ s # fs
        BY <1>5, <3>1 DEF Mounted
      <4> QED BY <1>5, <4>1
    <3>2. ASSUME NEW s \in Mounted
          PROVE  s \in Mounted' /\ DevOf(s)' = DevOf(s) /\ VolumeOf(s)' = VolumeOf(s)
      <4>1. s \in Slot /\ s # fs
        BY <1>5, MountFacts DEF Mounted
      <4> QED BY <1>5, <4>1
    <3> QED BY <3>1, <3>2 DEF HeldByMount
  <2> QED BY <1>1, <2>1, <2>2 DEF MountInv, RefsRight, Held
<1>11. VolumesRight'
  <2>1. \A s \in Mounted' : \/ s \in Mounted /\ DevOf(s)' = DevOf(s) /\ VolumeOf(s)' = VolumeOf(s)
                            \/ VolumeOf(s)' = None
    BY <1>5 DEF Mounted
  <2>2. \A s \in Mounted : s \in Mounted' /\ VolumeOf(s)' = VolumeOf(s)
    BY <1>5, MountFacts DEF Mounted
  <2>3. mounting[t].at = "run" /\ mounting'[t].at \notin {"fat", "format", "save", "assign"}
    BY <1>1, <1>3 DEF MountAt
  <2> QED BY <1>1, <1>3, <2>1, <2>2, <2>3 DEF MountInv, VolumesRight
<1> QED BY <1>6, <1>7, <1>8, <1>9, <1>10, <1>11 DEF MountInv

(* The volumes, when one thread takes one, saves its device there, or gives *)
(* it back, or does nothing of this.                                        *)
LEMMA VolumesStep ==
  ASSUME MountInv, NEW t \in Mounter, ~MountAt(t, "run"),
         filesystem_table' = filesystem_table,
         \A u \in Mounter \ {t} : mounting'[u] = mounting[u],
         \/ /\ disk' = disk
            /\ mounting[t].at \notin {"fat", "format"}
            /\ mounting'[t].at \notin {"fat", "format", "save", "assign"}
         \/ /\ disk' = disk
            /\ mounting[t].at \notin {"fat", "format"}
            /\ mounting'[t].at \in {"save", "assign"} /\ disk[mounting'[t].index] = None
            /\ \A u \in Mounter : mounting[u].at \notin {"save", "assign"}
         \/ /\ mounting[t].at \in {"save", "assign"} /\ mounting'[t].at \in {"fat", "format"}
            /\ disk' = [disk EXCEPT ![mounting[t].index] = Dev(t)]
            /\ mounting'[t].index = mounting[t].index /\ mounting'[t].dev = Dev(t)
         \/ /\ mounting[t].at \in {"fat", "format"}
            /\ mounting'[t].at \notin {"fat", "format", "save", "assign"}
            /\ disk' = [disk EXCEPT ![mounting[t].index] = None]
  PROVE  VolumesRight'
<1>1. /\ Mounted' = Mounted
      /\ \A s : DevOf(s)' = DevOf(s) /\ VolumeOf(s)' = VolumeOf(s)
      /\ \A u \in Mounter \ {t} : Dev(u)' = Dev(u)
      /\ Dev(t)' = mounting'[t].dev
  BY DEF Mounted, DevOf, VolumeOf, Dev
<1>2. /\ Dev(t) \in Device /\ Dev(t) # None
      /\ ~HeldByMount(Dev(t)) /\ \A u \in Mounter \ {t} : Dev(u) # Dev(t)
  BY RefOfMounter, MountFacts
<1>3. mounting[t].at \in {"save", "fat", "assign", "format"} =>
        mounting[t].index \in Volume
  BY DEF MountInv, ThreadsRight
<1>4. ASSUME disk' = disk, mounting[t].at \notin {"fat", "format"},
             mounting'[t].at \notin {"fat", "format"},
             mounting'[t].at \in {"save", "assign"} =>
               /\ disk[mounting'[t].index] = None
               /\ \A u \in Mounter : mounting[u].at \notin {"save", "assign"}
      PROVE  VolumesRight'
  <2>1. \A u \in Mounter : mounting[u].at \in {"fat", "format"} => u # t
    BY <1>4
  <2>2. \A u \in Mounter : mounting'[u].at \in {"fat", "format"} =>
          u # t /\ mounting'[u] = mounting[u] /\ Dev(u)' = Dev(u)
    BY <1>1, <1>4
  <2>3. \A s \in Mounted : VolumeOf(s) # None => disk[VolumeOf(s)] = DevOf(s)
    BY DEF MountInv, VolumesRight
  <2>4. \A u \in Mounter : mounting'[u].at \in {"fat", "format"} =>
          disk[mounting'[u].index] = Dev(u)'
    BY <2>2 DEF MountInv, VolumesRight
  <2>5. \A u \in Mounter : mounting'[u].at \in {"save", "assign"} =>
          disk[mounting'[u].index] = None
    BY <1>4 DEF MountInv, VolumesRight
  <2>6. \A v \in Volume : disk[v] # None =>
          \/ \E s \in Mounted : VolumeOf(s) = v
          \/ \E u \in Mounter : mounting'[u].at \in {"fat", "format"} /\ mounting'[u].index = v
    BY <2>1 DEF MountInv, VolumesRight
  <2>7. \A u, w \in Mounter :
          mounting'[u].at \in {"save", "assign"} /\ mounting'[w].at \in {"save", "assign"} => u = w
    BY <1>4 DEF MountInv, VolumesRight
  <2> QED BY <1>1, <1>4, <2>3, <2>4, <2>5, <2>6, <2>7 DEF VolumesRight
<1>5. CASE /\ mounting[t].at \in {"save", "assign"} /\ mounting'[t].at \in {"fat", "format"}
           /\ disk' = [disk EXCEPT ![mounting[t].index] = Dev(t)]
           /\ mounting'[t].index = mounting[t].index /\ mounting'[t].dev = Dev(t)
  <2> PICK i \in Volume : i = mounting[t].index
    BY <1>3, <1>5
  <2>1. /\ disk[i] = None /\ disk'[i] = Dev(t)
        /\ \A v \in Volume \ {i} : disk'[v] = disk[v]
        /\ \A u \in Mounter \ {t} : mounting[u].at \notin {"save", "assign"}
    BY <1>5 DEF MountInv, VolumesRight, MountTypeOK
  <2>2. \A s \in Mounted : VolumeOf(s) # None => VolumeOf(s) \in Volume \ {i}
    BY <2>1, MountFacts DEF MountInv, MountTypeOK, VolumesRight, TableRight, Mounted, VolumeOf
  <2>3. \A u \in Mounter \ {t} : mounting[u].at \in {"fat", "format"} =>
          mounting[u].index \in Volume \ {i}
    BY <2>1, MountFacts DEF MountInv, VolumesRight, ThreadsRight, MountAt
  <2>4. \A s \in Mounted : VolumeOf(s) # None => disk'[VolumeOf(s)] = DevOf(s)
    BY <2>1, <2>2 DEF MountInv, VolumesRight
  <2>5. \A u \in Mounter : mounting'[u].at \in {"fat", "format"} =>
          disk'[mounting'[u].index] = Dev(u)'
    BY <1>1, <1>5, <2>1, <2>3 DEF MountInv, VolumesRight
  <2>6. \A u \in Mounter : mounting'[u].at \notin {"save", "assign"}
    BY <1>5, <2>1
  <2>7. \A v \in Volume : disk'[v] # None =>
          \/ \E s \in Mounted : VolumeOf(s) = v
          \/ \E u \in Mounter : mounting'[u].at \in {"fat", "format"} /\ mounting'[u].index = v
    <3> SUFFICES ASSUME NEW v \in Volume, disk'[v] # None
                 PROVE  \/ \E s \in Mounted : VolumeOf(s) = v
                        \/ \E u \in Mounter : mounting'[u].at \in {"fat", "format"} /\ mounting'[u].index = v
      OBVIOUS
    <3>1. CASE v = i
      BY <1>5, <3>1
    <3>2. CASE v # i
      <4>1. disk[v] # None
        BY <2>1, <3>2
      <4> QED BY <1>5, <4>1 DEF MountInv, VolumesRight
    <3> QED BY <3>1, <3>2
  <2> QED BY <1>1, <2>4, <2>5, <2>6, <2>7 DEF VolumesRight
<1>6. CASE /\ mounting[t].at \in {"fat", "format"}
           /\ mounting'[t].at \notin {"fat", "format", "save", "assign"}
           /\ disk' = [disk EXCEPT ![mounting[t].index] = None]
  <2> PICK i \in Volume : i = mounting[t].index
    BY <1>3, <1>6
  <2>1. /\ disk[i] = Dev(t) /\ disk'[i] = None
        /\ \A v \in Volume \ {i} : disk'[v] = disk[v]
    BY <1>6 DEF MountInv, VolumesRight, MountTypeOK
  <2>2. \A s \in Mounted : VolumeOf(s) # None => VolumeOf(s) \in Volume \ {i}
    BY <1>2, <2>1 DEF MountInv, MountTypeOK, VolumesRight, HeldByMount, Mounted, VolumeOf
  <2>3. \A u \in Mounter \ {t} : mounting[u].at \in {"fat", "format"} =>
          mounting[u].index \in Volume \ {i}
    BY <1>2, <2>1 DEF MountInv, VolumesRight, ThreadsRight, MountAt
  <2>4. \A s \in Mounted : VolumeOf(s) # None => disk'[VolumeOf(s)] = DevOf(s)
    BY <2>1, <2>2 DEF MountInv, VolumesRight
  <2>5. \A u \in Mounter : mounting'[u].at \in {"fat", "format"} =>
          disk'[mounting'[u].index] = Dev(u)'
    BY <1>1, <1>6, <2>1, <2>3 DEF MountInv, VolumesRight
  <2>6. \A u \in Mounter : mounting'[u].at \in {"save", "assign"} =>
          u # t /\ disk'[mounting'[u].index] = None
    <3> SUFFICES ASSUME NEW u \in Mounter, mounting'[u].at \in {"save", "assign"}
                 PROVE  u # t /\ disk'[mounting'[u].index] = None
      OBVIOUS
    <3>1. u # t /\ mounting'[u] = mounting[u]
      BY <1>6
    <3>2. mounting[u].index \in Volume /\ disk[mounting[u].index] = None
      BY <3>1 DEF MountInv, VolumesRight, ThreadsRight
    <3> QED BY <2>1, <3>1, <3>2
  <2>7. \A v \in Volume : disk'[v] # None =>
          \/ \E s \in Mounted : VolumeOf(s) = v
          \/ \E u \in Mounter : mounting'[u].at \in {"fat", "format"} /\ mounting'[u].index = v
    BY <2>1 DEF MountInv, VolumesRight
  <2>8. \A u, w \in Mounter :
          mounting'[u].at \in {"save", "assign"} /\ mounting'[w].at \in {"save", "assign"} => u = w
    BY <2>6 DEF MountInv, VolumesRight
  <2> QED BY <1>1, <2>4, <2>5, <2>6, <2>7, <2>8 DEF VolumesRight
<1> QED BY <1>4, <1>5, <1>6

(* A thread's place, and the closing of the device it has open. *)
LEMMA MountPlaceFacts ==
  /\ {"open", "mount", "save", "fat", "fail", "clear"} = MountPlaces
  /\ {"mkfs", "assign", "format"} = FormatPlaces
  /\ {"mount", "save", "fat", "fail", "format"} = OpenPlaces
BY DEF MountPlaces, FormatPlaces, OpenPlaces

LEMMA CloseOfMounter ==
  ASSUME MountInv, NEW t \in Mounter, ~MountAt(t, "run")
  PROVE  /\ mounting[t].at \in OpenPlaces => Closed(Dev(t)) = [dev_ref EXCEPT ![Dev(t)] = 0]
         /\ mounting[t].at \in OpenPlaces => dev_ref = [dev_ref EXCEPT ![Dev(t)] = 1]
         /\ mounting[t].at \notin OpenPlaces => dev_ref = [dev_ref EXCEPT ![Dev(t)] = 0]
         /\ mounting[t].at \notin OpenPlaces =>
              [dev_ref EXCEPT ![Dev(t)] = @ + 1] = [dev_ref EXCEPT ![Dev(t)] = 1]
<1>1. /\ Dev(t) \in Device /\ dev_ref \in [Device -> Nat]
      /\ dev_ref[Dev(t)] = IF mounting[t].at \in OpenPlaces THEN 1 ELSE 0
  BY RefOfMounter DEF MountInv, MountTypeOK
<1>2. CASE mounting[t].at \in OpenPlaces
  <2>1. dev_ref[Dev(t)] = 1
    BY <1>1, <1>2
  <2>2. Closed(Dev(t)) = [dev_ref EXCEPT ![Dev(t)] = 0]
    <3>1. (IF dev_ref[Dev(t)] = 0 THEN 0 ELSE dev_ref[Dev(t)] - 1) = 0
      BY <2>1
    <3> QED BY <3>1 DEF Closed
  <2>3. dev_ref = [dev_ref EXCEPT ![Dev(t)] = 1]
    BY <1>1, <2>1
  <2> QED BY <1>2, <2>2, <2>3
<1>3. CASE mounting[t].at \notin OpenPlaces
  <2>1. dev_ref[Dev(t)] = 0
    BY <1>1, <1>3
  <2>2. dev_ref = [dev_ref EXCEPT ![Dev(t)] = 0]
    BY <1>1, <2>1
  <2>3. [dev_ref EXCEPT ![Dev(t)] = @ + 1] = [dev_ref EXCEPT ![Dev(t)] = 1]
    <3>1. dev_ref[Dev(t)] + 1 = 1
      BY <2>1
    <3> QED BY <3>1
  <2> QED BY <1>3, <2>2, <2>3
<1> QED BY <1>2, <1>3

(* MountGoes, and the step that gives a thread its volume. *)
MovesTo(t, place, i) ==
  /\ \A u \in Mounter \ {t} : mounting'[u] = mounting[u]
  /\ mounting'[t] = [at |-> place, fs |-> Fs(t), dev |-> Dev(t), index |-> i]
  /\ mounting' = [mounting EXCEPT ![t] = [at |-> place, fs |-> Fs(t), dev |-> Dev(t), index |-> i]]

LEMMA MountGoesMoves ==
  ASSUME MountInv, NEW t \in Mounter, NEW place, MountGoes(t, place)
  PROVE  MovesTo(t, place, mounting[t].index)
<1>1. /\ \A u \in Mounter \ {t} : mounting'[u] = mounting[u]
      /\ mounting'[t] = [at |-> place, fs |-> Fs(t), dev |-> Dev(t),
                         index |-> mounting[t].index]
  BY MountGoesFields
<1>2. mounting' = [mounting EXCEPT ![t] = mounting'[t]]
  BY DEF MountInv, MountTypeOK, MountGoes
<1> QED BY <1>1, <1>2 DEF MovesTo

LEMMA MoverType ==
  ASSUME MountInv, NEW t \in Mounter, NEW i \in Volume \cup {None},
         NEW place \in MountPlaces \cup FormatPlaces, MovesTo(t, place, i)
  PROVE  mounting' \in [Mounter ->
                    [at : {"run", "open", "mount", "save", "fat", "fail", "clear",
                           "mkfs", "assign", "format"},
                     fs : Slot \cup {None}, dev : Device \cup {None},
                     index : Volume \cup {None}]]
<1>1. /\ place \in {"run", "open", "mount", "save", "fat", "fail", "clear",
                    "mkfs", "assign", "format"}
      /\ Fs(t) \in Slot \cup {None} /\ Dev(t) \in Device \cup {None}
  BY DEF MountPlaces, FormatPlaces, MountInv, MountTypeOK, Fs, Dev
<1> QED BY <1>1 DEF MovesTo, MountInv, MountTypeOK

(* The steps on which a thread keeps its device. *)
LEMMA MoverKeepsInv ==
  ASSUME MountInv, NEW t \in Mounter, NEW q, NEW i \in Volume \cup {None},
         MovesTo(t, q, i),
         filesystem_table' = filesystem_table, unmount_failed' = unmount_failed,
         disk' \in [Volume -> Device \cup {None}],
         \/ mounting[t].at \in MountPlaces /\ q \in MountPlaces
         \/ mounting[t].at \in FormatPlaces /\ q \in FormatPlaces,
         q \in {"save", "fat", "assign", "format"} => i \in Volume,
         dev_ref' = [dev_ref EXCEPT ![Dev(t)] = IF q \in OpenPlaces THEN 1 ELSE 0],
         VolumesRight'
  PROVE  MountInv'
<1>1. ThreadsRight' /\ TableRight' /\ OneDevice' /\ RefsRight'
  BY MoverKeeps DEF MovesTo
<1>2. q \in MountPlaces \cup FormatPlaces
  OBVIOUS
<1>3. mounting' \in [Mounter ->
                    [at : {"run", "open", "mount", "save", "fat", "fail", "clear",
                           "mkfs", "assign", "format"},
                     fs : Slot \cup {None}, dev : Device \cup {None},
                     index : Volume \cup {None}]]
  BY <1>2, MoverType
<1>4. dev_ref' \in [Device -> Nat]
  BY DEF MountInv, MountTypeOK
<1>5. MountTypeOK'
  BY <1>3, <1>4 DEF MountInv, MountTypeOK
<1> QED BY <1>1, <1>5 DEF MountInv

LEMMA MountOpenKeepsInv ==
  ASSUME MountInv, NEW t \in Mounter, MountOpen(t)
  PROVE  MountInv'
<1>1. /\ mounting[t].at = "open" /\ ~MountAt(t, "run")
      /\ "open" \in MountPlaces /\ "open" \notin OpenPlaces
      /\ "mount" \in MountPlaces \cap OpenPlaces
      /\ "clear" \in MountPlaces /\ "clear" \notin OpenPlaces
  BY MountPlaceFacts DEF MountOpen, MountAt
<1>2. PICK q \in {"mount", "clear"} :
        MountGoes(t, q) /\ dev_ref' = [dev_ref EXCEPT ![Dev(t)] = IF q \in OpenPlaces THEN 1 ELSE 0]
  <2>1. /\ dev_ref = [dev_ref EXCEPT ![Dev(t)] = 0]
        /\ [dev_ref EXCEPT ![Dev(t)] = @ + 1] = [dev_ref EXCEPT ![Dev(t)] = 1]
    BY <1>1, CloseOfMounter
  <2>2. CASE dev_ref' = [dev_ref EXCEPT ![mounting[t].dev] = @ + 1] /\ MountGoes(t, "mount")
    BY <1>1, <2>1, <2>2 DEF Dev
  <2>3. CASE MountGoes(t, "clear") /\ UNCHANGED dev_ref
    BY <1>1, <2>1, <2>3
  <2> QED BY <2>2, <2>3 DEF MountOpen
<1>3. MovesTo(t, q, mounting[t].index) /\ mounting'[t].at = q
  BY <1>2, MountGoesMoves DEF MovesTo
<1>4. VolumesRight'
  BY <1>1, <1>3, VolumesStep DEF MountOpen, MovesTo
<1>5. /\ mounting[t].index \in Volume \cup {None}
      /\ disk' \in [Volume -> Device \cup {None}]
  BY DEF MountInv, MountTypeOK, MountOpen
<1>6. filesystem_table' = filesystem_table /\ unmount_failed' = unmount_failed
  BY DEF MountOpen
<1> QED BY <1>1, <1>2, <1>3, <1>4, <1>5, <1>6, MoverKeepsInv

LEMMA ElmSaveKeepsInv ==
  ASSUME LargeSectors = {}, MountInv, NEW t \in Mounter, ElmSave(t)
  PROVE  MountInv'
<1>1. /\ mounting[t].at = "save" /\ ~MountAt(t, "run") /\ Dev(t) \in Device
      /\ "save" \in MountPlaces \cap OpenPlaces
      /\ "fat" \in MountPlaces \cap OpenPlaces
      /\ mounting[t].index \in Volume
  BY MountPlaceFacts DEF ElmSave, MountAt, MountInv, ThreadsRight
<1>2. MountGoes(t, "fat") /\ disk' = [disk EXCEPT ![mounting[t].index] = Dev(t)]
  BY DEF ElmSave, Dev
<1>3. /\ MovesTo(t, "fat", mounting[t].index) /\ mounting'[t].at = "fat"
      /\ mounting'[t].index = mounting[t].index /\ mounting'[t].dev = Dev(t)
  BY <1>2, MountGoesMoves DEF MovesTo
<1>4. VolumesRight'
  BY <1>1, <1>2, <1>3, VolumesStep DEF ElmSave, MovesTo
<1>5. dev_ref' = [dev_ref EXCEPT ![Dev(t)] = 1]
  BY <1>1, CloseOfMounter DEF ElmSave
<1>6. disk' \in [Volume -> Device \cup {None}]
  BY <1>1, <1>2 DEF MountInv, MountTypeOK
<1>7. filesystem_table' = filesystem_table /\ unmount_failed' = unmount_failed
  BY DEF ElmSave
<1> QED BY <1>1, <1>3, <1>4, <1>5, <1>6, <1>7, MoverKeepsInv

LEMMA MountFailsKeepsInv ==
  ASSUME MountInv, NEW t \in Mounter, MountFails(t)
  PROVE  MountInv'
<1>1. /\ mounting[t].at = "fail" /\ ~MountAt(t, "run")
      /\ "fail" \in MountPlaces \cap OpenPlaces
      /\ "clear" \in MountPlaces /\ "clear" \notin OpenPlaces
  BY MountPlaceFacts DEF MountFails, MountAt
<1>2. MovesTo(t, "clear", mounting[t].index) /\ mounting'[t].at = "clear"
  BY MountGoesMoves DEF MountFails, MovesTo
<1>3. VolumesRight'
  BY <1>1, <1>2, VolumesStep DEF MountFails, MovesTo
<1>4. dev_ref' = [dev_ref EXCEPT ![Dev(t)] = 0]
  BY <1>1, CloseOfMounter DEF MountFails, Dev
<1>5. mounting[t].index \in Volume \cup {None} /\ disk' \in [Volume -> Device \cup {None}]
  BY DEF MountInv, MountTypeOK, MountFails
<1>6. filesystem_table' = filesystem_table /\ unmount_failed' = unmount_failed
  BY DEF MountFails
<1> QED BY <1>1, <1>2, <1>3, <1>4, <1>5, <1>6, MoverKeepsInv

LEMMA MkfsFormatKeepsInv ==
  ASSUME MountInv, NEW t \in Mounter, MkfsFormat(t)
  PROVE  MountInv'
<1>1. /\ mounting[t].at = "assign" /\ ~MountAt(t, "run") /\ Dev(t) \in Device
      /\ "assign" \in FormatPlaces /\ "assign" \notin OpenPlaces
      /\ "format" \in FormatPlaces \cap OpenPlaces
      /\ mounting[t].index \in Volume
  BY MountPlaceFacts DEF MkfsFormat, MountAt, MountInv, ThreadsRight
<1>2. disk' = [disk EXCEPT ![mounting[t].index] = Dev(t)]
  BY DEF MkfsFormat, Dev
<1>3. /\ MovesTo(t, "format", mounting[t].index) /\ mounting'[t].at = "format"
      /\ mounting'[t].index = mounting[t].index /\ mounting'[t].dev = Dev(t)
  BY MountGoesMoves DEF MkfsFormat, MovesTo
<1>4. VolumesRight'
  BY <1>1, <1>2, <1>3, VolumesStep DEF MkfsFormat, MovesTo
<1>5. dev_ref' = [dev_ref EXCEPT ![Dev(t)] = 1]
  BY <1>1, CloseOfMounter DEF MkfsFormat, Dev
<1>6. disk' \in [Volume -> Device \cup {None}]
  BY <1>1, <1>2 DEF MountInv, MountTypeOK
<1>7. filesystem_table' = filesystem_table /\ unmount_failed' = unmount_failed
  BY DEF MkfsFormat
<1> QED BY <1>1, <1>3, <1>4, <1>5, <1>6, <1>7, MoverKeepsInv

LEMMA GetDiskKeepsInv ==
  ASSUME ~Overlap, MountInv, NEW t \in Mounter, GetDisk(t)
  PROVE  MountInv'
<1>1. /\ ~MountAt(t, "run") /\ mounting[t].at \in {"mount", "mkfs"}
      /\ "mount" \in MountPlaces \cap OpenPlaces /\ "save" \in MountPlaces \cap OpenPlaces
      /\ "fail" \in MountPlaces \cap OpenPlaces
      /\ "mkfs" \in FormatPlaces /\ "assign" \in FormatPlaces
      /\ {"mkfs", "assign"} \cap OpenPlaces = {}
      /\ \A u \in Mounter : mounting[u].at \notin {"save", "assign"}
      /\ Dev(t) \in Device
      /\ UNCHANGED <<filesystem_table, disk, dev_ref, unmount_failed>>
  <2>1. ~MountAt(t, "run") /\ mounting[t].at \in {"mount", "mkfs"}
    BY DEF GetDisk, MountAt
  <2>2. \A u \in Mounter : mounting[u].at \notin {"save", "assign"}
    BY DEF GetDisk
  <2>3. Dev(t) \in Device
    BY <2>1 DEF MountInv, ThreadsRight
  <2> QED BY <2>1, <2>2, <2>3 DEF GetDisk, MountPlaces, FormatPlaces, OpenPlaces
<1>2. /\ mounting[t] = [at |-> mounting[t].at, fs |-> Fs(t), dev |-> Dev(t),
                       index |-> mounting[t].index]
      /\ disk \in [Volume -> Device \cup {None}]
      /\ mounting[t].index \in Volume \cup {None}
      /\ mounting \in [Mounter ->
                    [at : {"run", "open", "mount", "save", "fat", "fail", "clear",
                           "mkfs", "assign", "format"},
                     fs : Slot \cup {None}, dev : Device \cup {None},
                     index : Volume \cup {None}]]
  BY DEF MountInv, MountTypeOK, Fs, Dev
<1> DEFINE free == {v \in Volume : disk[v] = None}
<1>3. CASE free # {}
  <2> PICK v : v = Lowest(free)
    OBVIOUS
  <2>1. v \in Volume /\ disk[v] = None
    BY <1>3, LowestIsMember, MountFacts
  <2> PICK q : q = IF mounting[t].at = "mkfs" THEN "assign" ELSE "save"
    OBVIOUS
  <2>2. mounting' = [mounting EXCEPT ![t].at = q, ![t].index = v]
    <3>1. mounting' = [mounting EXCEPT ![t].at = IF @ = "mkfs" THEN "assign" ELSE "save",
                                       ![t].index = Lowest(free)]
      BY <1>3 DEF GetDisk
    <3> QED BY <3>1
  <2>3. MovesTo(t, q, v) /\ mounting'[t].at = q /\ mounting'[t].index = v
    <3>1. mounting'[t] = [at |-> q, fs |-> Fs(t), dev |-> Dev(t), index |-> v]
      BY <1>2, <2>2 DEF Fs, Dev
    <3>2. mounting' = [mounting EXCEPT ![t] = mounting'[t]]
      BY <1>2, <2>2
    <3>3. \A u \in Mounter \ {t} : mounting'[u] = mounting[u]
      BY <1>2, <2>2
    <3> QED BY <3>1, <3>2, <3>3 DEF MovesTo
  <2>4. VolumesRight'
    BY <1>1, <2>1, <2>3, VolumesStep DEF MovesTo
  <2>5. dev_ref' = [dev_ref EXCEPT ![Dev(t)] = IF q \in OpenPlaces THEN 1 ELSE 0]
    BY <1>1, CloseOfMounter
  <2> QED BY <1>1, <1>2, <2>1, <2>3, <2>4, <2>5, MoverKeepsInv
<1>4. CASE free = {} /\ mounting[t].at = "mount"
  <2>1. mounting' = [mounting EXCEPT ![t] = [@ EXCEPT !.at = "fail"]]
    BY <1>4 DEF GetDisk, MountAt
  <2>2. MovesTo(t, "fail", mounting[t].index) /\ mounting'[t].at = "fail"
    <3>1. mounting'[t] = [at |-> "fail", fs |-> Fs(t), dev |-> Dev(t),
                          index |-> mounting[t].index]
      BY <1>2, <2>1 DEF Fs, Dev
    <3>2. mounting' = [mounting EXCEPT ![t] = mounting'[t]]
      BY <1>2, <2>1
    <3>3. \A u \in Mounter \ {t} : mounting'[u] = mounting[u]
      BY <2>1
    <3> QED BY <3>1, <3>2, <3>3 DEF MovesTo
  <2>3. VolumesRight'
    BY <1>1, <1>4, <2>2, VolumesStep DEF MovesTo
  <2>4. dev_ref' = [dev_ref EXCEPT ![Dev(t)] = 1]
    BY <1>1, <1>4, CloseOfMounter
  <2> QED BY <1>1, <1>2, <1>4, <2>2, <2>3, <2>4, MoverKeepsInv
<1>5. CASE free = {} /\ mounting[t].at = "mkfs"
  <2>1. mounting' = [mounting EXCEPT ![t] = NotMounting]
    BY <1>5 DEF GetDisk, MountAt
  <2>2. /\ \A u \in Mounter \ {t} : mounting'[u] = mounting[u]
        /\ mounting'[t].at = "run"
    BY <1>2, <2>1 DEF NotMounting
  <2>3. VolumesRight'
    BY <1>1, <1>5, <2>2, VolumesStep
  <2>4. dev_ref' = [dev_ref EXCEPT ![Dev(t)] = 0]
    BY <1>1, <1>5, CloseOfMounter
  <2>5. ThreadsRight' /\ TableRight' /\ OneDevice' /\ RefsRight'
    BY <1>1, <1>5, <2>1, <2>4, LeaverKeeps
  <2>6. MountTypeOK'
    BY <1>1, <2>1 DEF MountInv, MountTypeOK, NotMounting
  <2> QED BY <2>3, <2>5, <2>6 DEF MountInv
<1> QED BY <1>1, <1>3, <1>4, <1>5

LEMMA ElmMountKeepsInv ==
  ASSUME MountInv, NEW t \in Mounter, ElmMount(t)
  PROVE  MountInv'
<1>1. /\ mounting[t].at = "fat" /\ ~MountAt(t, "run") /\ Dev(t) \in Device
      /\ "fat" \in MountPlaces \cap OpenPlaces
      /\ "fail" \in MountPlaces \cap OpenPlaces
      /\ mounting[t].index \in Volume
      /\ Fs(t) \in Mounted /\ Fs(t) \in Slot /\ DevOf(Fs(t)) = Dev(t) /\ VolumeOf(Fs(t)) = None
      /\ dev_ref' = dev_ref /\ unmount_failed' = unmount_failed
  BY MountPlaceFacts DEF ElmMount, MountAt, MountInv, ThreadsRight, Mounted
<1>2. CASE /\ disk' = [disk EXCEPT ![mounting[t].index] = None]
           /\ MountGoes(t, "fail")
           /\ UNCHANGED filesystem_table
  <2>1. MovesTo(t, "fail", mounting[t].index) /\ mounting'[t].at = "fail"
    BY <1>2, MountGoesMoves DEF MovesTo
  <2>2. VolumesRight'
    BY <1>1, <1>2, <2>1, VolumesStep DEF MovesTo
  <2>3. dev_ref' = [dev_ref EXCEPT ![Dev(t)] = 1]
    BY <1>1, CloseOfMounter
  <2>4. disk' \in [Volume -> Device \cup {None}]
    BY <1>1, <1>2 DEF MountInv, MountTypeOK
  <2>5. mounting[t].index \in Volume \cup {None} /\ filesystem_table' = filesystem_table
    BY <1>1, <1>2
  <2>6. dev_ref' = [dev_ref EXCEPT ![Dev(t)] = IF "fail" \in OpenPlaces THEN 1 ELSE 0]
    BY <1>1, <2>3
  <2> QED BY <1>1, <2>1, <2>2, <2>4, <2>5, <2>6, MoverKeepsInv
<1>3. CASE /\ filesystem_table' = [filesystem_table EXCEPT
                                     ![mounting[t].fs].data = mounting[t].index]
           /\ mounting' = [mounting EXCEPT ![t] = NotMounting]
           /\ UNCHANGED disk
  <2> PICK f \in Slot : f = Fs(t)
    BY <1>1
  <2> PICK i \in Volume : i = mounting[t].index
    BY <1>1
  <2>1. /\ filesystem_table' = [filesystem_table EXCEPT ![f].data = i]
        /\ filesystem_table \in [Slot -> [path : Path \cup {None},
                                          dev_id : Device \cup {None},
                                          data : Volume \cup {None}]]
    BY <1>3 DEF Fs, MountInv, MountTypeOK
  <2>2. ThreadsRight' /\ TableRight' /\ OneDevice' /\ RefsRight'
    BY <1>1, <1>3, <2>1, LeaverKeeps
  <2>3. MountTypeOK'
    <3>1. mounting' \in [Mounter ->
                    [at : {"run", "open", "mount", "save", "fat", "fail", "clear",
                           "mkfs", "assign", "format"},
                     fs : Slot \cup {None}, dev : Device \cup {None},
                     index : Volume \cup {None}]]
      BY <1>3 DEF MountInv, MountTypeOK, NotMounting
    <3>2. filesystem_table' \in [Slot -> [path : Path \cup {None},
                                          dev_id : Device \cup {None},
                                          data : Volume \cup {None}]]
      BY <2>1
    <3> QED BY <1>1, <1>3, <3>1, <3>2 DEF MountInv, MountTypeOK
  <2>4. /\ \A s \in Slot : /\ filesystem_table'[s].path = filesystem_table[s].path
                          /\ filesystem_table'[s].dev_id = filesystem_table[s].dev_id
        /\ \A s \in Slot \ {f} : filesystem_table'[s].data = filesystem_table[s].data
        /\ filesystem_table'[f].data = i
    BY <2>1
  <2>5. /\ Mounted' = Mounted /\ f \in Mounted
        /\ \A s \in Slot : DevOf(s)' = DevOf(s)
        /\ \A s \in Slot \ {f} : VolumeOf(s)' = VolumeOf(s)
        /\ VolumeOf(f)' = i
    BY <1>1, <2>4 DEF Mounted, DevOf, VolumeOf
  <2>6. /\ \A u \in Mounter \ {t} : mounting'[u] = mounting[u] /\ Dev(u)' = Dev(u)
        /\ mounting'[t].at = "run"
    BY <1>3 DEF MountInv, MountTypeOK, NotMounting, Dev
  <2>7. disk[i] = Dev(t) /\ DevOf(f) = Dev(t) /\ disk' = disk
    BY <1>1, <1>3 DEF MountInv, VolumesRight
  <2>8. \A s \in Mounted : VolumeOf(s)' # None => disk[VolumeOf(s)'] = DevOf(s)'
    <3> SUFFICES ASSUME NEW s \in Mounted, VolumeOf(s)' # None
                 PROVE  disk[VolumeOf(s)'] = DevOf(s)'
      OBVIOUS
    <3>1. s \in Slot
      BY DEF Mounted
    <3>2. CASE s = f
      BY <2>5, <2>7, <3>1, <3>2
    <3>3. CASE s # f
      BY <2>5, <3>1, <3>3 DEF MountInv, VolumesRight
    <3> QED BY <3>2, <3>3
  <2>9. \A v \in Volume : disk[v] # None =>
          \/ \E s \in Mounted : VolumeOf(s)' = v
          \/ \E u \in Mounter : mounting'[u].at \in {"fat", "format"} /\ mounting'[u].index = v
    <3> SUFFICES ASSUME NEW v \in Volume, disk[v] # None
                 PROVE  \/ \E s \in Mounted : VolumeOf(s)' = v
                        \/ \E u \in Mounter : /\ mounting'[u].at \in {"fat", "format"}
                                              /\ mounting'[u].index = v
      OBVIOUS
    <3>1. ASSUME NEW s \in Mounted, VolumeOf(s) = v
          PROVE  s \in Slot \ {f} /\ VolumeOf(s)' = v
      <4>1. VolumeOf(s) # VolumeOf(f)
        BY <1>1, <3>1, MountFacts
      <4> QED BY <2>5, <3>1, <4>1 DEF Mounted
    <3>2. ASSUME NEW u \in Mounter, mounting[u].at \in {"fat", "format"}, mounting[u].index = v,
                 v # i
          PROVE  u # t
      BY <3>2
    <3>3. v = i => \E s \in Mounted : VolumeOf(s)' = v
      BY <2>5
    <3> QED BY <2>6, <3>1, <3>2, <3>3 DEF MountInv, VolumesRight
  <2>10. VolumesRight'
    <3>1. \A u \in Mounter : mounting'[u].at # "run" => u # t /\ mounting'[u] = mounting[u]
      BY <2>6
    <3> QED BY <2>5, <2>6, <2>7, <2>8, <2>9, <3>1 DEF MountInv, VolumesRight
  <2> QED BY <2>2, <2>3, <2>10 DEF MountInv
<1> QED BY <1>2, <1>3 DEF ElmMount

LEMMA MkfsEndKeepsInv ==
  ASSUME MountInv, NEW t \in Mounter, MkfsEnd(t)
  PROVE  MountInv'
<1>1. /\ mounting[t].at = "format" /\ ~MountAt(t, "run") /\ Dev(t) \in Device
      /\ "format" \in FormatPlaces \cap OpenPlaces
      /\ mounting[t].index \in Volume
      /\ UNCHANGED <<filesystem_table, unmount_failed>>
      /\ disk' = [disk EXCEPT ![mounting[t].index] = None]
      /\ mounting' = [mounting EXCEPT ![t] = NotMounting]
  BY MountPlaceFacts DEF MkfsEnd, MountAt, MountInv, ThreadsRight
<1>2. /\ \A u \in Mounter \ {t} : mounting'[u] = mounting[u]
      /\ mounting'[t].at = "run"
  BY <1>1 DEF NotMounting, MountInv, MountTypeOK
<1>3. VolumesRight'
  BY <1>1, <1>2, VolumesStep
<1>4. dev_ref' = [dev_ref EXCEPT ![Dev(t)] = 0]
  BY <1>1, CloseOfMounter DEF MkfsEnd, Dev
<1>5. ThreadsRight' /\ TableRight' /\ OneDevice' /\ RefsRight'
  BY <1>1, <1>4, LeaverKeeps
<1>6. mounting' \in [Mounter ->
                    [at : {"run", "open", "mount", "save", "fat", "fail", "clear",
                           "mkfs", "assign", "format"},
                     fs : Slot \cup {None}, dev : Device \cup {None},
                     index : Volume \cup {None}]]
  BY <1>1 DEF MountInv, MountTypeOK, NotMounting
<1>7. MountTypeOK'
  BY <1>1, <1>4, <1>6 DEF MountInv, MountTypeOK
<1> QED BY <1>3, <1>5, <1>7 DEF MountInv

LEMMA MountClearKeepsInv ==
  ASSUME MountInv, NEW t \in Mounter, MountClear(t)
  PROVE  MountInv'
<1>1. /\ mounting[t].at = "clear" /\ ~MountAt(t, "run") /\ Dev(t) \in Device
      /\ "clear" \in MountPlaces
      /\ Fs(t) \in Mounted /\ Fs(t) \in Slot /\ VolumeOf(Fs(t)) = None
      /\ UNCHANGED <<disk, dev_ref, unmount_failed>>
      /\ filesystem_table' = [filesystem_table EXCEPT ![Fs(t)] = Empty]
      /\ mounting' = [mounting EXCEPT ![t] = NotMounting]
  BY MountPlaceFacts DEF MountClear, MountAt, MountInv, ThreadsRight, Mounted, Fs
<1>2. /\ \A u \in Mounter \ {t} : mounting'[u] = mounting[u] /\ Dev(u)' = Dev(u)
      /\ mounting'[t].at = "run"
  BY <1>1 DEF NotMounting, MountInv, MountTypeOK, Dev
<1> PICK f \in Slot : f = Fs(t)
  BY <1>1
<1>3. /\ \A s \in Slot \ {f} : filesystem_table'[s] = filesystem_table[s]
      /\ filesystem_table'[f] = Empty
  BY <1>1 DEF MountInv, MountTypeOK
<1>4. /\ Mounted' = Mounted \ {f}
      /\ \A s \in Mounted \ {f} : DevOf(s)' = DevOf(s) /\ VolumeOf(s)' = VolumeOf(s)
  BY <1>3 DEF Mounted, DevOf, VolumeOf, Empty
<1>5. VolumesRight'
  <2>1. \A u \in Mounter : mounting'[u].at # "run" => u # t /\ mounting'[u] = mounting[u]
    BY <1>2
  <2>2. \A v \in Volume : disk[v] # None =>
          \/ \E s \in Mounted' : VolumeOf(s)' = v
          \/ \E u \in Mounter : mounting'[u].at \in {"fat", "format"} /\ mounting'[u].index = v
    <3> SUFFICES ASSUME NEW v \in Volume, disk[v] # None
                 PROVE  \/ \E s \in Mounted' : VolumeOf(s)' = v
                        \/ \E u \in Mounter : /\ mounting'[u].at \in {"fat", "format"}
                                              /\ mounting'[u].index = v
      OBVIOUS
    <3>1. \A s \in Mounted : VolumeOf(s) = v => s \in Mounted \ {f}
      BY <1>1, MountFacts
    <3>2. \A u \in Mounter : mounting[u].at \in {"fat", "format"} => u # t
      BY <1>1
    <3> QED BY <1>2, <1>4, <3>1, <3>2 DEF MountInv, VolumesRight
  <2> QED BY <1>1, <1>2, <1>4, <2>1, <2>2 DEF MountInv, VolumesRight
<1>6. ThreadsRight' /\ TableRight' /\ OneDevice' /\ RefsRight'
  BY <1>1, LeaverKeeps
<1>7. /\ filesystem_table' \in [Slot -> [path : Path \cup {None},
                                         dev_id : Device \cup {None},
                                         data : Volume \cup {None}]]
      /\ mounting' \in [Mounter ->
                    [at : {"run", "open", "mount", "save", "fat", "fail", "clear",
                           "mkfs", "assign", "format"},
                     fs : Slot \cup {None}, dev : Device \cup {None},
                     index : Volume \cup {None}]]
  BY <1>1 DEF MountInv, MountTypeOK, NotMounting, Empty
<1>8. MountTypeOK'
  BY <1>1, <1>7 DEF MountInv, MountTypeOK
<1> QED BY <1>5, <1>6, <1>8 DEF MountInv

(* MountInv is about the table, the volumes, the devices and the threads.   *)
LEMMA MountSame ==
  ASSUME MountInv, MountTypeOK', UNCHANGED <<filesystem_table, disk, dev_ref, mounting>>
  PROVE  MountInv'
<1>1. /\ Mounted' = Mounted
      /\ \A s : DevOf(s)' = DevOf(s) /\ VolumeOf(s)' = VolumeOf(s)
      /\ \A u : Fs(u)' = Fs(u) /\ Dev(u)' = Dev(u)
  BY DEF Mounted, DevOf, VolumeOf, Fs, Dev
<1>2. ThreadsRight'
  BY <1>1 DEF MountInv, ThreadsRight, MountAt
<1>3. TableRight'
  BY <1>1 DEF MountInv, TableRight
<1>4. OneDevice'
  BY <1>1 DEF MountInv, OneDevice
<1>5. \A d : Held(d)' <=> Held(d)
  BY <1>1 DEF Held, HeldByMount, HeldByThread
<1>6. RefsRight'
  BY <1>5 DEF MountInv, RefsRight
<1>7. VolumesRight'
  BY <1>1 DEF MountInv, VolumesRight
<1> QED BY <1>2, <1>3, <1>4, <1>6, <1>7 DEF MountInv

(* dfs_unmount: the one volume of the device is that of the entry. *)
LEMMA DfsUnmountKeepsInv ==
  ASSUME MountInv, NEW t \in Mounter, NEW path \in Path, DfsUnmount(t, path)
  PROVE  MountInv'
<1> DEFINE found == {s \in Mounted : filesystem_table[s].path = path}
<1> PICK fs : fs = Lowest(found)
  OBVIOUS
<1> PICK dev : dev = DevOf(fs)
  OBVIOUS
<1> DEFINE volumes == {v \in Volume : disk[v] = dev}
<1>1. fs \in Mounted /\ fs \in Slot /\ filesystem_table[fs].path = path
  <2>1. found # {} /\ found \subseteq Nat
    BY MountFacts DEF DfsUnmount, Mounted
  <2>2. fs \in found
    BY <2>1, LowestIsMember
  <2> QED BY <2>2 DEF Mounted
<1>2. /\ dev \in Device /\ dev # None
      /\ mounting' = mounting
  BY <1>1, MountFacts DEF DfsUnmount, MountInv, TableRight
<1>3. CASE VolumeOf(fs) = None
  <2>1. UNCHANGED <<filesystem_table, disk, dev_ref>> /\ unmount_failed' = TRUE
    BY <1>3 DEF DfsUnmount, VolumeOf
  <2>2. MountTypeOK'
    BY <1>2, <2>1 DEF MountInv, MountTypeOK
  <2> QED BY <1>2, <2>1, <2>2, MountSame
<1>4. CASE VolumeOf(fs) # None
  <2>1. /\ volumes # {}
        /\ disk' = [disk EXCEPT ![Lowest(volumes)] = None]
        /\ dev_ref' = Closed(dev)
        /\ filesystem_table' = [filesystem_table EXCEPT ![fs] = Empty]
        /\ UNCHANGED unmount_failed
    BY <1>4 DEF DfsUnmount, VolumeOf, DevOf
  <2> PICK i : i = Lowest(volumes)
    OBVIOUS
  <2>2. i \in Volume /\ disk[i] = dev
    BY <2>1, LowestIsMember, MountFacts
  <2>3. \A u \in Mounter : Dev(u) # dev
    <3> SUFFICES ASSUME NEW u \in Mounter, Dev(u) = dev PROVE FALSE
      OBVIOUS
    <3>1. ~MountAt(u, "run")
      BY <1>2 DEF MountInv, ThreadsRight, NotMounting, Dev
    <3>2. mounting[u].at \in MountPlaces \cup FormatPlaces
      BY <3>1 DEF MountInv, MountTypeOK, MountAt, MountPlaces, FormatPlaces
    <3> QED BY <1>1, <1>4, <3>2 DEF MountInv, ThreadsRight, OneDevice
  <2>4. \A u \in Mounter : Fs(u) # fs
    <3> SUFFICES ASSUME NEW u \in Mounter, Fs(u) = fs PROVE FALSE
      OBVIOUS
    <3>1. ~MountAt(u, "run")
      BY <1>1, MountFacts DEF MountInv, ThreadsRight, NotMounting, Fs
    <3>2. mounting[u].at \in MountPlaces \cup FormatPlaces
      BY <3>1 DEF MountInv, MountTypeOK, MountAt, MountPlaces, FormatPlaces
    <3> QED BY <1>1, <1>4, <3>2, MountFacts DEF MountInv, ThreadsRight
  <2>5. /\ VolumeOf(fs) = i
        /\ \A s \in Mounted : VolumeOf(s) = i => s = fs
        /\ \A s \in Mounted : DevOf(s) = dev => s = fs
    <3>1. \A s \in Mounted : DevOf(s) = dev => s = fs
      BY <1>1 DEF MountInv, OneDevice
    <3>2. \A s \in Mounted : VolumeOf(s) = i => DevOf(s) = dev
      BY <2>2, MountFacts DEF MountInv, VolumesRight
    <3>3. \A u \in Mounter : mounting[u].at \in {"fat", "format"} => mounting[u].index # i
      BY <2>2, <2>3 DEF MountInv, VolumesRight
    <3>4. \E s \in Mounted : VolumeOf(s) = i
      BY <1>2, <2>2, <3>3 DEF MountInv, VolumesRight
    <3> QED BY <3>1, <3>2, <3>4
  <2>6. /\ \A s \in Slot \ {fs} : filesystem_table'[s] = filesystem_table[s]
        /\ filesystem_table'[fs] = Empty
        /\ \A v \in Volume \ {i} : disk'[v] = disk[v]
        /\ disk'[i] = None
    BY <1>1, <2>1, <2>2 DEF MountInv, MountTypeOK
  <2>7. /\ Mounted' = Mounted \ {fs}
        /\ \A s \in Slot \ {fs} : DevOf(s)' = DevOf(s) /\ VolumeOf(s)' = VolumeOf(s)
        /\ \A u \in Mounter : Fs(u)' = Fs(u) /\ Dev(u)' = Dev(u)
    <3>1. Mounted' = Mounted \ {fs}
      <4>1. filesystem_table'[fs].path = None
        BY <2>6 DEF Empty
      <4> QED BY <1>1, <2>6, <4>1 DEF Mounted
    <3>2. \A s \in Slot \ {fs} : DevOf(s)' = DevOf(s) /\ VolumeOf(s)' = VolumeOf(s)
      BY <2>6 DEF DevOf, VolumeOf
    <3>3. \A u \in Mounter : Fs(u)' = Fs(u) /\ Dev(u)' = Dev(u)
      BY <1>2 DEF Fs, Dev
    <3> QED BY <3>1, <3>2, <3>3
  <2>8. \A s \in Mounted' : s \in Mounted /\ s \in Slot \ {fs}
    BY <2>7 DEF Mounted
  <2>9. /\ dev_ref' = [dev_ref EXCEPT ![dev] = 0] /\ dev_ref[dev] = 1
    <3>1. dev_ref[dev] = 1
      BY <1>1, <1>2, <1>4 DEF MountInv, RefsRight, Held, HeldByMount
    <3> QED BY <2>1, <3>1 DEF Closed
  <2>10. MountTypeOK'
    <3>1. Empty \in [path : Path \cup {None}, dev_id : Device \cup {None},
                     data : Volume \cup {None}]
      BY DEF Empty
    <3>2. filesystem_table' \in [Slot -> [path : Path \cup {None},
                                          dev_id : Device \cup {None},
                                          data : Volume \cup {None}]]
      BY <2>1, <3>1 DEF MountInv, MountTypeOK
    <3>3. disk' \in [Volume -> Device \cup {None}]
      BY <2>1 DEF MountInv, MountTypeOK
    <3>4. dev_ref' \in [Device -> Nat]
      BY <2>9 DEF MountInv, MountTypeOK
    <3> QED BY <1>2, <2>1, <3>2, <3>3, <3>4 DEF MountInv, MountTypeOK
  <2>11. ThreadsRight'
    <3> SUFFICES ASSUME NEW u \in Mounter
                 PROVE  (/\ MountAt(u, "run") => mounting[u] = NotMounting
                         /\ ~MountAt(u, "run") => Dev(u) \in Device
                         /\ mounting[u].at \in MountPlaces =>
                              Fs(u) \in Mounted /\ DevOf(Fs(u)) = Dev(u) /\ VolumeOf(Fs(u)) = None
                         /\ mounting[u].at \in FormatPlaces => Fs(u) = None
                         /\ mounting[u].at \in {"save", "fat", "assign", "format"} =>
                              mounting[u].index \in Volume)'
      BY DEF ThreadsRight
    <3>1. mounting[u].at \in MountPlaces => Fs(u) \in Slot \ {fs} /\ Fs(u) \in Mounted'
      BY <2>4, <2>7 DEF MountInv, ThreadsRight, Mounted
    <3> QED BY <1>2, <2>7, <3>1 DEF MountInv, ThreadsRight, MountAt
  <2>12. TableRight'
    BY <2>6, <2>7, <2>8 DEF MountInv, TableRight
  <2>13. OneDevice'
    <3>1. \A r, s \in Mounted' : DevOf(r)' = DevOf(s)' => r = s
      BY <2>7, <2>8 DEF MountInv, OneDevice
    <3>2. \A u, w \in Mounter : Dev(u)' = Dev(w)' /\ Dev(u)' # None => u = w
      BY <2>7 DEF MountInv, OneDevice
    <3>3. \A u \in Mounter : mounting'[u].at \in FormatPlaces =>
            \A s \in Mounted' : DevOf(s)' # Dev(u)'
      BY <1>2, <2>7, <2>8 DEF MountInv, OneDevice
    <3> QED BY <3>1, <3>2, <3>3 DEF OneDevice
  <2>14. RefsRight'
    <3> SUFFICES ASSUME NEW d \in Device PROVE dev_ref'[d] = IF Held(d)' THEN 1 ELSE 0
      BY DEF RefsRight
    <3>1. HeldByThread(d)' = HeldByThread(d)
      BY <1>2, <2>7 DEF HeldByThread
    <3>2. HeldByMount(d)' <=> HeldByMount(d) /\ d # dev
      <4>1. \A s \in Mounted' : DevOf(s)' = DevOf(s) /\ VolumeOf(s)' = VolumeOf(s)
                                /\ s \in Mounted /\ DevOf(s) # dev
        BY <2>5, <2>7, <2>8
      <4>2. \A s \in Mounted : DevOf(s) # dev => s \in Mounted'
        BY <2>7
      <4>3. HeldByMount(d)' => HeldByMount(d) /\ d # dev
        BY <4>1 DEF HeldByMount
      <4>4. HeldByMount(d) /\ d # dev => HeldByMount(d)'
        BY <4>1, <4>2 DEF HeldByMount
      <4> QED BY <4>3, <4>4
    <3>3. ~HeldByThread(dev)
      BY <2>3 DEF HeldByThread
    <3>4. dev_ref'[d] = IF d = dev THEN 0 ELSE dev_ref[d]
      BY <2>9 DEF MountInv, MountTypeOK
    <3> QED BY <3>1, <3>2, <3>3, <3>4 DEF MountInv, RefsRight, Held
  <2>15. VolumesRight'
    <3>1. \A s \in Mounted' : VolumeOf(s)' # None => disk'[VolumeOf(s)'] = DevOf(s)'
      <4> SUFFICES ASSUME NEW s \in Mounted', VolumeOf(s)' # None
                   PROVE  disk'[VolumeOf(s)'] = DevOf(s)'
        OBVIOUS
      <4>1. /\ s \in Mounted /\ s \in Slot \ {fs} /\ VolumeOf(s)' = VolumeOf(s)
            /\ DevOf(s)' = DevOf(s)
        BY <2>7, <2>8
      <4>2. VolumeOf(s) \in Volume \ {i}
        BY <2>5, <4>1 DEF MountInv, MountTypeOK, VolumeOf
      <4>3. disk[VolumeOf(s)] = DevOf(s)
        BY <4>1 DEF MountInv, VolumesRight
      <4> QED BY <2>6, <4>1, <4>2, <4>3
    <3>2. \A u \in Mounter : mounting[u].at \in {"fat", "format"} =>
            disk'[mounting[u].index] = Dev(u)
      <4>1. \A u \in Mounter : mounting[u].at \in {"fat", "format"} =>
              disk[mounting[u].index] = Dev(u) /\ mounting[u].index \in Volume \ {i}
        BY <2>2, <2>3 DEF MountInv, VolumesRight, ThreadsRight
      <4> QED BY <2>6, <4>1
    <3>3. \A u \in Mounter : mounting[u].at \in {"save", "assign"} =>
            disk'[mounting[u].index] = None
      <4>1. \A u \in Mounter : mounting[u].at \in {"save", "assign"} =>
              disk[mounting[u].index] = None /\ mounting[u].index \in Volume
        BY DEF MountInv, VolumesRight, ThreadsRight
      <4> QED BY <2>6, <4>1
    <3>4. \A v \in Volume : disk'[v] # None =>
            \/ \E s \in Mounted' : VolumeOf(s)' = v
            \/ \E u \in Mounter : mounting[u].at \in {"fat", "format"} /\ mounting[u].index = v
      <4> SUFFICES ASSUME NEW v \in Volume, disk'[v] # None
                   PROVE  \/ \E s \in Mounted' : VolumeOf(s)' = v
                          \/ \E u \in Mounter : /\ mounting[u].at \in {"fat", "format"}
                                                /\ mounting[u].index = v
        OBVIOUS
      <4>1. v # i /\ disk[v] # None
        BY <2>6
      <4>2. \A s \in Mounted : VolumeOf(s) = v => s \in Mounted' /\ VolumeOf(s)' = v
        BY <2>5, <2>7, <4>1 DEF Mounted
      <4> QED BY <4>1, <4>2 DEF MountInv, VolumesRight
    <3> QED BY <1>2, <2>7, <3>1, <3>2, <3>3, <3>4 DEF MountInv, VolumesRight
  <2> QED BY <2>10, <2>11, <2>12, <2>13, <2>14, <2>15 DEF MountInv
<1> QED BY <1>3, <1>4

\* In the paths of the table: nothing but dfs_mount enters one.
LEMMA MountedOnceKept ==
  ASSUME ~Relative, MountInv, MountedOnce, [MountNext]_mountvars
  PROVE  MountedOnce'
<1>1. CASE \/ UNCHANGED filesystem_table
           \/ \E s \in Slot : filesystem_table' = [filesystem_table EXCEPT ![s] = Empty]
           \/ \E s \in Slot : \E v : filesystem_table' = [filesystem_table EXCEPT ![s].data = v]
  <2>1. \A s \in Slot : \/ filesystem_table'[s].path = filesystem_table[s].path
                        \/ filesystem_table'[s].path = None
    BY <1>1 DEF MountInv, MountTypeOK, Empty
  <2> QED BY <2>1 DEF MountedOnce, Mounted
<1>2. ASSUME NEW t \in Mounter, NEW d \in Device, NEW path \in Path,
             DfsMount(t, d, path, path)
      PROVE  MountedOnce'
  <2> PICK s : s = Lowest(Slot \ Mounted)
    OBVIOUS
  <2>1. /\ filesystem_table' =
             [filesystem_table EXCEPT ![s] = [path |-> path, dev_id |-> d, data |-> None]]
        /\ \A r \in Mounted : filesystem_table[r].path # path
    BY <1>2 DEF DfsMount
  <2>2. s \in Slot
    BY <1>2, LowestIsMember, MountFacts DEF DfsMount
  <2>3. /\ \A r \in Slot \ {s} : filesystem_table'[r].path = filesystem_table[r].path
        /\ filesystem_table'[s].path = path
    BY <2>1, <2>2 DEF MountInv, MountTypeOK
  <2> QED BY <2>1, <2>2, <2>3 DEF MountedOnce, Mounted
<1>3. CASE UNCHANGED mountvars
  BY <1>1, <1>3 DEF mountvars
<1>4. ASSUME NEW t \in Mounter,
             \/ \E dev \in Device, path \in Path :
                  \E given \in {path} \cup (IF Relative THEN {<<path>>} ELSE {}) :
                    DfsMount(t, dev, path, given)
             \/ \E dev \in Device : DfsMkfs(t, dev)
             \/ \E path \in Path : DfsUnmount(t, path)
             \/ MountOpen(t) \/ GetDisk(t) \/ ElmSave(t) \/ ElmMount(t)
             \/ MountFails(t) \/ MountClear(t) \/ MkfsFormat(t) \/ MkfsEnd(t)
      PROVE  MountedOnce'
  <2>1. CASE MountOpen(t) \/ GetDisk(t) \/ ElmSave(t) \/ MountFails(t) \/ MkfsFormat(t)
             \/ MkfsEnd(t) \/ \E dev \in Device : DfsMkfs(t, dev)
    BY <1>1, <2>1 DEF MountOpen, GetDisk, ElmSave, MountFails, MkfsFormat, MkfsEnd, DfsMkfs
  <2>2. CASE ElmMount(t)
    <3>1. mounting[t].fs \in Slot
      BY <2>2 DEF ElmMount, MountInv, ThreadsRight, MountAt, MountPlaces, Mounted, Fs
    <3> QED BY <1>1, <2>2, <3>1 DEF ElmMount
  <2>3. CASE MountClear(t)
    <3>1. mounting[t].fs \in Slot
      BY <2>3 DEF MountClear, MountInv, ThreadsRight, MountAt, MountPlaces, Mounted, Fs
    <3> QED BY <1>1, <2>3, <3>1 DEF MountClear
  <2>4. ASSUME NEW path \in Path, DfsUnmount(t, path)
        PROVE  MountedOnce'
    <3> PICK fs : fs = Lowest({s \in Mounted : filesystem_table[s].path = path})
      OBVIOUS
    <3>1. fs \in Slot
      <4>1. /\ {s \in Mounted : filesystem_table[s].path = path} # {}
            /\ {s \in Mounted : filesystem_table[s].path = path} \subseteq Nat
        BY <2>4, MountFacts DEF DfsUnmount, Mounted
      <4>2. fs \in {s \in Mounted : filesystem_table[s].path = path}
        BY <4>1, LowestIsMember
      <4> QED BY <4>2 DEF Mounted
    <3>2. \/ UNCHANGED filesystem_table
          \/ filesystem_table' = [filesystem_table EXCEPT ![fs] = Empty]
      BY <2>4 DEF DfsUnmount
    <3> QED BY <1>1, <3>1, <3>2
  <2> QED BY <1>2, <1>4, <2>1, <2>2, <2>3, <2>4
<1> QED BY <1>3, <1>4 DEF MountNext

LEMMA MountStepInv ==
  ASSUME ~Overlap, LargeSectors = {}, MountInv, [MountNext]_mountvars
  PROVE  MountInv'
<1>1. CASE UNCHANGED mountvars
  <2>1. MountTypeOK'
    BY <1>1 DEF mountvars, MountInv, MountTypeOK
  <2> QED BY <1>1, <2>1, MountSame DEF mountvars
<1>2. CASE MountNext
  BY <1>2, BeginKeepsInv, DfsUnmountKeepsInv, MountOpenKeepsInv, GetDiskKeepsInv,
     ElmSaveKeepsInv, ElmMountKeepsInv, MountFailsKeepsInv, MountClearKeepsInv,
     MkfsFormatKeepsInv, MkfsEndKeepsInv DEF MountNext
<1> QED BY <1>1, <1>2

\* When no two threads search the volumes at once and every device has sectors
\* that fit (the other case keeps the volume of a mount that fails), and paths
\* are given in full: however many threads mount, unmount and format at the
\* same time, and wherever they fail, table, devices and volumes agree.
THEOREM MountsAgree ==
  ASSUME ~Relative, ~Overlap, LargeSectors = {}
  PROVE  MountSpec => []MountsConsistent
<1>1. MountInit => MountInv /\ MountedOnce
  BY MountInitInv DEF MountInit, MountedOnce, Mounted, Empty
<1>2. MountInv /\ MountedOnce /\ [MountNext]_mountvars => MountInv' /\ MountedOnce'
  BY MountStepInv, MountedOnceKept
<1>3. MountInv /\ MountedOnce => MountsConsistent
  BY MountInvImplies DEF MountsConsistent
<1> QED BY <1>1, <1>2, <1>3, PTL DEF MountSpec

\* A path that is unmounted only when nobody is mounting it has its file system:
\* the assertion of dfs_elm_unmount holds.
THEOREM UnmountsFindFat ==
  ASSUME ~Early, ~Overlap, LargeSectors = {}
  PROVE  MountSpec => []UnmountFindsFat
<1>1. MountInit => MountInv /\ UnmountFindsFat
  BY MountInitInv DEF MountInit, UnmountFindsFat
<1>2. MountInv /\ UnmountFindsFat /\ [MountNext]_mountvars => MountInv' /\ UnmountFindsFat'
  <2> SUFFICES ASSUME MountInv, UnmountFindsFat, [MountNext]_mountvars
               PROVE  MountInv' /\ UnmountFindsFat'
    OBVIOUS
  <2>1. ASSUME NEW t \in Mounter, NEW path \in Path, DfsUnmount(t, path)
        PROVE  unmount_failed' = unmount_failed
    <3> PICK fs : fs = Lowest({s \in Mounted : filesystem_table[s].path = path})
      OBVIOUS
    <3>1. fs \in Mounted /\ fs \in Slot
      <4>1. /\ {s \in Mounted : filesystem_table[s].path = path} # {}
            /\ {s \in Mounted : filesystem_table[s].path = path} \subseteq Nat
        BY <2>1, MountFacts DEF DfsUnmount, Mounted
      <4>2. fs \in {s \in Mounted : filesystem_table[s].path = path}
        BY <4>1, LowestIsMember
      <4> QED BY <4>2 DEF Mounted
    <3>2. \A u \in Mounter : mounting[u].fs # fs
      BY <2>1 DEF DfsUnmount
    <3>3. filesystem_table[fs].data # None
      BY <3>1, <3>2 DEF MountInv, TableRight, Fs, VolumeOf
    <3> QED BY <2>1, <3>3 DEF DfsUnmount
  <2>2. unmount_failed' = unmount_failed
    BY <2>1 DEF MountNext, mountvars, DfsMount, DfsMkfs, MountOpen, GetDisk, ElmSave, ElmMount,
                MountFails, MountClear, MkfsFormat, MkfsEnd
  <2> QED BY <2>2, MountStepInv DEF UnmountFindsFat
<1> QED BY <1>1, <1>2, PTL DEF MountSpec

-----------------------------------------------------------------------------
(* File descriptors *)

OwnerPlaces == {"get", "lookup", "path", "open", "put", "fail", "close", "free", "closed", "kept"}
EarlyPlaces == {"get", "lookup", "path", "open"}
KeptPlaces == {"put", "close", "kept"}

FdEntry == [ref_count : Nat, magic : BOOLEAN, fs : BOOLEAN,
            path : {NoFile} \cup {Stored(x) : x \in File}, data : {NoFile} \cup File]

FdCall == [at : {"run", "get", "lookup", "path", "open", "put", "fail", "read", "done", "close",
                 "free", "closed", "kept", "unlink"},
           fd : {NoFile} \cup Fd, file : {NoFile} \cup File]

Complete(e) == e.fs = TRUE /\ e.data \in File /\ e.path = Stored(e.data)

\* What a call relies on in its entry.
Fits(c, e) ==
  /\ c.at \in {"get", "lookup", "path", "open", "put"} => c.file \in File
  /\ c.at \in {"get", "lookup", "path", "fail", "closed"} => e.path = NoFile
  /\ c.at \in {"path", "open"} => e.fs = TRUE
  /\ c.at = "open" => e.path = Stored(c.file)
  /\ c.at \in KeptPlaces => Complete(e)
  /\ c.at = "free" => e.path # NoFile
  /\ c.at \in {"read", "done"} => e.data = c.file

Owns(t) == file_call[t].at \in OwnerPlaces

FileTypes ==
  /\ fd_table \in [Fd -> FdEntry] /\ file_call \in [FileUser -> FdCall]
  /\ opened \subseteq Fd /\ strings \in Nat /\ files \in Nat

CallsRight ==
  \A t \in FileUser :
    /\ file_call[t].at = "run" => file_call[t] = NoCall
    /\ file_call[t].at = "unlink" => FdOf(t) = NoFile
    /\ file_call[t].at \in OwnerPlaces \cup {"read", "done"} => FdOf(t) \in Fd
    /\ FdOf(t) \in Fd => Fits(file_call[t], fd_table[FdOf(t)])

\* The call that opens or closes an entry is the only such call, and nobody
\* knows the descriptor; before the file system has opened the file it is the
\* only call there is.
OwnersRight ==
  \A t \in FileUser :
    /\ Owns(t) => FdOf(t) \notin opened
    /\ \A u \in FileUser : Owns(t) /\ Owns(u) /\ FdOf(u) = FdOf(t) => u = t
    /\ \A u \in FileUser : file_call[t].at \in EarlyPlaces /\ FdOf(u) = FdOf(t) => u = t

EntryCount(f) ==
  /\ IsFiniteSet(Getters(f))
  /\ fd_table[f].ref_count = Cardinality(Getters(f)) + (IF Descriptor(f) THEN 1 ELSE 0)

EntryRight(f) ==
  /\ fd_table[f].ref_count = 0 => fd_table[f] = Clear
  /\ f \in opened => Complete(fd_table[f])
  /\ ~Descriptor(f) => fd_table[f].path = NoFile

Named == {f \in Fd : fd_table[f].path # NoFile}

InFileSystem(f) ==
  f \in opened \/ \E t \in FileUser : FdOf(t) = f /\ file_call[t].at \in KeptPlaces

Kept == {f \in Fd : InFileSystem(f)}

FileInv ==
  /\ FileTypes /\ CallsRight /\ OwnersRight
  /\ \A f \in Fd : EntryCount(f) /\ EntryRight(f)
  /\ strings = Cardinality(Named) /\ files = Cardinality(Kept)

LEMMA FileFacts ==
  /\ NoFile \notin Fd /\ NoFile \notin File
  /\ \A file \in File : Stored(file) # NoFile
  /\ "run" \notin OwnerPlaces /\ "read" \notin OwnerPlaces /\ "done" \notin OwnerPlaces
  /\ "unlink" \notin OwnerPlaces
  /\ KeptPlaces \subseteq OwnerPlaces /\ EarlyPlaces \subseteq OwnerPlaces
  /\ \A x \in KeptPlaces : x \notin EarlyPlaces
BY FileTableType DEF Fd, OwnerPlaces, KeptPlaces, EarlyPlaces

\* A set that gains or loses one element.
LEMMA CardinalityStep ==
  ASSUME NEW A, NEW B, NEW x, IsFiniteSet(A), B \ {x} = A \ {x}
  PROVE  /\ IsFiniteSet(B) /\ Cardinality(A) \in Nat
         /\ Cardinality(B) = Cardinality(A) + (IF x \in B THEN 1 ELSE 0)
                                            - (IF x \in A THEN 1 ELSE 0)
<1> DEFINE C == A \ {x}
<1>1. IsFiniteSet(C) /\ Cardinality(C) \in Nat /\ x \notin C
  BY FS_RemoveElement, FS_CardinalityType
<1>2. A = IF x \in A THEN C \cup {x} ELSE C
  OBVIOUS
<1>3. B = IF x \in B THEN C \cup {x} ELSE C
  OBVIOUS
<1>4. IsFiniteSet(C \cup {x}) /\ Cardinality(C \cup {x}) = Cardinality(C) + 1
  BY <1>1, FS_AddElement
<1> HIDE DEF C
<1> QED BY <1>1, <1>2, <1>3, <1>4

LEMMA FdIsFinite == ASSUME NEW A, A \subseteq Fd PROVE IsFiniteSet(A)
<1>1. IsFiniteSet(Fd)
  BY FS_Interval, FileTableType DEF Fd
<1> QED BY <1>1, FS_Subset

\* FileInv has what is promised of the descriptors.
LEMMA FileInvImplies ==
  ASSUME FileInv
  PROVE  /\ ReferencesCounted /\ EntryIsNotReused /\ NothingLeaks
         /\ ~FullPath => OpenFileIsFound
<1>1. ReferencesCounted
  BY DEF FileInv, EntryCount, ReferencesCounted
<1>2. EntryIsNotReused
  <2> SUFFICES ASSUME NEW t \in FileUser, file_call[t].at \in {"read", "done"}
               PROVE  /\ fd_table[FdOf(t)].data = file_call[t].file
                      /\ \A u \in FileUser : FdOf(u) = FdOf(t) => ~InCall(u, "get")
    BY DEF EntryIsNotReused
  <2>1. Fits(file_call[t], fd_table[FdOf(t)])
    BY DEF FileInv, CallsRight
  <2>2. \A u \in FileUser : FdOf(u) = FdOf(t) /\ InCall(u, "get") => u = t
    BY DEF FileInv, OwnersRight, EarlyPlaces, InCall
  <2> QED BY <2>1, <2>2 DEF Fits, InCall
<1>3. NothingLeaks
  <2>1. strings = Cardinality({f \in Fd : fd_table[f].path # NoFile})
    BY DEF FileInv, Named
  <2>2. ASSUME \A t \in FileUser : InCall(t, "run")
        PROVE  files = Cardinality(opened) /\ \A f \in Fd \ opened : fd_table[f] = Clear
    <3>1. \A t \in FileUser : FdOf(t) \notin Fd /\ file_call[t].at = "run"
      BY <2>2, FileFacts DEF FileInv, CallsRight, InCall, NoCall, FdOf
    <3>2. Kept = opened
      BY <3>1, FileFacts DEF FileInv, FileTypes, Kept, InFileSystem
    <3>3. ASSUME NEW f \in Fd \ opened
          PROVE  fd_table[f] = Clear
      <4>1. Getters(f) = {} /\ ~Descriptor(f)
        BY <3>1 DEF Getters, Descriptor
      <4>2. fd_table[f].ref_count = 0
        BY <4>1, FS_EmptySet DEF FileInv, EntryCount
      <4> QED BY <4>2 DEF FileInv, EntryRight
    <3> QED BY <3>2, <3>3 DEF FileInv
  <2> QED BY <2>1, <2>2 DEF NothingLeaks
<1>4. ASSUME ~FullPath
      PROVE  OpenFileIsFound
  <2>1. \A f \in opened : Complete(fd_table[f]) /\ f \in Fd
    BY DEF FileInv, FileTypes, EntryRight
  <2>2. \A file : Stored(file) = Compared(file)
    BY <1>4 DEF Stored, Compared
  <2> QED BY <2>1, <2>2 DEF OpenFileIsFound, fd_is_open, Complete
<1> QED BY <1>1, <1>2, <1>3, <1>4

LEMMA FileInitInv == DfsInit => FileInv
<1> SUFFICES ASSUME DfsInit PROVE FileInv
  OBVIOUS
<1>1. /\ \A t \in FileUser : file_call[t] = NoCall /\ file_call[t].at = "run" /\ FdOf(t) = NoFile
      /\ \A f \in Fd : fd_table[f] = Clear /\ fd_table[f].path = NoFile
                       /\ fd_table[f].ref_count = 0
      /\ opened = {}
  BY DEF DfsInit, NoCall, Clear, FdOf
<1>2. FileTypes
  BY DEF DfsInit, FileTypes, NoCall, Clear, FdEntry, FdCall
<1>3. CallsRight /\ OwnersRight
  BY <1>1, FileFacts DEF CallsRight, OwnersRight, Owns
<1>4. ASSUME NEW f \in Fd
      PROVE  EntryCount(f) /\ EntryRight(f)
  <2>1. Getters(f) = {} /\ ~Descriptor(f)
    BY <1>1, FileFacts DEF Getters, Descriptor
  <2> QED BY <1>1, <2>1, FS_EmptySet DEF EntryCount, EntryRight
<1>5. Named = {} /\ Kept = {}
  BY <1>1, FileFacts DEF Named, Kept, InFileSystem
<1> QED BY <1>2, <1>3, <1>4, <1>5, FS_EmptySet DEF FileInv, DfsInit

(* A step of one thread, whose call becomes c, on one entry, which becomes e. *)
StepOn(t, c, f, e) ==
  /\ file_call' = [file_call EXCEPT ![t] = c]
  /\ fd_table' = [fd_table EXCEPT ![f] = e]
  /\ opened' \subseteq Fd /\ opened' \ {f} = opened \ {f}
  /\ FdOf(t) \in {f, NoFile} /\ c.fd \in {f, NoFile}
  /\ c.at = "run" => c = NoCall
  /\ c.at = "unlink" => c.fd = NoFile
  /\ c.at \in OwnerPlaces \cup {"read", "done"} => c.fd = f
  /\ c.fd = f => Fits(c, e)
  /\ \A u \in FileUser \ {t} : FdOf(u) = f => Fits(file_call[u], e)
  /\ c.at \in OwnerPlaces => f \notin opened'
  /\ \A u \in FileUser \ {t} : FdOf(u) = f /\ Owns(u) =>
       f \notin opened' /\ c.at \notin OwnerPlaces
  /\ \A u \in FileUser \ {t} : FdOf(u) = f /\ c.fd = f =>
       c.at \notin EarlyPlaces /\ file_call[u].at \notin EarlyPlaces
  /\ e.ref_count = 0 => e = Clear
  /\ f \in opened' => Complete(e)
  /\ ~Descriptor(f)' => e.path = NoFile

\* What a step adds to the references, the path names and the open files.
Counts(t, f, e) ==
  /\ e.ref_count + (IF t \in Getters(f) THEN 1 ELSE 0) + (IF Descriptor(f) THEN 1 ELSE 0) =
       fd_table[f].ref_count + (IF t \in Getters(f)' THEN 1 ELSE 0)
                             + (IF Descriptor(f)' THEN 1 ELSE 0)
  /\ strings' \in Int /\ files' \in Int
  /\ strings' + (IF fd_table[f].path # NoFile THEN 1 ELSE 0) =
       strings + (IF e.path # NoFile THEN 1 ELSE 0)
  /\ files' + (IF InFileSystem(f) THEN 1 ELSE 0) = files + (IF InFileSystem(f)' THEN 1 ELSE 0)

LEMMA FileStep ==
  ASSUME FileInv, NEW t \in FileUser, NEW c \in FdCall, NEW f \in Fd, NEW e \in FdEntry,
         StepOn(t, c, f, e), Counts(t, f, e)
  PROVE  FileInv'
<1> USE DEF StepOn, Counts
<1>1. /\ \A u \in FileUser \ {t} : file_call'[u] = file_call[u] /\ FdOf(u)' = FdOf(u)
                                   /\ (Owns(u)' <=> Owns(u))
      /\ file_call'[t] = c /\ FdOf(t)' = c.fd /\ (Owns(t)' <=> c.at \in OwnerPlaces)
      /\ \A g \in Fd \ {f} : fd_table'[g] = fd_table[g] /\ (g \in opened' <=> g \in opened)
      /\ fd_table'[f] = e
  BY DEF FileInv, FileTypes, FdOf, Owns
<1>2. \A g \in Fd \ {f} : FdOf(t) # g /\ FdOf(t)' # g
  BY <1>1, FileFacts
<1>3. \A g \in Fd \ {f} : /\ Getters(g)' = Getters(g)
                          /\ Descriptor(g)' = Descriptor(g)
                          /\ InFileSystem(g)' = InFileSystem(g)
  <2> SUFFICES ASSUME NEW g \in Fd \ {f}
               PROVE  /\ Getters(g)' = Getters(g)
                      /\ Descriptor(g)' = Descriptor(g)
                      /\ InFileSystem(g)' = InFileSystem(g)
    OBVIOUS
  <2>1. Getters(g)' = Getters(g)
    BY <1>1, <1>2 DEF Getters, InCall
  <2>2. Descriptor(g)' = Descriptor(g)
    BY <1>1, <1>2 DEF Descriptor
  <2>3. InFileSystem(g)' = InFileSystem(g)
    BY <1>1, <1>2 DEF InFileSystem
  <2> QED BY <2>1, <2>2, <2>3
<1>4. CallsRight'
  <2> SUFFICES ASSUME NEW u \in FileUser
               PROVE  (/\ file_call[u].at = "run" => file_call[u] = NoCall
                       /\ file_call[u].at = "unlink" => FdOf(u) = NoFile
                       /\ file_call[u].at \in OwnerPlaces \cup {"read", "done"} => FdOf(u) \in Fd
                       /\ FdOf(u) \in Fd => Fits(file_call[u], fd_table[FdOf(u)]))'
    BY DEF CallsRight
  <2>1. CASE u = t
    BY <1>1, <2>1, FileFacts
  <2>2. CASE u # t
    <3>1. /\ file_call[u].at = "run" => file_call[u] = NoCall
          /\ file_call[u].at = "unlink" => FdOf(u) = NoFile
          /\ file_call[u].at \in OwnerPlaces \cup {"read", "done"} => FdOf(u) \in Fd
          /\ FdOf(u) \in Fd => Fits(file_call[u], fd_table[FdOf(u)])
      BY DEF FileInv, CallsRight
    <3>2. CASE FdOf(u) = f
      BY <1>1, <2>2, <3>1, <3>2
    <3>3. CASE FdOf(u) # f
      <4>1. FdOf(u) \in Fd => fd_table'[FdOf(u)] = fd_table[FdOf(u)]
        BY <1>1, <3>3
      <4> QED BY <1>1, <2>2, <3>1, <4>1
    <3> QED BY <3>2, <3>3
  <2> QED BY <2>1, <2>2
<1>5. OwnersRight'
  <2>1. \A u \in FileUser : Owns(u) => FdOf(u) \in Fd
    BY DEF FileInv, CallsRight, Owns
  <2>2. \A u \in FileUser : Owns(u)' => FdOf(u)' \notin opened'
    <3> SUFFICES ASSUME NEW u \in FileUser, Owns(u)' PROVE FdOf(u)' \notin opened'
      OBVIOUS
    <3>1. CASE u = t
      BY <1>1, <3>1
    <3>2. CASE u # t
      <4>1. Owns(u) /\ FdOf(u)' = FdOf(u) /\ FdOf(u) \notin opened
        BY <1>1, <3>2 DEF FileInv, OwnersRight
      <4> QED BY <3>2, <4>1
    <3> QED BY <3>1, <3>2
  <2>3. \A u, w \in FileUser : Owns(u)' /\ Owns(w)' /\ FdOf(u)' = FdOf(w)' => u = w
    <3>1. \A u, w \in FileUser : Owns(u) /\ Owns(w) /\ FdOf(u) = FdOf(w) => u = w
      BY DEF FileInv, OwnersRight
    <3>2. \A u \in FileUser \ {t} : ~(Owns(u)' /\ Owns(t)' /\ FdOf(u)' = FdOf(t)')
      BY <1>1
    <3> QED BY <1>1, <3>1, <3>2
  <2>4. \A u, w \in FileUser :
          file_call'[u].at \in EarlyPlaces /\ FdOf(w)' = FdOf(u)' => w = u
    <3>1. \A u, w \in FileUser :
            file_call[u].at \in EarlyPlaces /\ FdOf(w) = FdOf(u) => w = u
      BY DEF FileInv, OwnersRight
    <3>2. \A u \in FileUser : file_call'[u].at \in EarlyPlaces => FdOf(u)' \in Fd
      BY <1>1, <2>1, FileFacts DEF Owns
    <3>3. \A u \in FileUser \ {t} : FdOf(u)' = FdOf(t)' /\ FdOf(u)' \in Fd =>
            FdOf(u) = f /\ c.fd = f
      BY <1>1, FileFacts
    <3>4. \A u \in FileUser \ {t} : FdOf(u)' = FdOf(t)' /\ FdOf(u)' \in Fd =>
            file_call'[u].at \notin EarlyPlaces /\ file_call'[t].at \notin EarlyPlaces
      BY <1>1, <3>3
    <3> QED BY <1>1, <3>1, <3>2, <3>4
  <2> QED BY <2>2, <2>3, <2>4 DEF OwnersRight
<1>6. FileTypes' \/ strings' \notin Nat \/ files' \notin Nat
  BY DEF FileInv, FileTypes
<1>7. ASSUME NEW g \in Fd
      PROVE  EntryCount(g)' /\ EntryRight(g)'
  <2>1. CASE g # f
    <3>1. EntryCount(g) /\ EntryRight(g)
      BY DEF FileInv
    <3> QED BY <1>1, <1>3, <2>1, <3>1 DEF EntryCount, EntryRight
  <2>2. CASE g = f
    <3>1. EntryCount(f) /\ fd_table[f].ref_count \in Nat /\ e.ref_count \in Nat
      BY DEF FileInv, FileTypes, FdEntry
    <3>2. Getters(f)' \ {t} = Getters(f) \ {t}
      BY <1>1 DEF Getters, InCall
    <3>3. /\ IsFiniteSet(Getters(f)') /\ Cardinality(Getters(f)) \in Nat
          /\ Cardinality(Getters(f)') = Cardinality(Getters(f)) + (IF t \in Getters(f)' THEN 1 ELSE 0)
                                            - (IF t \in Getters(f) THEN 1 ELSE 0)
      BY <3>1, <3>2, CardinalityStep DEF EntryCount
    <3>4. e.ref_count = Cardinality(Getters(f)') + (IF Descriptor(f)' THEN 1 ELSE 0)
      BY <3>1, <3>3 DEF EntryCount
    <3>5. EntryCount(f)'
      BY <1>1, <3>3, <3>4 DEF EntryCount
    <3>6. EntryRight(f)'
      BY <1>1 DEF EntryRight
    <3> QED BY <2>2, <3>5, <3>6
  <2> QED BY <2>1, <2>2
<1>8. strings' = Cardinality(Named') /\ strings' \in Nat
  <2>1. IsFiniteSet(Named) /\ IsFiniteSet(Named')
    BY FdIsFinite DEF Named
  <2>2. Named' \ {f} = Named \ {f}
    BY <1>1 DEF Named
  <2>3. /\ f \in Named <=> fd_table[f].path # NoFile
        /\ f \in Named' <=> e.path # NoFile
    BY <1>1 DEF Named
  <2>4. /\ Cardinality(Named) \in Nat
        /\ Cardinality(Named') = Cardinality(Named) + (IF f \in Named' THEN 1 ELSE 0)
                                            - (IF f \in Named THEN 1 ELSE 0)
    BY <2>1, <2>2, CardinalityStep
  <2>5. Cardinality(Named') \in Nat
    BY <2>1, FS_CardinalityType
  <2>6. /\ (IF fd_table[f].path # NoFile THEN 1 ELSE 0) = (IF f \in Named THEN 1 ELSE 0)
        /\ (IF e.path # NoFile THEN 1 ELSE 0) = (IF f \in Named' THEN 1 ELSE 0)
    BY <2>3
  <2>7. strings' + (IF f \in Named THEN 1 ELSE 0) = strings + (IF f \in Named' THEN 1 ELSE 0)
    BY <2>6
  <2>8. strings = Cardinality(Named)
    BY DEF FileInv
  <2> QED BY <2>4, <2>5, <2>7, <2>8
<1>9. files' = Cardinality(Kept') /\ files' \in Nat
  <2>1. IsFiniteSet(Kept) /\ IsFiniteSet(Kept')
    BY FdIsFinite DEF Kept
  <2>2. Kept' \ {f} = Kept \ {f}
    BY <1>3 DEF Kept
  <2>3. /\ f \in Kept <=> InFileSystem(f)
        /\ f \in Kept' <=> InFileSystem(f)'
    BY DEF Kept
  <2>4. /\ Cardinality(Kept) \in Nat
        /\ Cardinality(Kept') = Cardinality(Kept) + (IF f \in Kept' THEN 1 ELSE 0)
                                            - (IF f \in Kept THEN 1 ELSE 0)
    BY <2>1, <2>2, CardinalityStep
  <2>5. Cardinality(Kept') \in Nat
    BY <2>1, FS_CardinalityType
  <2>6. /\ (IF InFileSystem(f) THEN 1 ELSE 0) = (IF f \in Kept THEN 1 ELSE 0)
        /\ (IF InFileSystem(f)' THEN 1 ELSE 0) = (IF f \in Kept' THEN 1 ELSE 0)
    BY <2>3
  <2>7. files' + (IF f \in Kept THEN 1 ELSE 0) = files + (IF f \in Kept' THEN 1 ELSE 0)
    BY <2>6
  <2>8. files = Cardinality(Kept)
    BY DEF FileInv
  <2> QED BY <2>4, <2>5, <2>7, <2>8
<1> QED BY <1>4, <1>5, <1>6, <1>7, <1>8, <1>9 DEF FileInv

(* What a step of one thread makes of the calls on an entry. *)
OtherOwner(t, f) == \E u \in FileUser \ {t} : FdOf(u) = f /\ Owns(u)

OtherKeeps(t, f) == \E u \in FileUser \ {t} : FdOf(u) = f /\ file_call[u].at \in KeptPlaces

StepIs(t, c, f) ==
  /\ Descriptor(f) <=> f \in opened \/ OtherOwner(t, f) \/ (FdOf(t) = f /\ Owns(t))
  /\ Descriptor(f)' <=> f \in opened' \/ OtherOwner(t, f) \/ (c.fd = f /\ c.at \in OwnerPlaces)
  /\ InFileSystem(f) <=> f \in opened \/ OtherKeeps(t, f)
                         \/ (FdOf(t) = f /\ file_call[t].at \in KeptPlaces)
  /\ InFileSystem(f)' <=> f \in opened' \/ OtherKeeps(t, f)
                          \/ (c.fd = f /\ c.at \in KeptPlaces)
  /\ t \in Getters(f) <=> FdOf(t) = f /\ file_call[t].at \notin {"get", "closed"}
  /\ t \in Getters(f)' <=> c.fd = f /\ c.at \notin {"get", "closed"}
  /\ OtherKeeps(t, f) => OtherOwner(t, f)
  /\ f \in opened => ~OtherOwner(t, f) /\ ~(FdOf(t) = f /\ Owns(t))
  /\ FdOf(t) = f /\ Owns(t) => ~OtherOwner(t, f)

LEMMA StepEffects ==
  ASSUME FileInv, NEW t \in FileUser, NEW c, NEW f \in Fd,
         file_call' = [file_call EXCEPT ![t] = c]
  PROVE  StepIs(t, c, f)
<1>1. /\ \A u \in FileUser \ {t} : file_call'[u] = file_call[u] /\ FdOf(u)' = FdOf(u)
      /\ file_call'[t] = c /\ FdOf(t)' = c.fd
  BY DEF FileInv, FileTypes, FdOf
<1>2. Descriptor(f) <=> f \in opened \/ OtherOwner(t, f) \/ (FdOf(t) = f /\ Owns(t))
  BY DEF Descriptor, OtherOwner, Owns, OwnerPlaces
<1>3. Descriptor(f)' <=> f \in opened' \/ OtherOwner(t, f) \/ (c.fd = f /\ c.at \in OwnerPlaces)
  <2>1. Descriptor(f)' <=>
          f \in opened' \/ \E u \in FileUser : FdOf(u)' = f /\ file_call'[u].at \in OwnerPlaces
    BY DEF Descriptor, OwnerPlaces
  <2> QED BY <1>1, <2>1 DEF OtherOwner, Owns
<1>4. InFileSystem(f) <=> f \in opened \/ OtherKeeps(t, f)
                          \/ (FdOf(t) = f /\ file_call[t].at \in KeptPlaces)
  BY DEF InFileSystem, OtherKeeps
<1>5. InFileSystem(f)' <=> f \in opened' \/ OtherKeeps(t, f)
                           \/ (c.fd = f /\ c.at \in KeptPlaces)
  BY <1>1 DEF InFileSystem, OtherKeeps
<1>6. t \in Getters(f) <=> FdOf(t) = f /\ file_call[t].at \notin {"get", "closed"}
  BY DEF Getters, InCall
<1>7. t \in Getters(f)' <=> c.fd = f /\ c.at \notin {"get", "closed"}
  BY <1>1 DEF Getters, InCall
<1>8. OtherKeeps(t, f) => OtherOwner(t, f)
  BY FileFacts DEF OtherKeeps, OtherOwner, Owns
<1>9. /\ f \in opened => ~OtherOwner(t, f) /\ ~(FdOf(t) = f /\ Owns(t))
      /\ FdOf(t) = f /\ Owns(t) => ~OtherOwner(t, f)
  BY DEF FileInv, OwnersRight, OtherOwner
<1> QED BY <1>2, <1>3, <1>4, <1>5, <1>6, <1>7, <1>8, <1>9 DEF StepIs

(* fd_put: the last reference is that of the thread alone. *)
LEMMA PutEffect ==
  ASSUME NEW e \in FdEntry, e.ref_count >= 1
  PROVE  /\ Put(e) \in FdEntry /\ Put(e).ref_count = e.ref_count - 1
         /\ e.ref_count = 1 => Put(e) = Clear
         /\ e.ref_count # 1 => Put(e).fs = e.fs /\ Put(e).path = e.path /\ Put(e).data = e.data
         /\ Put(e).ref_count = 0 => Put(e) = Clear
<1>1. CASE e.ref_count = 1
  BY <1>1 DEF Put, Clear, FdEntry
<1>2. CASE e.ref_count # 1
  BY <1>2 DEF Put, FdEntry
<1> QED BY <1>1, <1>2

LEMMA LastReference ==
  ASSUME FileInv, NEW t \in FileUser, NEW f \in Fd, FdOf(t) = f
  PROVE  /\ fd_table[f] \in FdEntry /\ fd_table[f].ref_count >= 1
         /\ fd_table[f].ref_count = 1 => f \notin opened /\ \A u \in FileUser \ {t} : FdOf(u) # f
         /\ Descriptor(f) /\ file_call[t].at \notin {"get", "closed"} => fd_table[f].ref_count # 1
<1> DEFINE n == Cardinality(Getters(f))
<1>1. /\ fd_table[f] \in FdEntry /\ IsFiniteSet(Getters(f))
      /\ n \in Nat
      /\ fd_table[f].ref_count = n + (IF Descriptor(f) THEN 1 ELSE 0)
  BY FS_CardinalityType DEF FileInv, FileTypes, EntryCount
<1>2. /\ n = 0 <=> Getters(f) = {}
      /\ \A x, y \in Getters(f) : x # y => n >= 2
  <2>1. n = 0 <=> Getters(f) = {}
    BY <1>1, FS_EmptySet
  <2>2. ASSUME NEW x \in Getters(f), NEW y \in Getters(f), x # y
        PROVE  n # 1
    BY <1>1, <2>2, FS_Singleton
  <2> HIDE DEF n
  <2> QED BY <1>1, <2>1, <2>2
<1>3. \A u \in FileUser : FdOf(u) = f => u \in Getters(f) \/ (Owns(u) /\ Descriptor(f))
  BY DEF Getters, InCall, Owns, OwnerPlaces, Descriptor
<1>4. t \in Getters(f) <=> file_call[t].at \notin {"get", "closed"}
  BY DEF Getters, InCall
<1>5. t \notin Getters(f) => Owns(t) /\ Descriptor(f)
  BY <1>3
<1>6. f \in opened => Descriptor(f) /\ ~Owns(t)
  BY DEF FileInv, OwnersRight, Descriptor
<1>7. ASSUME NEW u \in FileUser \ {t}, FdOf(u) = f, fd_table[f].ref_count = 1
      PROVE  FALSE
  <2>1. ~(Owns(t) /\ Owns(u))
    BY <1>7 DEF FileInv, OwnersRight
  <2> HIDE DEF n
  <2> QED BY <1>1, <1>2, <1>3, <1>7, <2>1
<1> HIDE DEF n
<1>8. fd_table[f].ref_count >= 1
  BY <1>1, <1>2, <1>3
<1>9. f \in opened => fd_table[f].ref_count # 1
  BY <1>1, <1>2, <1>3, <1>6
<1>10. Descriptor(f) /\ t \in Getters(f) => fd_table[f].ref_count # 1
  BY <1>1, <1>2
<1> QED BY <1>1, <1>4, <1>7, <1>8, <1>9, <1>10

(* A thread that opens or closes an entry goes on. *)
LEMMA OwnerStays ==
  ASSUME FileInv, NEW t \in FileUser, NEW place \in OwnerPlaces \ {"get", "closed"}, NEW e \in FdEntry,
         Owns(t), file_call[t].at \notin {"get", "closed"},
         place \in EarlyPlaces => file_call[t].at \in EarlyPlaces,
         CallGoes(t, place),
         fd_table' = [fd_table EXCEPT ![FdOf(t)] = e],
         e.ref_count = fd_table[FdOf(t)].ref_count, opened' = opened,
         file_call[t].at \in EarlyPlaces \/ e = fd_table[FdOf(t)],
         Fits([at |-> place, fd |-> FdOf(t), file |-> file_call[t].file], e),
         strings' \in Int, files' \in Int,
         strings' + (IF fd_table[FdOf(t)].path # NoFile THEN 1 ELSE 0) =
           strings + (IF e.path # NoFile THEN 1 ELSE 0),
         files' + (IF file_call[t].at \in KeptPlaces THEN 1 ELSE 0) =
           files + (IF place \in KeptPlaces THEN 1 ELSE 0)
  PROVE  FileInv'
<1> PICK f \in Fd : f = FdOf(t)
  BY DEF FileInv, CallsRight, Owns
<1> PICK c \in FdCall : c = [at |-> place, fd |-> f, file |-> file_call[t].file]
  BY DEF FileInv, FileTypes, FdCall, OwnerPlaces
<1>1. /\ file_call' = [file_call EXCEPT ![t] = c]
      /\ c.at = place /\ c.fd = f
      /\ place \in OwnerPlaces /\ place \notin {"run", "unlink", "get", "closed"}
  <2>1. c.at = place /\ c.fd = f
    OBVIOUS
  <2>2. /\ file_call[t] \in FdCall /\ file_call \in [FileUser -> FdCall]
        /\ file_call[t].fd = f
    BY DEF FileInv, FileTypes, FdOf
  <2>3. [file_call[t] EXCEPT !.at = place] = c
    BY <2>2 DEF FdCall
  <2>4. file_call' = [file_call EXCEPT ![t] = c]
    BY <2>2, <2>3 DEF CallGoes
  <2> QED BY <2>1, <2>4, FileFacts
<1>2. /\ Descriptor(f) /\ Descriptor(f)' /\ t \in Getters(f) /\ t \in Getters(f)'
      /\ InFileSystem(f) <=> file_call[t].at \in KeptPlaces
      /\ InFileSystem(f)' <=> place \in KeptPlaces
      /\ f \notin opened
      /\ ~OtherOwner(t, f)
  <2>1. StepIs(t, c, f)
    BY <1>1, StepEffects
  <2>2. ~OtherOwner(t, f) /\ ~OtherKeeps(t, f) /\ f \notin opened /\ f \notin opened'
    BY <2>1 DEF StepIs
  <2>3. Descriptor(f) /\ Descriptor(f)'
    BY <1>1, <2>1 DEF StepIs
  <2>4. t \in Getters(f) /\ t \in Getters(f)'
    BY <1>1, <2>1 DEF StepIs
  <2>5. /\ InFileSystem(f) <=> file_call[t].at \in KeptPlaces
        /\ InFileSystem(f)' <=> place \in KeptPlaces
    BY <1>1, <2>1, <2>2 DEF StepIs
  <2> QED BY <2>2, <2>3, <2>4, <2>5
<1>3. e.ref_count # 0
  BY LastReference DEF FdEntry
<1>4. \A u \in FileUser \ {t} : FdOf(u) = f =>
        /\ ~Owns(u) /\ file_call[u].at \notin EarlyPlaces /\ file_call[t].at \notin EarlyPlaces
  BY <1>2, FileFacts DEF OtherOwner, FileInv, OwnersRight, Owns
<1>5. \A u \in FileUser \ {t} : FdOf(u) = f => Fits(file_call[u], e)
  BY <1>4 DEF FileInv, CallsRight
<1>6. e.ref_count + (IF t \in Getters(f) THEN 1 ELSE 0) + (IF Descriptor(f) THEN 1 ELSE 0) =
        fd_table[f].ref_count + (IF t \in Getters(f)' THEN 1 ELSE 0)
                              + (IF Descriptor(f)' THEN 1 ELSE 0)
  BY <1>2
<1>7. files' + (IF InFileSystem(f) THEN 1 ELSE 0) = files + (IF InFileSystem(f)' THEN 1 ELSE 0)
  BY <1>2
<1>8. /\ opened' \subseteq Fd /\ opened' \ {f} = opened \ {f}
      /\ FdOf(t) \in {f, NoFile} /\ c.fd \in {f, NoFile}
      /\ fd_table' = [fd_table EXCEPT ![f] = e]
      /\ strings' + (IF fd_table[f].path # NoFile THEN 1 ELSE 0) =
           strings + (IF e.path # NoFile THEN 1 ELSE 0)
      /\ Fits(c, e)
  BY <1>1 DEF FileInv, FileTypes
<1>9. /\ c.at = "run" => c = NoCall
      /\ c.at = "unlink" => c.fd = NoFile
      /\ c.at \in OwnerPlaces \cup {"read", "done"} => c.fd = f
      /\ c.at \in OwnerPlaces => f \notin opened'
      /\ e.ref_count = 0 => e = Clear
      /\ f \in opened' => Complete(e)
      /\ ~Descriptor(f)' => e.path = NoFile
  BY <1>1, <1>2, <1>3
<1>10. /\ \A u \in FileUser \ {t} : FdOf(u) = f /\ Owns(u) =>
            f \notin opened' /\ c.at \notin OwnerPlaces
       /\ \A u \in FileUser \ {t} : FdOf(u) = f /\ c.fd = f =>
            c.at \notin EarlyPlaces /\ file_call[u].at \notin EarlyPlaces
  BY <1>1, <1>4
<1>11. StepOn(t, c, f, e)
  BY <1>1, <1>5, <1>8, <1>9, <1>10 DEF StepOn
<1>12. Counts(t, f, e)
  BY <1>6, <1>7, <1>8 DEF Counts
<1> QED BY <1>11, <1>12, FileStep

\* Where a thread is in its call, and with which entry.
LEMMA OwnerAt ==
  ASSUME FileInv, NEW t \in FileUser, Owns(t)
  PROVE  /\ FdOf(t) \in Fd /\ fd_table[FdOf(t)] \in FdEntry
         /\ fd_table \in [Fd -> FdEntry]
         /\ Fits(file_call[t], fd_table[FdOf(t)])
         /\ strings \in Int /\ files \in Int /\ opened \subseteq Fd
         /\ file_call[t].file \in File \cup {NoFile}
BY DEF FileInv, FileTypes, CallsRight, Owns, FdCall

LEMMA OpenLookupKeepsInv ==
  ASSUME FileInv, NEW t \in FileUser, OpenLookup(t)
  PROVE  FileInv'
<1>1. /\ file_call[t].at = "lookup" /\ Owns(t) /\ "lookup" \in EarlyPlaces
      /\ "lookup" \notin KeptPlaces /\ "path" \notin KeptPlaces /\ "fail" \notin KeptPlaces
      /\ "path" \in EarlyPlaces /\ "path" \in OwnerPlaces /\ "fail" \in OwnerPlaces
      /\ "fail" \notin EarlyPlaces
      /\ opened' = opened /\ strings' = strings /\ files' = files
  BY DEF OpenLookup, InCall, Owns, OwnerPlaces, EarlyPlaces, KeptPlaces
<1> PICK f \in Fd : f = FdOf(t)
  BY <1>1, OwnerAt
<1> PICK e \in FdEntry : e = fd_table[f]
  BY <1>1, OwnerAt
<1>2. e.path = NoFile /\ file_call[t].file \in File
  BY <1>1, OwnerAt DEF Fits
<1>3. CASE fd_table' = [fd_table EXCEPT ![FdOf(t)].fs = TRUE] /\ CallGoes(t, "path")
  <2> PICK d : d = [e EXCEPT !.fs = TRUE]
    OBVIOUS
  <2>1. /\ d \in FdEntry /\ fd_table' = [fd_table EXCEPT ![f] = d]
        /\ d.path = NoFile /\ d.ref_count = e.ref_count /\ d.fs = TRUE
    BY <1>2, <1>3 DEF FdEntry
  <2>2. Fits([at |-> "path", fd |-> f, file |-> file_call[t].file], d)
    BY <1>2, <2>1 DEF Fits, KeptPlaces
  <2> QED BY <1>1, <1>2, <1>3, <2>1, <2>2, OwnerAt, OwnerStays
<1>4. CASE CallGoes(t, "fail") /\ UNCHANGED fd_table
  <2>1. fd_table' = [fd_table EXCEPT ![f] = e]
    BY <1>4, OwnerAt, <1>1
  <2>2. Fits([at |-> "fail", fd |-> f, file |-> file_call[t].file], e)
    BY <1>2 DEF Fits, KeptPlaces
  <2> QED BY <1>1, <1>2, <1>4, <2>1, <2>2, OwnerAt, OwnerStays
<1> QED BY <1>3, <1>4 DEF OpenLookup

LEMMA OpenPathKeepsInv ==
  ASSUME FileInv, NEW t \in FileUser, OpenPath(t)
  PROVE  FileInv'
<1>1. /\ file_call[t].at = "path" /\ Owns(t) /\ "path" \in EarlyPlaces
      /\ "path" \notin KeptPlaces /\ "open" \notin KeptPlaces
      /\ "open" \in EarlyPlaces /\ "open" \in OwnerPlaces
      /\ opened' = opened /\ strings' = strings + 1 /\ files' = files
      /\ CallGoes(t, "open")
  BY DEF OpenPath, InCall, Owns, OwnerPlaces, EarlyPlaces, KeptPlaces
<1> PICK f \in Fd : f = FdOf(t)
  BY <1>1, OwnerAt
<1> PICK e \in FdEntry : e = fd_table[f]
  BY <1>1, OwnerAt
<1>2. e.path = NoFile /\ e.fs = TRUE /\ file_call[t].file \in File
  BY <1>1, OwnerAt DEF Fits
<1> PICK p : p = Stored(file_call[t].file)
  OBVIOUS
<1> PICK d : d = [e EXCEPT !.path = p]
  OBVIOUS
<1>3. p \in {Stored(x) : x \in File} /\ p # NoFile
  BY <1>2, FileFacts
<1>4. /\ d \in FdEntry /\ d.path = p /\ d.ref_count = e.ref_count /\ d.fs = TRUE
      /\ fd_table' = [fd_table EXCEPT ![f] = d]
  BY <1>2, <1>3 DEF FdEntry, OpenPath
<1>5. Fits([at |-> "open", fd |-> f, file |-> file_call[t].file], d)
  BY <1>2, <1>4 DEF Fits, KeptPlaces
<1>6. strings' \in Int /\ files' \in Int
  BY <1>1, OwnerAt
<1>7. strings' + (IF e.path # NoFile THEN 1 ELSE 0) = strings + (IF d.path # NoFile THEN 1 ELSE 0)
  BY <1>1, <1>2, <1>3, <1>4, OwnerAt
<1> QED BY <1>1, <1>4, <1>5, <1>6, <1>7, OwnerStays

LEMMA OpenFileKeepsInv ==
  ASSUME FileInv, NEW t \in FileUser, OpenFile(t)
  PROVE  FileInv'
<1>1. /\ file_call[t].at = "open" /\ Owns(t) /\ "open" \in EarlyPlaces
      /\ "open" \notin KeptPlaces /\ "put" \in KeptPlaces /\ "fail" \notin KeptPlaces
      /\ "put" \in OwnerPlaces /\ "fail" \in OwnerPlaces
      /\ "put" \notin EarlyPlaces /\ "fail" \notin EarlyPlaces
      /\ opened' = opened
  BY DEF OpenFile, InCall, Owns, OwnerPlaces, EarlyPlaces, KeptPlaces
<1> PICK f \in Fd : f = FdOf(t)
  BY <1>1, OwnerAt
<1> PICK e \in FdEntry : e = fd_table[f]
  BY <1>1, OwnerAt
<1>2. e.path = Stored(file_call[t].file) /\ e.path # NoFile /\ e.fs = TRUE /\ file_call[t].file \in File
  BY <1>1, OwnerAt, FileFacts DEF Fits
<1>3. CASE /\ fd_table' = [fd_table EXCEPT ![FdOf(t)].data = file_call[t].file]
           /\ files' = files + 1
           /\ CallGoes(t, "put")
           /\ UNCHANGED strings
  <2> PICK d : d = [e EXCEPT !.data = file_call[t].file]
    OBVIOUS
  <2>1. /\ d \in FdEntry /\ fd_table' = [fd_table EXCEPT ![f] = d]
        /\ d.path = e.path /\ d.ref_count = e.ref_count /\ d.fs = TRUE /\ d.data = file_call[t].file
    BY <1>2, <1>3 DEF FdEntry
  <2>2. Fits([at |-> "put", fd |-> f, file |-> file_call[t].file], d)
    BY <1>2, <2>1 DEF Fits, KeptPlaces, Complete
  <2>3. strings' \in Int /\ files' \in Int /\ strings' = strings
    BY <1>1, <1>3, OwnerAt
  <2>4. files' + (IF file_call[t].at \in KeptPlaces THEN 1 ELSE 0) =
          files + (IF "put" \in KeptPlaces THEN 1 ELSE 0)
    BY <1>1, <1>3, OwnerAt
  <2>5. strings' + (IF e.path # NoFile THEN 1 ELSE 0) = strings + (IF d.path # NoFile THEN 1 ELSE 0)
    BY <2>1, <2>3
  <2> QED BY <1>1, <1>3, <2>1, <2>2, <2>3, <2>4, <2>5, OwnerStays, ZenonT(60)
<1>4. CASE /\ fd_table' = [fd_table EXCEPT ![FdOf(t)].path = NoFile]
           /\ strings' = strings - 1
           /\ CallGoes(t, "fail")
           /\ UNCHANGED files
  <2> PICK d : d = [e EXCEPT !.path = NoFile]
    OBVIOUS
  <2>1. /\ d \in FdEntry /\ fd_table' = [fd_table EXCEPT ![f] = d]
        /\ d.path = NoFile /\ d.ref_count = e.ref_count
    BY <1>2, <1>4 DEF FdEntry
  <2>2. Fits([at |-> "fail", fd |-> f, file |-> file_call[t].file], d)
    BY <2>1 DEF Fits, KeptPlaces
  <2>3. strings' \in Int /\ files' \in Int /\ files' = files
    BY <1>1, <1>4, OwnerAt
  <2>4. strings' + (IF e.path # NoFile THEN 1 ELSE 0) = strings + (IF d.path # NoFile THEN 1 ELSE 0)
    BY <1>1, <1>2, <1>4, <2>1, OwnerAt
  <2> QED BY <1>1, <1>4, <2>1, <2>2, <2>3, <2>4, OwnerStays
<1> QED BY <1>3, <1>4 DEF OpenFile

LEMMA OpendirClosesKeepsInv ==
  ASSUME FileInv, NEW t \in FileUser, OpendirCloses(t) \/ CloseFile(t)
  PROVE  FileInv'
<1>1. /\ file_call[t].at \in {"put", "close"} /\ Owns(t) /\ {"put", "close", "kept"} \subseteq KeptPlaces
      /\ "free" \notin KeptPlaces /\ "free" \in OwnerPlaces /\ "kept" \in OwnerPlaces
      /\ "free" \notin EarlyPlaces /\ "kept" \notin EarlyPlaces
      /\ opened' = opened /\ strings' = strings /\ fd_table' = fd_table
  BY DEF OpendirCloses, CloseFile, InCall, Owns, OwnerPlaces, EarlyPlaces, KeptPlaces
<1> PICK f \in Fd : f = FdOf(t)
  BY <1>1, OwnerAt
<1> PICK e \in FdEntry : e = fd_table[f]
  BY <1>1, OwnerAt
<1>2. Complete(e) /\ e.path # NoFile /\ fd_table' = [fd_table EXCEPT ![f] = e]
  BY <1>1, OwnerAt, FileFacts DEF Fits, Complete
<1>3. CASE files' = files - 1 /\ CallGoes(t, "free")
  <2>1. Fits([at |-> "free", fd |-> f, file |-> file_call[t].file], e)
    BY <1>2 DEF Fits, KeptPlaces
  <2>2. files' + (IF file_call[t].at \in KeptPlaces THEN 1 ELSE 0) =
          files + (IF "free" \in KeptPlaces THEN 1 ELSE 0)
    BY <1>1, <1>3, OwnerAt
  <2>3. strings' \in Int /\ files' \in Int
    BY <1>1, <1>3, OwnerAt
  <2> QED BY <1>1, <1>2, <1>3, <2>1, <2>2, <2>3, OwnerStays
<1>4. CASE files' = files /\ CallGoes(t, "kept")
  <2>1. Fits([at |-> "kept", fd |-> f, file |-> file_call[t].file], e)
    BY <1>2 DEF Fits, KeptPlaces
  <2>2. files' + (IF file_call[t].at \in KeptPlaces THEN 1 ELSE 0) =
          files + (IF "kept" \in KeptPlaces THEN 1 ELSE 0)
    BY <1>1, <1>4, OwnerAt
  <2>3. strings' \in Int /\ files' \in Int
    BY <1>1, <1>4, OwnerAt
  <2> QED BY <1>1, <1>2, <1>4, <2>1, <2>2, <2>3, OwnerStays
<1> QED BY <1>3, <1>4 DEF OpendirCloses, CloseFile

LEMMA FitsSame ==
  ASSUME NEW c, NEW d, NEW e, Fits(c, d), d.data = e.data,
         c.at \in OwnerPlaces => d.path = e.path /\ d.fs = e.fs
  PROVE  Fits(c, e)
BY DEF Fits, Complete, OwnerPlaces, KeptPlaces

(* The fd_put of a call that opens or closes the entry, and so is not the   *)
(* last one: the entry keeps what is in it, but for a path that is freed.   *)
LEMMA OwnerPuts ==
  ASSUME FileInv, NEW t \in FileUser, Owns(t), file_call[t].at \notin {"get", "closed"},
         file_call[t].at \notin EarlyPlaces,
         NEW e, e = [fd_table[FdOf(t)] EXCEPT !.ref_count = @ - 1]
                \/ e = [fd_table[FdOf(t)] EXCEPT !.ref_count = @ - 1, !.path = NoFile],
         fd_table' = [fd_table EXCEPT ![FdOf(t)] = e],
         \/ /\ CallGoes(t, "closed") /\ opened' = opened
            /\ e.path = NoFile /\ file_call[t].at \notin KeptPlaces
         \/ /\ Returns(t) /\ opened' = opened \cup {FdOf(t)}
            /\ Complete(e) /\ file_call[t].at \in KeptPlaces,
         files' = files, strings' \in Int,
         strings' + (IF fd_table[FdOf(t)].path # NoFile THEN 1 ELSE 0) =
           strings + (IF e.path # NoFile THEN 1 ELSE 0)
  PROVE  FileInv'
<1> PICK f \in Fd : f = FdOf(t)
  BY OwnerAt
<1> PICK b \in FdEntry : b = fd_table[f]
  BY OwnerAt
<1> PICK c : c = IF Returns(t) /\ file_call[t].at \in KeptPlaces THEN NoCall
                 ELSE [at |-> "closed", fd |-> f, file |-> file_call[t].file]
  OBVIOUS
<1>1. /\ c \in FdCall /\ file_call' = [file_call EXCEPT ![t] = c]
      /\ \/ c = NoCall /\ c.at = "run" /\ c.fd = NoFile /\ opened' = opened \cup {f} /\ Complete(e)
         \/ c.at = "closed" /\ c.fd = f /\ opened' = opened /\ e.path = NoFile
            /\ file_call[t].at \notin KeptPlaces
  <2>1. /\ file_call[t] \in FdCall /\ file_call \in [FileUser -> FdCall]
        /\ file_call[t].fd = f
    BY DEF FileInv, FileTypes, FdOf
  <2>2. CASE Returns(t) /\ file_call[t].at \in KeptPlaces
    BY <2>1, <2>2 DEF Returns, NoCall, FdCall
  <2>3. CASE ~(Returns(t) /\ file_call[t].at \in KeptPlaces)
    <3>1. /\ CallGoes(t, "closed") /\ opened' = opened
          /\ e.path = NoFile /\ file_call[t].at \notin KeptPlaces
      BY <2>3
    <3>2. c = [at |-> "closed", fd |-> f, file |-> file_call[t].file]
      BY <2>3
    <3>3. [file_call[t] EXCEPT !.at = "closed"] = c
      BY <2>1, <3>2 DEF FdCall
    <3>4. file_call' = [file_call EXCEPT ![t] = c]
      BY <2>1, <3>1, <3>3 DEF CallGoes
    <3>5. c \in FdCall
      BY <2>1, <3>2 DEF FdCall
    <3> QED BY <3>1, <3>2, <3>4, <3>5
  <2> QED BY <2>2, <2>3
<1>2. StepIs(t, c, f)
  BY <1>1, StepEffects
<1>3. /\ ~OtherOwner(t, f) /\ ~OtherKeeps(t, f) /\ f \notin opened /\ Descriptor(f)
      /\ Descriptor(f)' /\ t \in Getters(f) /\ t \notin Getters(f)'
      /\ InFileSystem(f) <=> file_call[t].at \in KeptPlaces
      /\ InFileSystem(f)' <=> c = NoCall
  <2>1. ~OtherOwner(t, f) /\ ~OtherKeeps(t, f) /\ f \notin opened /\ Descriptor(f)
        /\ t \in Getters(f)
    BY <1>2 DEF StepIs
  <2>2. Descriptor(f)' /\ t \notin Getters(f)'
    BY <1>1, <1>2, FileFacts DEF StepIs, OwnerPlaces
  <2>3. /\ InFileSystem(f) <=> file_call[t].at \in KeptPlaces
        /\ InFileSystem(f)' <=> c = NoCall
    BY <1>1, <1>2, <2>1, FileFacts DEF StepIs, KeptPlaces, NoCall
  <2> QED BY <2>1, <2>2, <2>3
<1>4. b.ref_count \in Nat /\ b.ref_count >= 1 /\ b.ref_count # 1
  BY <1>3, LastReference DEF FdEntry
<1>5. /\ e \in FdEntry /\ e.ref_count = b.ref_count - 1 /\ e.data = b.data
      /\ e.ref_count # 0
  <2>1. CASE e = [b EXCEPT !.ref_count = @ - 1]
    BY <1>4, <2>1 DEF FdEntry
  <2>2. CASE e = [b EXCEPT !.ref_count = @ - 1, !.path = NoFile]
    <3> PICK d : d = [b EXCEPT !.ref_count = @ - 1]
      OBVIOUS
    <3>1. d \in FdEntry /\ d.ref_count = b.ref_count - 1 /\ d.data = b.data
      BY <1>4 DEF FdEntry
    <3>2. e = [d EXCEPT !.path = NoFile]
      BY <2>2
    <3>3. e \in FdEntry
      BY <3>1, <3>2 DEF FdEntry
    <3>4. e.ref_count = d.ref_count /\ e.data = d.data
      BY <3>1, <3>2 DEF FdEntry
    <3> QED BY <1>4, <3>1, <3>3, <3>4
  <2> QED BY <2>1, <2>2
<1>6. \A u \in FileUser \ {t} : FdOf(u) = f =>
        /\ ~Owns(u) /\ file_call[u].at \notin EarlyPlaces /\ file_call[u].at \notin OwnerPlaces
  BY <1>3, FileFacts DEF OtherOwner, Owns
<1>7. \A u \in FileUser \ {t} : FdOf(u) = f => Fits(file_call[u], e)
  <2> SUFFICES ASSUME NEW u \in FileUser \ {t}, FdOf(u) = f PROVE Fits(file_call[u], e)
    OBVIOUS
  <2>1. Fits(file_call[u], b)
    BY DEF FileInv, CallsRight
  <2> QED BY <1>5, <1>6, <2>1, FitsSame
<1>8. c.fd = f => Fits(c, e)
  BY <1>1, FileFacts DEF Fits, KeptPlaces
<1>9. StepOn(t, c, f, e)
  <2>1. opened' \subseteq Fd /\ opened' \ {f} = opened \ {f}
    BY <1>1 DEF FileInv, FileTypes
  <2>2. /\ c.at = "run" => c = NoCall
        /\ c.at = "unlink" => c.fd = NoFile
        /\ c.at \in OwnerPlaces \cup {"read", "done"} => c.fd = f
        /\ c.at \in OwnerPlaces => f \notin opened'
        /\ f \in opened' => Complete(e)
        /\ c.at \notin EarlyPlaces
        /\ c.fd \in {f, NoFile}
    BY <1>1, <1>3, FileFacts DEF EarlyPlaces
  <2> QED BY <1>1, <1>3, <1>5, <1>6, <1>7, <1>8, <2>1, <2>2 DEF StepOn
<1>10. Counts(t, f, e)
  <2>1. e.ref_count + (IF t \in Getters(f) THEN 1 ELSE 0) + (IF Descriptor(f) THEN 1 ELSE 0) =
         fd_table[f].ref_count + (IF t \in Getters(f)' THEN 1 ELSE 0)
                               + (IF Descriptor(f)' THEN 1 ELSE 0)
    BY <1>3, <1>4, <1>5
  <2>2. c = NoCall <=> file_call[t].at \in KeptPlaces
    BY <1>1 DEF NoCall
  <2>3. files' + (IF InFileSystem(f) THEN 1 ELSE 0) = files + (IF InFileSystem(f)' THEN 1 ELSE 0)
    BY <1>3, <2>2
  <2> QED BY <2>1, <2>3, OwnerAt DEF Counts
<1> QED BY <1>1, <1>5, <1>9, <1>10, FileStep

LEMMA OwnerPutsInv ==
  ASSUME FileInv, NEW t \in FileUser,
         \/ OpenReturn(t) \/ OpenFails(t) \/ CloseFree(t)
         \/ InCall(t, "kept") /\ CallReturns(t)
  PROVE  FileInv'
<1>1. /\ file_call[t].at \in {"put", "fail", "free", "kept"} /\ Owns(t)
      /\ file_call[t].at \notin EarlyPlaces
      /\ "put" \in KeptPlaces /\ "kept" \in KeptPlaces
      /\ "fail" \notin KeptPlaces /\ "free" \notin KeptPlaces
      /\ files' = files
  BY DEF OpenReturn, OpenFails, CloseFree, CallReturns, InCall, Owns, OwnerPlaces,
         EarlyPlaces, KeptPlaces
<1> PICK f \in Fd : f = FdOf(t)
  BY <1>1, OwnerAt
<1> PICK b \in FdEntry : b = fd_table[f]
  BY <1>1, OwnerAt
<1>2. b.ref_count \in Nat /\ b.ref_count # 1 /\ Fits(file_call[t], b) /\ strings \in Int
  <2>1. Descriptor(f)
    BY <1>1 DEF Descriptor, Owns, OwnerPlaces
  <2> QED BY <1>1, <2>1, LastReference, OwnerAt DEF FdEntry
<1>3. Put(b) = [b EXCEPT !.ref_count = @ - 1]
  BY <1>2 DEF Put
<1>4. CASE OpenReturn(t) \/ (InCall(t, "kept") /\ CallReturns(t))
  <2> PICK e : e = [b EXCEPT !.ref_count = @ - 1]
    OBVIOUS
  <2>1. e.path = b.path /\ e.fs = b.fs /\ e.data = b.data
    BY DEF FdEntry
  <2>2. file_call[t].at \in KeptPlaces /\ Complete(b)
    BY <1>1, <1>2, <1>4 DEF OpenReturn, InCall, Fits
  <2>3. Complete(e)
    BY <2>1, <2>2 DEF Complete
  <2>4. /\ fd_table' = [fd_table EXCEPT ![f] = e] /\ Returns(t)
        /\ opened' = opened \cup {f} /\ strings' = strings
    BY <1>3, <1>4 DEF OpenReturn, CallReturns
  <2> QED BY <1>1, <1>2, <2>1, <2>2, <2>3, <2>4, OwnerPuts
<1>5. CASE OpenFails(t)
  <2> PICK e : e = [b EXCEPT !.ref_count = @ - 1]
    OBVIOUS
  <2>1. e.path = b.path /\ b.path = NoFile /\ file_call[t].at \notin KeptPlaces
    BY <1>1, <1>2, <1>5 DEF FdEntry, OpenFails, InCall, Fits
  <2>2. /\ fd_table' = [fd_table EXCEPT ![f] = e] /\ CallGoes(t, "closed")
        /\ opened' = opened /\ strings' = strings
    BY <1>3, <1>5 DEF OpenFails
  <2> QED BY <1>1, <1>2, <2>1, <2>2, OwnerPuts
<1>6. CASE CloseFree(t)
  <2> PICK e : e = [b EXCEPT !.ref_count = @ - 1, !.path = NoFile]
    OBVIOUS
  <2>1. e.path = NoFile /\ b.path # NoFile /\ file_call[t].at \notin KeptPlaces
    BY <1>1, <1>2, <1>6 DEF FdEntry, CloseFree, InCall, Fits
  <2>2. Put([b EXCEPT !.path = NoFile]) = e
    BY <1>2 DEF Put, FdEntry
  <2>3. /\ fd_table' = [fd_table EXCEPT ![f] = e] /\ CallGoes(t, "closed")
        /\ opened' = opened /\ strings' = strings - 1
    BY <1>6, <2>2 DEF CloseFree
  <2>4. strings' + (IF b.path # NoFile THEN 1 ELSE 0) = strings + (IF e.path # NoFile THEN 1 ELSE 0)
    BY <1>2, <2>1, <2>3
  <2>5. strings' \in Int
    BY <1>2, <2>3
  <2> QED BY <1>1, <2>1, <2>3, <2>4, <2>5, OwnerPuts
<1> QED BY <1>4, <1>5, <1>6

\* The other calls on an entry that is not the thread's own.
LEMMA OthersFit ==
  ASSUME FileInv, NEW t \in FileUser, NEW f \in Fd
  PROVE  /\ \A u \in FileUser \ {t} : FdOf(u) = f => Fits(file_call[u], fd_table[f])
         /\ ~OtherOwner(t, f) => \A u \in FileUser \ {t} : FdOf(u) = f =>
              file_call[u].at \notin OwnerPlaces /\ file_call[u].at \notin EarlyPlaces
<1>1. \A u \in FileUser \ {t} : FdOf(u) = f => Fits(file_call[u], fd_table[f])
  BY DEF FileInv, CallsRight
<1>2. ~OtherOwner(t, f) => \A u \in FileUser \ {t} : FdOf(u) = f =>
              file_call[u].at \notin OwnerPlaces /\ file_call[u].at \notin EarlyPlaces
  BY FileFacts DEF OtherOwner, Owns
<1> QED BY <1>1, <1>2

\* Of an entry without references there is no call.
LEMMA FreeEntry ==
  ASSUME FileInv, NEW f \in Fd, fd_table[f].ref_count = 0
  PROVE  /\ fd_table[f] = Clear /\ f \notin opened /\ ~Descriptor(f)
         /\ \A u \in FileUser : FdOf(u) # f
<1>1. fd_table[f] = Clear
  BY DEF FileInv, EntryRight
<1>2. IsFiniteSet(Getters(f)) /\ Cardinality(Getters(f)) \in Nat
      /\ 0 = Cardinality(Getters(f)) + (IF Descriptor(f) THEN 1 ELSE 0)
  BY FS_CardinalityType DEF FileInv, EntryCount
<1>3. ~Descriptor(f) /\ Cardinality(Getters(f)) = 0
  BY <1>2
<1>4. Getters(f) = {}
  BY <1>2, <1>3, FS_EmptySet
<1>5. \A u \in FileUser : FdOf(u) = f => u \in Getters(f) \/ Descriptor(f)
  BY DEF Getters, InCall, Descriptor
<1> QED BY <1>1, <1>3, <1>4, <1>5 DEF Descriptor

LEMMA OpenKeepsInv ==
  ASSUME FileInv, NEW t \in FileUser, NEW file \in File, Open(t, file)
  PROVE  FileInv'
<1>1. PICK f \in Fd : /\ fd_table[f].ref_count = 0
                      /\ fd_table' = [fd_table EXCEPT ![f].ref_count = 1, ![f].magic = TRUE]
                      /\ Calls(t, "get", f, file)
  BY DEF Open, Free
<1>2. /\ fd_table[f] = Clear /\ f \notin opened /\ ~Descriptor(f)
      /\ \A u \in FileUser : FdOf(u) # f
  BY <1>1, FreeEntry
<1>3. /\ opened' = opened /\ strings' = strings /\ files' = files
      /\ strings \in Int /\ files \in Int /\ opened \subseteq Fd
      /\ fd_table \in [Fd -> FdEntry] /\ file_call[t].at = "run"
  BY DEF Open, FileInv, FileTypes, InCall
<1>4. FdOf(t) = NoFile
  BY <1>3 DEF FileInv, CallsRight, NoCall, FdOf
<1> PICK c : c = [at |-> "get", fd |-> f, file |-> file]
  OBVIOUS
<1> PICK b \in FdEntry : b = fd_table[f]
  BY <1>3
<1> PICK d : d = [b EXCEPT !.ref_count = 1]
  OBVIOUS
<1> PICK e : e = [d EXCEPT !.magic = TRUE]
  OBVIOUS
<1>5. /\ c \in FdCall /\ c.at = "get" /\ c.fd = f
      /\ file_call' = [file_call EXCEPT ![t] = c]
  BY <1>1 DEF FdCall, Calls
<1>6. /\ e \in FdEntry /\ e.ref_count = 1 /\ e.path = NoFile
      /\ fd_table' = [fd_table EXCEPT ![f] = e]
  <2>1. d \in FdEntry /\ d.ref_count = 1 /\ d.path = NoFile
    <3>1. b.path = NoFile
      BY <1>2 DEF Clear
    <3> QED BY <3>1 DEF FdEntry
  <2>2. e \in FdEntry /\ e.ref_count = 1 /\ e.path = NoFile
    BY <2>1 DEF FdEntry
  <2>3. fd_table' = [fd_table EXCEPT ![f] = [[fd_table[f] EXCEPT !.ref_count = 1] EXCEPT !.magic = TRUE]]
    BY <1>1, <1>3
  <2> QED BY <2>2, <2>3
<1>7. StepIs(t, c, f)
  BY <1>5, StepEffects
<1>8. /\ Descriptor(f)' /\ t \notin Getters(f) /\ t \notin Getters(f)' /\ ~InFileSystem(f)
      /\ ~InFileSystem(f)'
  <2>1. "get" \in OwnerPlaces /\ "get" \notin KeptPlaces
    BY DEF OwnerPlaces, KeptPlaces
  <2>2. ~OtherOwner(t, f) /\ ~OtherKeeps(t, f) /\ FdOf(t) # f
    BY <1>2, <1>7 DEF StepIs
  <2> QED BY <1>2, <1>3, <1>5, <1>7, <2>1, <2>2 DEF StepIs
<1>9. StepOn(t, c, f, e)
  <2>1. Fits(c, e)
    BY <1>5, <1>6 DEF Fits, KeptPlaces
  <2> QED BY <1>2, <1>3, <1>4, <1>5, <1>6, <1>8, <2>1 DEF StepOn
<1>10. Counts(t, f, e)
  BY <1>1, <1>2, <1>3, <1>6, <1>8 DEF Counts, Clear
<1> QED BY <1>5, <1>6, <1>9, <1>10, FileStep

(* fd_get. *)
LEMMA GetKeepsInv ==
  ASSUME FileInv, NEW t \in FileUser, NEW f \in Fd,
         \/ OpenGet(t) /\ f = FdOf(t)
         \/ Read(t, f)
         \/ Close(t, f)
  PROVE  FileInv'
<1> PICK b \in FdEntry : b = fd_table[f]
  BY DEF FileInv, FileTypes
<1> PICK e : e = [b EXCEPT !.ref_count = @ + 1]
  OBVIOUS
<1>1. /\ strings' = strings /\ files' = files
      /\ strings \in Int /\ files \in Int /\ opened \subseteq Fd
      /\ fd_table' = [fd_table EXCEPT ![f] = e]
      /\ e \in FdEntry /\ e.ref_count = b.ref_count + 1 /\ e.path = b.path /\ e.data = b.data
      /\ e.fs = b.fs /\ b.ref_count \in Nat
      /\ file_call[t] \in FdCall /\ file_call \in [FileUser -> FdCall]
  BY DEF OpenGet, Read, Close, FileInv, FileTypes, FdEntry
<1>2. /\ "lookup" \in OwnerPlaces /\ "close" \in OwnerPlaces /\ "read" \notin OwnerPlaces
      /\ "get" \in EarlyPlaces
      /\ "lookup" \notin KeptPlaces /\ "close" \in KeptPlaces /\ "get" \notin KeptPlaces
      /\ "read" \notin KeptPlaces /\ "run" \notin KeptPlaces
      /\ "read" \notin EarlyPlaces /\ "close" \notin EarlyPlaces /\ "get" \in OwnerPlaces
  BY DEF OwnerPlaces, KeptPlaces, EarlyPlaces
<1>3. ASSUME NEW c \in FdCall, file_call' = [file_call EXCEPT ![t] = c], c.fd = f,
             c.at \in {"lookup", "read", "close"}, FdOf(t) \in {f, NoFile},
             Fits(c, e), opened' \subseteq opened, opened' \ {f} = opened \ {f},
             Descriptor(f) <=> Descriptor(f)', InFileSystem(f) <=> InFileSystem(f)',
             c.at \in OwnerPlaces => f \notin opened' /\ ~OtherOwner(t, f),
             \A u \in FileUser \ {t} : FdOf(u) = f =>
               c.at \notin EarlyPlaces /\ file_call[u].at \notin EarlyPlaces,
             t \notin Getters(f), ~Descriptor(f) => b.path = NoFile
      PROVE  FileInv'
  <2>1. t \in Getters(f)'
    BY <1>3, StepEffects DEF StepIs
  <2>2. \A u \in FileUser \ {t} : FdOf(u) = f => Fits(file_call[u], e)
    <3> SUFFICES ASSUME NEW u \in FileUser \ {t}, FdOf(u) = f PROVE Fits(file_call[u], e)
      OBVIOUS
    <3>1. Fits(file_call[u], b)
      BY OthersFit
    <3> QED BY <1>1, <3>1, FitsSame
  <2>3. f \in opened' => Complete(e)
    BY <1>1, <1>3 DEF FileInv, EntryRight, Complete
  <2>4. \A u \in FileUser \ {t} : FdOf(u) = f /\ Owns(u) => f \notin opened' /\ c.at \notin OwnerPlaces
    BY <1>3 DEF OtherOwner, FileInv, OwnersRight
  <2>5. StepOn(t, c, f, e)
    BY <1>1, <1>3, <2>2, <2>3, <2>4 DEF StepOn
  <2>6. Counts(t, f, e)
    BY <1>1, <1>3, <2>1 DEF Counts
  <2> QED BY <1>1, <2>5, <2>6, FileStep
<1>4. CASE OpenGet(t) /\ f = FdOf(t)
  <2>1. /\ file_call[t].at = "get" /\ Owns(t) /\ opened' = opened
        /\ CallGoes(t, "lookup") /\ file_call[t].fd = f
    BY <1>2, <1>4 DEF OpenGet, InCall, Owns, FdOf
  <2> PICK c : c = [at |-> "lookup", fd |-> f, file |-> file_call[t].file]
    OBVIOUS
  <2>2. /\ c \in FdCall /\ c.at = "lookup" /\ c.fd = f /\ c.file = file_call[t].file
        /\ file_call' = [file_call EXCEPT ![t] = c]
    <3>1. [file_call[t] EXCEPT !.at = "lookup"] = c /\ c \in FdCall
      BY <1>1, <2>1 DEF FdCall
    <3> QED BY <1>1, <2>1, <3>1 DEF CallGoes
  <2>3. StepIs(t, c, f)
    BY <2>2, StepEffects
  <2>4. Fits(c, e)
    <3>1. Fits(file_call[t], b)
      BY <1>4, <2>1, OwnerAt
    <3> QED BY <1>1, <2>1, <2>2, <3>1 DEF Fits, KeptPlaces
  <2>5. /\ Descriptor(f) /\ Descriptor(f)' /\ ~OtherOwner(t, f) /\ ~OtherKeeps(t, f)
        /\ f \notin opened /\ t \notin Getters(f) /\ ~InFileSystem(f) /\ ~InFileSystem(f)'
    BY <1>2, <1>4, <2>1, <2>2, <2>3 DEF StepIs
  <2>6. \A u \in FileUser \ {t} : FdOf(u) # f
    BY <1>2, <1>4, <2>1 DEF FileInv, OwnersRight
  <2> QED BY <1>3, <1>4, <2>1, <2>2, <2>4, <2>5, <2>6
<1>5. CASE Read(t, f) \/ Close(t, f)
  <2>1. /\ file_call[t].at = "run" /\ f \in opened /\ FdOf(t) = NoFile /\ FdOf(t) # f
        /\ t \notin Getters(f)
    <3>1. file_call[t].at = "run" /\ f \in opened
      BY <1>5 DEF Read, Close, InCall, Known
    <3>2. FdOf(t) = NoFile
      BY <3>1 DEF FileInv, CallsRight, NoCall, FdOf
    <3> QED BY <3>1, <3>2, FileFacts DEF Getters
  <2>2. Complete(b) /\ Complete(e) /\ b.data \in File
    BY <1>1, <2>1 DEF FileInv, EntryRight, Complete
  <2> PICK c : c = [at |-> IF Read(t, f) THEN "read" ELSE "close", fd |-> f, file |-> b.data]
    OBVIOUS
  <2>3. CASE Read(t, f)
    <3>1. /\ c \in FdCall /\ c.at = "read" /\ c.fd = f /\ c.file = b.data
          /\ file_call' = [file_call EXCEPT ![t] = c] /\ opened' = opened
      BY <2>2, <2>3 DEF FdCall, Read, Calls
    <3>2. StepIs(t, c, f)
      BY <3>1, StepEffects
    <3>3. /\ Descriptor(f) /\ Descriptor(f)' /\ InFileSystem(f) /\ InFileSystem(f)'
          /\ ~OtherOwner(t, f)
      BY <2>1, <3>1, <3>2 DEF StepIs
    <3>4. Fits(c, e)
      BY <1>1, <3>1 DEF Fits, KeptPlaces
    <3>5. \A u \in FileUser \ {t} : FdOf(u) = f => file_call[u].at \notin EarlyPlaces
      BY <3>3, OthersFit
    <3> QED BY <1>2, <1>3, <2>1, <3>1, <3>3, <3>4, <3>5
  <2>4. CASE Close(t, f) /\ ~Read(t, f)
    <3>1. /\ c \in FdCall /\ c.at = "close" /\ c.fd = f /\ c.file = b.data
          /\ file_call' = [file_call EXCEPT ![t] = c] /\ opened' = opened \ {f}
      BY <2>2, <2>4 DEF FdCall, Close, Calls
    <3>2. StepIs(t, c, f)
      BY <3>1, StepEffects
    <3>3. /\ Descriptor(f) /\ Descriptor(f)' /\ InFileSystem(f) /\ InFileSystem(f)'
          /\ ~OtherOwner(t, f)
      BY <1>2, <2>1, <3>1, <3>2 DEF StepIs
    <3>4. Fits(c, e)
      BY <2>2, <3>1 DEF Fits, KeptPlaces
    <3>5. \A u \in FileUser \ {t} : FdOf(u) = f => file_call[u].at \notin EarlyPlaces
      BY <3>3, OthersFit
    <3> QED BY <1>2, <1>3, <2>1, <3>1, <3>3, <3>4, <3>5
  <2> QED BY <1>5, <2>3, <2>4
<1> QED BY <1>4, <1>5

(* Steps that leave the table alone. *)
LEMMA CallMoves ==
  ASSUME FileInv, NEW t \in FileUser, NEW c \in FdCall, NEW f \in Fd,
         file_call' = [file_call EXCEPT ![t] = c],
         UNCHANGED <<fd_table, opened, strings, files>>,
         FdOf(t) \in {f, NoFile}, c.fd = FdOf(t), ~Owns(t), c.at \notin OwnerPlaces,
         c.at = "run" => c = NoCall, c.at = "unlink" => c.fd = NoFile,
         c.at \in {"read", "done"} => c.fd = f,
         c.fd = f => Fits(c, fd_table[f])
  PROVE  FileInv'
<1> PICK e \in FdEntry : e = fd_table[f]
  BY DEF FileInv, FileTypes
<1>1. StepIs(t, c, f)
  BY StepEffects
<1>2. /\ "get" \in OwnerPlaces /\ "closed" \in OwnerPlaces
      /\ file_call[t].at \notin OwnerPlaces /\ file_call[t].at \notin KeptPlaces
      /\ c.at \notin KeptPlaces
  BY FileFacts DEF OwnerPlaces, Owns
<1>3. /\ Descriptor(f)' <=> Descriptor(f)
      /\ InFileSystem(f)' <=> InFileSystem(f)
      /\ t \in Getters(f)' <=> t \in Getters(f)
  BY <1>1, <1>2 DEF StepIs
<1>4. StepOn(t, c, f, e)
  <2>1. /\ fd_table' = [fd_table EXCEPT ![f] = e]
        /\ opened' = opened /\ opened \subseteq Fd
    BY DEF FileInv, FileTypes
  <2>2. \A u \in FileUser \ {t} : FdOf(u) = f => Fits(file_call[u], e)
    BY OthersFit
  <2>3. e.ref_count = 0 => e = Clear
    BY FreeEntry
  <2>4. f \in opened => Complete(e)
    BY DEF FileInv, EntryRight
  <2>5. ~Descriptor(f)' => e.path = NoFile
    BY <1>3 DEF FileInv, EntryRight
  <2>6. \A u \in FileUser \ {t} : FdOf(u) = f /\ c.fd = f =>
           c.at \notin EarlyPlaces /\ file_call[u].at \notin EarlyPlaces
    BY FileFacts DEF FileInv, OwnersRight
  <2>7. \A u \in FileUser \ {t} : FdOf(u) = f /\ Owns(u) => f \notin opened'
    BY DEF FileInv, OwnersRight
  <2> QED BY <2>1, <2>2, <2>3, <2>4, <2>5, <2>6, <2>7 DEF StepOn
<1>5. Counts(t, f, e)
  BY <1>3 DEF Counts, FileInv, FileTypes
<1> QED BY <1>4, <1>5, FileStep

LEMMA TableAloneInv ==
  ASSUME FileInv, NEW t \in FileUser,
         ReadFile(t) \/ UnlinkFile(t) \/ \E file \in File : Unlink(t, file)
  PROVE  FileInv'
<1>1. /\ UNCHANGED <<fd_table, opened, strings, files>>
      /\ file_call[t] \in FdCall /\ file_call \in [FileUser -> FdCall]
      /\ {"run", "read", "done", "unlink"} \cap (OwnerPlaces \cup KeptPlaces) = {}
  BY DEF ReadFile, UnlinkFile, Unlink, FileInv, FileTypes, OwnerPlaces, KeptPlaces
<1>2. CASE ReadFile(t)
  <2>1. file_call[t].at = "read" /\ CallGoes(t, "done") /\ ~Owns(t)
    BY <1>1, <1>2 DEF ReadFile, InCall, Owns
  <2> PICK f \in Fd : f = FdOf(t)
    BY <2>1 DEF FileInv, CallsRight
  <2>2. Fits(file_call[t], fd_table[f])
    BY DEF FileInv, CallsRight
  <2> PICK c : c = [at |-> "done", fd |-> f, file |-> file_call[t].file]
    OBVIOUS
  <2>3. c \in FdCall /\ c.at = "done" /\ c.fd = f /\ c.file = file_call[t].file
    BY <1>1 DEF FdCall
  <2>4. file_call' = [file_call EXCEPT ![t] = c]
    <3>1. [file_call[t] EXCEPT !.at = "done"] = c
      BY <1>1 DEF FdCall, FdOf
    <3> QED BY <1>1, <2>1, <3>1 DEF CallGoes
  <2>5. Fits(c, fd_table[f])
    BY <2>1, <2>2, <2>3 DEF Fits, KeptPlaces
  <2> QED BY <1>1, <2>1, <2>3, <2>4, <2>5, CallMoves
<1>3. CASE UnlinkFile(t) \/ \E file \in File : Unlink(t, file)
  <2>1. PICK f : f \in Fd
    BY FileTableType DEF Fd
  <2>2. FdOf(t) = NoFile /\ ~Owns(t)
    <3>1. file_call[t].at \in {"run", "unlink"}
      BY <1>3 DEF UnlinkFile, Unlink, InCall
    <3>2. FdOf(t) = NoFile
      BY <3>1 DEF FileInv, CallsRight, NoCall, FdOf
    <3> QED BY <1>1, <3>1, <3>2 DEF Owns
  <2>3. CASE UnlinkFile(t)
    <3>1. /\ file_call' = [file_call EXCEPT ![t] = NoCall]
          /\ NoCall \in FdCall /\ NoCall.at = "run" /\ NoCall.fd = NoFile
      BY <2>3 DEF UnlinkFile, Returns, NoCall, FdCall
    <3> QED BY <1>1, <2>1, <2>2, <3>1, FileFacts, CallMoves
  <2>4. ASSUME NEW file \in File, Unlink(t, file)
        PROVE  FileInv'
    <3> PICK c : c = [at |-> "unlink", fd |-> NoFile, file |-> file]
      OBVIOUS
    <3>1. /\ file_call' = [file_call EXCEPT ![t] = c]
          /\ c \in FdCall /\ c.at = "unlink" /\ c.fd = NoFile
      BY <2>4 DEF Unlink, Calls, FdCall
    <3> QED BY <1>1, <2>1, <2>2, <3>1, FileFacts, CallMoves
  <2> QED BY <1>3, <2>3, <2>4
<1> QED BY <1>2, <1>3

(* The fd_put of a read, and the second one of a close: the last one clears *)
(* the entry, whichever comes last.                                         *)
LEMMA LastPutInv ==
  ASSUME FileInv, NEW t \in FileUser,
         LastPut(t) \/ (InCall(t, "done") /\ CallReturns(t))
  PROVE  FileInv'
<1>1. /\ file_call[t].at \in {"closed", "done"} /\ Returns(t)
      /\ fd_table' = [fd_table EXCEPT ![FdOf(t)] = Put(@)]
      /\ opened' = opened /\ UNCHANGED <<strings, files>>
      /\ Owns(t) <=> file_call[t].at = "closed"
      /\ "closed" \in OwnerPlaces /\ "done" \notin OwnerPlaces
      /\ file_call[t].at \notin KeptPlaces
  BY DEF LastPut, CallReturns, InCall, Owns, OwnerPlaces, KeptPlaces
<1> PICK f \in Fd : f = FdOf(t)
  BY <1>1 DEF FileInv, CallsRight
<1> PICK b \in FdEntry : b = fd_table[f]
  BY DEF FileInv, FileTypes
<1> PICK e : e = Put(b)
  OBVIOUS
<1> PICK c : c = NoCall
  OBVIOUS
<1>2. /\ c \in FdCall /\ c.at = "run" /\ c.fd = NoFile /\ c.fd # f
      /\ file_call' = [file_call EXCEPT ![t] = c]
      /\ "run" \notin OwnerPlaces /\ "run" \notin KeptPlaces
  BY <1>1, FileFacts DEF NoCall, FdCall, Returns
<1>3. b.ref_count >= 1 /\ (b.ref_count = 1 => f \notin opened /\ \A u \in FileUser \ {t} : FdOf(u) # f)
  BY LastReference
<1>4. /\ e \in FdEntry /\ e.ref_count = b.ref_count - 1
      /\ b.ref_count = 1 => e = Clear
      /\ b.ref_count # 1 => e.fs = b.fs /\ e.path = b.path /\ e.data = b.data
      /\ e.ref_count = 0 => e = Clear
      /\ fd_table' = [fd_table EXCEPT ![f] = e]
  BY <1>1, <1>3, PutEffect
<1>5. StepIs(t, c, f)
  BY <1>2, StepEffects
<1>6. /\ t \notin Getters(f)'
      /\ InFileSystem(f)' <=> InFileSystem(f)
      /\ Owns(t) => Descriptor(f) /\ ~Descriptor(f)' /\ t \notin Getters(f)
      /\ ~Owns(t) => (Descriptor(f) <=> Descriptor(f)') /\ t \in Getters(f)
  <2>1. t \notin Getters(f)' /\ (InFileSystem(f)' <=> InFileSystem(f))
    BY <1>1, <1>2, <1>5 DEF StepIs
  <2>2. Owns(t) => Descriptor(f) /\ ~Descriptor(f)' /\ t \notin Getters(f)
    BY <1>1, <1>2, <1>5 DEF StepIs
  <2>3. ~Owns(t) => (Descriptor(f) <=> Descriptor(f)') /\ t \in Getters(f)
    BY <1>1, <1>2, <1>5 DEF StepIs
  <2> QED BY <2>1, <2>2, <2>3
<1>7. e.path = b.path
  <2>1. CASE b.ref_count = 1
    <3>1. b.path = NoFile
      <4>1. CASE Owns(t)
        BY <1>1, <4>1, OwnerAt DEF Fits
      <4>2. CASE ~Owns(t)
        <5>1. ~Descriptor(f)
          <6>1. file_call[t].at \notin {"get", "closed"}
            BY <1>1, <4>2
          <6> QED BY <2>1, <6>1, LastReference
        <5> QED BY <5>1 DEF FileInv, EntryRight
      <4> QED BY <4>1, <4>2
    <3> QED BY <1>4, <2>1, <3>1 DEF Clear
  <2>2. CASE b.ref_count # 1
    BY <1>4, <2>2
  <2> QED BY <2>1, <2>2
<1>8. StepOn(t, c, f, e)
  <2>1. opened' \subseteq Fd
    BY <1>1 DEF FileInv, FileTypes
  <2>2. \A u \in FileUser \ {t} : FdOf(u) = f => Fits(file_call[u], e)
    <3> SUFFICES ASSUME NEW u \in FileUser \ {t}, FdOf(u) = f PROVE Fits(file_call[u], e)
      OBVIOUS
    <3>1. Fits(file_call[u], b)
      BY OthersFit
    <3> QED BY <1>3, <1>4, <3>1, FitsSame
  <2>3. f \in opened' => Complete(e)
    <3>1. f \in opened => Complete(b)
      BY DEF FileInv, EntryRight
    <3> QED BY <1>1, <1>3, <1>4, <3>1 DEF Complete
  <2>4. ~Descriptor(f)' => e.path = NoFile
    <3>1. ~Descriptor(f) => b.path = NoFile
      BY DEF FileInv, EntryRight
    <3>2. Owns(t) => b.path = NoFile
      BY <1>1, OwnerAt DEF Fits
    <3> QED BY <1>6, <1>7, <3>1, <3>2
  <2>5. \A u \in FileUser \ {t} : FdOf(u) = f /\ Owns(u) => f \notin opened'
    BY <1>1 DEF FileInv, OwnersRight
  <2> QED BY <1>1, <1>2, <1>4, <2>1, <2>2, <2>3, <2>4, <2>5 DEF StepOn
<1>9. Counts(t, f, e)
  <2>1. e.ref_count + (IF t \in Getters(f) THEN 1 ELSE 0) + (IF Descriptor(f) THEN 1 ELSE 0) =
          fd_table[f].ref_count + (IF t \in Getters(f)' THEN 1 ELSE 0)
                                + (IF Descriptor(f)' THEN 1 ELSE 0)
    BY <1>4, <1>6 DEF FdEntry
  <2> QED BY <1>1, <1>6, <1>7, <2>1 DEF Counts, FileInv, FileTypes
<1> QED BY <1>2, <1>4, <1>8, <1>9, FileStep

LEMMA FileStepInv ==
  ASSUME FileInv, [DfsNext]_dfsvars
  PROVE  FileInv'
<1>1. CASE UNCHANGED dfsvars
  <2>1. /\ \A f : Getters(f)' = Getters(f) /\ (Descriptor(f)' <=> Descriptor(f))
                  /\ (InFileSystem(f)' <=> InFileSystem(f))
        /\ \A t : FdOf(t)' = FdOf(t) /\ (Owns(t)' <=> Owns(t))
    BY <1>1 DEF dfsvars, Getters, Descriptor, InFileSystem, FdOf, Owns, InCall
  <2>2. FileTypes' /\ CallsRight' /\ OwnersRight'
    BY <1>1, <2>1 DEF dfsvars, FileInv, FileTypes, CallsRight, OwnersRight
  <2>3. \A f \in Fd : EntryCount(f)' /\ EntryRight(f)'
    BY <1>1, <2>1 DEF dfsvars, FileInv, EntryCount, EntryRight
  <2>4. Named' = Named /\ Kept' = Kept
    BY <1>1, <2>1 DEF dfsvars, Named, Kept
  <2> QED BY <1>1, <2>2, <2>3, <2>4 DEF dfsvars, FileInv
<1>2. CASE DfsNext
  <2> PICK t \in FileUser :
        \/ \E file \in File : Open(t, file) \/ Unlink(t, file)
        \/ \E f \in Fd : Read(t, f) \/ Close(t, f)
        \/ OpenGet(t) \/ OpenLookup(t) \/ OpenPath(t) \/ OpenFile(t)
        \/ OpenReturn(t) \/ OpendirCloses(t) \/ OpenFails(t)
        \/ ReadFile(t) \/ CallReturns(t)
        \/ CloseFile(t) \/ CloseFree(t) \/ LastPut(t)
        \/ UnlinkFile(t)
    BY <1>2 DEF DfsNext
  <2>1. CASE \E file \in File : Open(t, file)
    BY <2>1, OpenKeepsInv
  <2>2. CASE ReadFile(t) \/ UnlinkFile(t) \/ \E file \in File : Unlink(t, file)
    BY <2>2, TableAloneInv
  <2>3. CASE \E f \in Fd : Read(t, f) \/ Close(t, f)
    BY <2>3, GetKeepsInv
  <2>4. CASE OpenGet(t)
    <3>1. FdOf(t) \in Fd
      BY <2>4 DEF OpenGet, InCall, FileInv, CallsRight, OwnerPlaces
    <3> QED BY <2>4, <3>1, GetKeepsInv
  <2>5. CASE OpenReturn(t) \/ OpenFails(t) \/ CloseFree(t)
    BY <2>5, OwnerPutsInv
  <2>6. CASE CallReturns(t)
    BY <2>6, OwnerPutsInv, LastPutInv DEF CallReturns
  <2>7. CASE LastPut(t)
    BY <2>7, LastPutInv
  <2>8. CASE OpendirCloses(t) \/ CloseFile(t)
    BY <2>8, OpendirClosesKeepsInv
  <2>9. CASE OpenLookup(t) \/ OpenPath(t) \/ OpenFile(t)
    BY <2>9, OpenLookupKeepsInv, OpenPathKeepsInv, OpenFileKeepsInv
  <2> QED BY <2>1, <2>2, <2>3, <2>4, <2>5, <2>6, <2>7, <2>8, <2>9
<1> QED BY <1>1, <1>2

\* However many threads open, use and close the same descriptors, and wherever
\* a call fails, a descriptor counts once and each call once, no call's entry
\* is given away under it, and an entry gives back its path and its file.
THEOREM DescriptorsExact ==
  DfsSpec => [](ReferencesCounted /\ EntryIsNotReused /\ NothingLeaks)
<1>1. DfsInit => FileInv
  BY FileInitInv
<1>2. FileInv /\ [DfsNext]_dfsvars => FileInv'
  BY FileStepInv
<1>3. FileInv => ReferencesCounted /\ EntryIsNotReused /\ NothingLeaks
  BY FileInvImplies
<1> QED BY <1>1, <1>2, <1>3, PTL DEF DfsSpec

\* With a file system that is given paths below its mount point (the full path
\* is compared with the path below it otherwise), an open file is found too.
THEOREM DescriptorsRight ==
  ASSUME ~FullPath
  PROVE  DfsSpec => []DescriptorsConsistent
<1>1. DfsInit => FileInv
  BY FileInitInv
<1>2. FileInv /\ [DfsNext]_dfsvars => FileInv'
  BY FileStepInv
<1>3. FileInv => DescriptorsConsistent
  BY FileInvImplies DEF DescriptorsConsistent
<1> QED BY <1>1, <1>2, <1>3, PTL DEF DfsSpec

=============================================================================
