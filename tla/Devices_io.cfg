CONSTANTS
  Byte = {x, lf, cr}
  LF = lf
  CR = cr
  \* Behind '\r' it does what a '\n' does, and alone what x does.
  NUL = lf
  UART_RX_BUFFER_SIZE = 3
  UART_TX_DMA_NODE_SIZE = 2
  SignalMax = 2
  UartWriter = {v, w}
  NoBuffer = NoBuffer
  Sender = {v}
  ETH_TXBUFNB = 2
  ETH_RXBUFNB = 2
  MBOX_SIZE = 1
  Nobody = Nobody
  Writer = {v, w}
  Data = {x, y, z}
  User = {u}
  ModeSets <- MCModes
  LateTx = FALSE
  QueueSize = 2
  OpenMax = 2
  Nothing = Nothing
  FileUser = {t, u, v}
  File = {x, y}
  DFS_FD_MAX = 2
  FullPath = FALSE
  RefMax = 3
  NoFile = NoFile
  Mounter = {t, u}
  Path = {p, q}
  Device = {d, e}
  DFS_FILESYSTEMS_MAX = 2
  VOLUMES = 2
  Relative = FALSE
  LargeSectors = {}
  Early = FALSE
  Overlap = FALSE
  None = None
SPECIFICATION DevicesSpec
INVARIANTS
  LineGoesOn
  PacketsAreSafe
  NothingLeftBehind
  SendingIsConsistent
  DescriptorsConsistent
  MountsConsistent
PROPERTIES
  BytesInOrder
  CallsReturn
\* A failed assertion stops the system.
CHECK_DEADLOCK FALSE
