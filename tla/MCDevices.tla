------------------------------ MODULE MCDevices ------------------------------
(***************************************************************************)
(* The drivers of the board and the device file system, each on its own:   *)
(* the initial state chooses which of them the behaviour is about.         *)
(***************************************************************************)
EXTENDS Uart, Ethernet, Serial, FileTable, DfsMount

VARIABLE object

\* How the serial device is opened: to receive and to send by DMA, or to send
\* by interrupt.
Transfers == {{"INT_RX", "DMA_TX"}, {"INT_RX"}}
Interrupts == {{"INT_TX"}}
MCModes == {Transfers, Interrupts}

devicevars == <<object, uartvars, ethvars, serialvars, dfsvars, mountvars>>

DevicesInit ==
  /\ object \in {"uart", "ethernet", "serial", "files", "mounts"}
  /\ UartInit /\ EthInit /\ SerialInit /\ DfsInit /\ MountInit
  /\ object # "uart" => flag = "poll"
  /\ object # "serial" => modes = Transfers

OfUart(A) ==
  /\ object = "uart" /\ A
  /\ UNCHANGED <<object, ethvars, serialvars, dfsvars, mountvars>>

OfEthernet(A) ==
  /\ object = "ethernet" /\ A
  /\ UNCHANGED <<object, uartvars, serialvars, dfsvars, mountvars>>

OfSerial(A) ==
  /\ object = "serial" /\ A
  /\ UNCHANGED <<object, uartvars, ethvars, dfsvars, mountvars>>

OfFiles(A) ==
  /\ object = "files" /\ A
  /\ UNCHANGED <<object, uartvars, ethvars, serialvars, mountvars>>

OfMounts(A) ==
  /\ object = "mounts" /\ A
  /\ UNCHANGED <<object, uartvars, ethvars, serialvars, dfsvars>>

DevicesNext ==
  \/ OfUart(UartNext) \/ OfEthernet(EthNext) \/ OfSerial(SerialNext)
  \/ OfFiles(DfsNext) \/ OfMounts(MountNext)

\* Handlers end and the hardware goes on with what it has begun.  An interrupt
\* that is pending is taken some time between two handlers of another one, and
\* the thread etx and a thread in a call are given the processor although they
\* can go on only from time to time.  No thread is assumed to begin a call.
\* As object never changes, a condition that joins steps of several objects is
\* for each behaviour the one about its own.
DevicesSpec ==
  /\ DevicesInit /\ [][DevicesNext]_devicevars
  /\ WF_devicevars(\/ OfUart(ReceiveEnd)
                    \/ OfEthernet(IrqClear)
                    \/ OfSerial(TxDmaDone \/ TxDone))
  /\ SF_devicevars(OfUart(DmaTxIsr) \/ OfEthernet(EtxStep))
  /\ \A t \in Sender \cup Writer :
       SF_devicevars(\/ OfEthernet(t \in Sender /\ LinkOutputAck(t))
                     \/ OfSerial(t \in Writer /\ WriterStep(t)))

-----------------------------------------------------------------------------
(* Properties *)

\* What waits for a handler or a thread: a buffer on the UART's list, the sender
\* of a packet, a writer in rt_serial_write.
Waits(w) ==
  \/ object = "uart" /\ w \in ToSet(list)
  \/ object = "ethernet" /\ w \in Sender /\ sender[w] = "ack"
  \/ object = "serial" /\ w \in Writer /\ writer[w] # "run"

\* What waits is served: the UART's interrupt goes on with the next buffer
\* whatever is written meanwhile, etx answers also for a packet it drops, and
\* a writer finds room in the data queue or its completion done.
CallsReturn ==
  \A w \in UartWriter \cup Sender \cup Writer : Waits(w) ~> ~Waits(w)
=============================================================================
