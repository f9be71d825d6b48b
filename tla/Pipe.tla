-------------------------------- MODULE Pipe --------------------------------
(***************************************************************************)
(* The pipe device of components/drivers/src/pipe.c on its ring buffer:    *)
(* rt_pipe_read and rt_pipe_write, blocking by threads or not blocking by  *)
(* threads and interrupts.  A call that blocked tries again when it is     *)
(* woken, and wakes one thread of the other side when it moved bytes.      *)
(***************************************************************************)
EXTENDS Ipc, RingBuffer

CONSTANTS read_list,   \* the head of its suspended_read_list
          write_list,  \* the head of its suspended_write_list
          Byte,
          NoByte,      \* what is in the buffer before its first use
          PipeFlags,   \* the flags the application's pipes are created with
          Sizes        \* the lengths of its reads and writes

\* RT_PIPE_FLAG_BLOCK_RD, RT_PIPE_FLAG_BLOCK_WR.
ASSUME PipeType == /\ read_list \in Queue
                   /\ write_list \in Queue \ {read_list}
                   /\ buffer_size \in Nat \ {0}
                   /\ NoByte \notin Byte
                   /\ PipeFlags \subseteq SUBSET {"rd", "wr"}
                   /\ Sizes \subseteq Nat \ {0}

VARIABLES pipe_flag,   \* pipe->flag
          ringbuffer,  \* pipe->ringbuffer
          request,     \* what a thread's call is to write, or its size to read
          bytes_read   \* what the last rt_pipe_read returned

pipevars == <<pipe_flag, ringbuffer, request, bytes_read>>

Requests == UNION {[1 .. n -> Byte] : n \in Sizes}
NoRequest == 0

PipeLabel == {"run", "sched",
              "read", "write",             \* a call before rt_schedule
              "read_woken", "write_woken"} \* a call after rt_schedule

PipeTypeOK ==
  /\ k \in KernelType
  /\ pc \in [Thread -> PipeLabel]
  /\ pipe_flag \in PipeFlags
  /\ ringbuffer \in RingType(Byte \cup {NoByte})
  /\ \A t \in Thread : IF pc[t] \in {"write", "write_woken"}
                       THEN request[t] \in Requests
                       ELSE request[t] \in Sizes \cup {NoRequest}
  /\ bytes_read \in Requests \cup {<< >>}

PipeInit ==
  /\ IpcInit
  /\ pipe_flag \in PipeFlags
  /\ ringbuffer = rt_ringbuffer_init(NoByte)
  /\ request = [t \in Thread |-> NoRequest]
  /\ bytes_read = << >>

-----------------------------------------------------------------------------
(* The critical sections *)

\* _rt_pipe_resume_reader, _rt_pipe_resume_writer: rt_schedule is called
\* with interrupts disabled.
ResumeOne(h) == IF rt_list_isempty(k.list[h]) THEN k
                ELSE rt_schedule(rt_ipc_list_resume(k, h))

\* Faulty variant: nobody is woken.
MoveOutSilently(size) ==
  /\ rt_ringbuffer_data_len(ringbuffer) > 0
  /\ ringbuffer' = rt_ringbuffer_get(ringbuffer, size)
  /\ bytes_read' = Got(ringbuffer,
                       AtMost(size, rt_ringbuffer_data_len(ringbuffer)))
  /\ UNCHANGED <<k, pipe_flag>>

MoveOut(size) ==
  /\ rt_ringbuffer_data_len(ringbuffer) > 0
  /\ ringbuffer' = rt_ringbuffer_get(ringbuffer, size)
  /\ bytes_read' = Got(ringbuffer,
                       AtMost(size, rt_ringbuffer_data_len(ringbuffer)))
  /\ k' = ResumeOne(write_list)
  /\ UNCHANGED pipe_flag

MoveIn(bytes) ==
  /\ rt_ringbuffer_space_len(ringbuffer) > 0
  /\ ringbuffer' = rt_ringbuffer_put(ringbuffer, bytes)
  /\ k' = ResumeOne(read_list)
  /\ UNCHANGED <<pipe_flag, bytes_read>>

PipeReturn == Goto("run") /\ request' = [request EXCEPT ![self] = NoRequest]

\* The caller is suspended; its error and its timer are left alone.
PipeWait(h, r, label) ==
  /\ k' = LinkLast(rt_thread_suspend(k, self), h, self)
  /\ request' = [request EXCEPT ![self] = r]
  /\ Goto(label)
  /\ UNCHANGED <<pipe_flag, ringbuffer, bytes_read>>

-----------------------------------------------------------------------------
(* rt_pipe_read, rt_pipe_write *)

\* A turn of the blocking loop.
TryRead(size) ==
  \/ MoveOut(size) /\ PipeReturn
  \/ /\ rt_ringbuffer_data_len(ringbuffer) = 0
     /\ PipeWait(read_list, size, "read")

TryWrite(bytes) ==
  \/ MoveIn(bytes) /\ PipeReturn
  \/ /\ rt_ringbuffer_space_len(ringbuffer) = 0
     /\ PipeWait(write_list, bytes, "write")

Read(size) == At("run") /\ "rd" \in pipe_flag /\ TryRead(size)
Write(bytes) == At("run") /\ "wr" \in pipe_flag /\ TryWrite(bytes)

\* By a thread or an interrupt, if the pipe's flag lets it not block.  A
\* write resumes a reader even if the pipe is full.
ReadNonBlocking(size) ==
  "rd" \notin pipe_flag /\ MoveOut(size) /\ UNCHANGED <<pc, request>>

WriteNonBlocking(bytes) ==
  /\ "wr" \notin pipe_flag
  /\ ringbuffer' = rt_ringbuffer_put(ringbuffer, bytes)
  /\ k' = ResumeOne(read_list)
  /\ UNCHANGED <<pc, pipe_flag, request, bytes_read>>

PipeSchedule ==
  /\ \/ ScheduleAt("read", "read_woken")
     \/ ScheduleAt("write", "write_woken")
     \/ ScheduleAt("sched", "run")  \* of a delay
  /\ UNCHANGED pipevars

ReadAgain == At("read_woken") /\ TryRead(request[self])
WriteAgain == At("write_woken") /\ TryWrite(request[self])

PipeNext ==
  \/ CpuStep /\ UNCHANGED pipevars
  \/ \E size \in Sizes : Read(size) \/ ReadNonBlocking(size)
  \/ \E bytes \in Requests : Write(bytes) \/ WriteNonBlocking(bytes)
  \/ PipeSchedule \/ ReadAgain \/ WriteAgain

PipeSpec == PipeInit /\ [][PipeNext]_<<k, pc, pipevars>>

-----------------------------------------------------------------------------
(* Properties *)

\* What is read is what was written, each byte once and in order, although
\* reads and writes of different lengths wrap at different places: the ring
\* buffer under the pipe is a byte stream.
PipeStream == INSTANCE ByteStream WITH
                Chunk <- Requests, Room <- buffer_size,
                stream <- Bytes(ringbuffer), read <- bytes_read

ImplementsByteStream == PipeStream!StreamSpec

Awake(labels) ==
  {t \in Thread : pc[t] \in labels /\ k.stat[t] = "ready"}

\* One call wakes one thread, which may leave bytes or room: a reader may sleep
\* over bytes until the next write and a writer over room until the next read.
\* All the same the pipe never stands still: no reader sleeps at a full pipe
\* and no writer at an empty one without one of its kind awake, and readers
\* and writers never sleep both without one of either awake in its call.
NoStandstill ==
  LET readers == k.list[read_list] # << >>
      writers == k.list[write_list] # << >>
      full == rt_ringbuffer_space_len(ringbuffer) = 0
      empty == rt_ringbuffer_data_len(ringbuffer) = 0
  IN  /\ readers /\ full => Awake({"read", "read_woken"}) # {}
      /\ writers /\ empty => Awake({"write", "write_woken"}) # {}
      /\ readers /\ writers =>
           Awake({"read", "read_woken", "write", "write_woken"}) # {}
=============================================================================
