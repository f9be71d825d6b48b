-------------------------- MODULE CountingSemaphore --------------------------
(***************************************************************************)
(* What a semaphore promises (rt_sem_take and so on in ipc.c), without     *)
(* lists, scheduler or interrupts: a permit is free, or granted to the one *)
(* thread it was released for; a thread that waits gets a permit, or gives *)
(* up, never both; and nobody waits while a permit is free.                *)
(***************************************************************************)
EXTENDS Integers, FiniteSets

CONSTANTS Thread, InitValue, ValueLimit

VARIABLES value,    \* free permits
          waiting,  \* threads waiting for a permit
          granted,  \* threads with a permit, about to return from the take
          refused   \* threads about to return without one

absvars == <<value, waiting, granted, refused>>

AbsInit == value = InitValue /\ waiting = {} /\ granted = {} /\ refused = {}

AbsIdle(t) == t \notin waiting \cup granted \cup refused

\* A take that need not wait is one step.
AbsTake == /\ value > 0 /\ value' = value - 1
           /\ UNCHANGED <<waiting, granted, refused>>

AbsWait(t) == /\ AbsIdle(t) /\ value = 0
              /\ waiting' = waiting \cup {t}
              /\ UNCHANGED <<value, granted, refused>>

AbsGrant(t) == /\ t \in waiting
               /\ waiting' = waiting \ {t} /\ granted' = granted \cup {t}
               /\ UNCHANGED <<value, refused>>

\* The value is an rt_uint16_t and nothing stops it at its largest.
AbsPost == /\ waiting = {} /\ value' = (value + 1) % ValueLimit
           /\ UNCHANGED <<waiting, granted, refused>>

\* A timeout, or one waiter told that the semaphore goes away.
AbsRefuse(t) == /\ t \in waiting
                /\ waiting' = waiting \ {t} /\ refused' = refused \cup {t}
                /\ UNCHANGED <<value, granted>>

AbsReturn(t) == /\ t \in granted \cup refused
                /\ granted' = granted \ {t} /\ refused' = refused \ {t}
                /\ UNCHANGED <<value, waiting>>

\* RT_IPC_CMD_RESET sets the value once every waiter is refused.
AbsReset == /\ waiting = {}
            /\ value' \in Nat
            /\ UNCHANGED <<waiting, granted, refused>>

AbsNext == \/ AbsTake \/ AbsPost \/ AbsReset
           \/ \E t \in Thread : \/ AbsWait(t) \/ AbsGrant(t)
                                \/ AbsRefuse(t) \/ AbsReturn(t)

AbsSpec == AbsInit /\ [][AbsNext]_absvars
=============================================================================
