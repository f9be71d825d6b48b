-------------------------------- MODULE Timer --------------------------------
(***************************************************************************)
(* The hard timers of src/timer.c on the tick of src/clock.c: threads that *)
(* initialise, start, stop, control and detach their timers, the clock     *)
(* interrupt that comes between any two sections of these calls, and the   *)
(* timeout functions it calls, which use timers themselves.  The skip list *)
(* has one level on this board (RT_TIMER_SKIP_LIST_LEVEL).  Ticks are      *)
(* unsigned integers of Width bits; in the code Width is 32.               *)
(***************************************************************************)
EXTENDS RtList

CONSTANTS Timer,   \* timer control blocks
          Owner,   \* the thread that calls the functions for a timer, or Isr
          Isr,     \* the owner of the timers only timeout functions use
          Width,   \* bits of rt_tick_t
          Time,    \* the values init_tick takes
          Lag,     \* ticks that pass at most between two steps of a start
          RestartsOneShot  \* whether a one-shot's timeout function starts it

TickMax == 2^Width - 1
Ticks == 0 .. TickMax
Half == TickMax \div 2

\* rt_timer_start asserts init_tick < RT_TICK_MAX / 2.  Two timeouts that are
\* compared are less than Half apart only if the longest time and the lag of
\* a start that is interrupted together are.
ASSUME TimerType == /\ Width \in Nat \ {0} /\ TickMax \in Nat
                    /\ Time \subseteq 1 .. Half - 1
                    /\ Lag \in Nat
                    /\ \A n, m \in Time : n - m + Lag < Half
                    /\ \A n \in Time : n < Half
                    /\ RestartsOneShot \in BOOLEAN

VARIABLES rt_tick,
          s,         \* the timers and rt_timer_list, a record
          checking,  \* TRUE while the clock interrupt is in rt_timer_check
          pc         \* where the call for each timer is, "run" if there is none

vars == <<rt_tick, s, checking, pc>>

\* left and running are ghosts: how many ticks a started timer still has to
\* wait, in integers that do not wrap; the timers that were started, and since
\* then neither stopped nor, the one-shot ones, timed out, in the order of
\* their starts.
TimersType == [ live         : SUBSET Timer,  \* rt_timer_init was called
                list         : Seq(Timer),
                timeout_tick : [Timer -> Ticks],
                init_tick    : [Timer -> Time \cup {0}],
                periodic     : [Timer -> BOOLEAN],
                activated    : [Timer -> BOOLEAN],
                left         : [Timer -> Int],
                running      : Seq(Timer) ]

Label == {"run",
          "start",   \* rt_timer_start between its first section and the tick
          "link",    \* rt_timer_start with timeout_tick computed
          "remove",  \* rt_timer_stop with the flag tested
          "clear"}   \* rt_timer_stop with the timer removed

TypeOK == /\ rt_tick \in Ticks
          /\ s \in TimersType
          /\ checking \in BOOLEAN
          /\ pc \in [Timer -> Label]

\* The tick starts anywhere, so that it wraps soon.
Init ==
  /\ rt_tick \in Ticks
  /\ s = [ live         |-> {},
           list         |-> << >>,
           timeout_tick |-> [t \in Timer |-> 0],
           init_tick    |-> [t \in Timer |-> 0],
           periodic     |-> [t \in Timer |-> FALSE],
           activated    |-> [t \in Timer |-> FALSE],
           left         |-> [t \in Timer |-> 0],
           running      |-> << >> ]
  /\ checking = FALSE
  /\ pc = [t \in Timer |-> "run"]

Listed == ToSet(s.list)

-----------------------------------------------------------------------------
(* Sections of the timer functions *)

\* a - b in rt_tick_t.
Minus(m, n) == (m - n) % (TickMax + 1)

rt_timer_remove(r, t) == [r EXCEPT !.list = rt_list_remove(@, t)]

\* Removed by a call.
Stopped(r, t) ==
  [rt_timer_remove(r, t) EXCEPT !.running = rt_list_remove(@, t)]

Deactivate(r, t) == [r EXCEPT !.activated[t] = FALSE]

\* The first section of rt_timer_start.
StopFirst(r, t) == Deactivate(Stopped(r, t), t)

\* timer->timeout_tick = rt_tick_get() + timer->init_tick.
SetTimeout(r, t) ==
  [r EXCEPT !.timeout_tick[t] = (rt_tick + r.init_tick[t]) % (TickMax + 1),
            !.left[t] = r.init_tick[t]]

\* Faulty variant: timeouts are compared as integers.
LaterAsInteger(r, t) ==
  {i \in DOMAIN r.list : r.timeout_tick[r.list[i]] > r.timeout_tick[t]}

\* Where the search of rt_timer_start may stop: in front of a timer that is
\* later by less than Half ticks.
Later(r, t) ==
  {i \in DOMAIN r.list :
     Minus(r.timeout_tick[r.list[i]], r.timeout_tick[t]) \in 1 .. Half - 1}

\* The second section of rt_timer_start.
Link(r, t) ==
  LET later == Later(r, t)
  IN  [r EXCEPT !.list = IF later = {} THEN Append(@, t)
                         ELSE InsertBeforeNode(@, CHOOSE i \in later :
                                \A j \in later : i <= j, t),
                !.activated[t] = TRUE,
                !.running = Append(rt_list_remove(@, t), t)]

\* The two functions with interrupts disabled.
rt_timer_start(r, t) == Link(SetTimeout(StopFirst(r, t), t), t)

rt_timer_stop(r, t) ==
  IF r.activated[t] THEN Deactivate(Stopped(r, t), t) ELSE r

-----------------------------------------------------------------------------
(* Calls of the threads *)

\* The owner of t is in no call.  Timers that are left to the timeout
\* functions are only initialised by a thread.
Free(t) ==
  ~checking /\ \A u \in Timer : Owner[u] = Owner[t] => pc[u] = "run"

At(t, label) == ~checking /\ pc[t] = label

Goto(t, label) == pc' = [pc EXCEPT ![t] = label]

Callable(t) == Free(t) /\ Owner[t] # Isr /\ t \in s.live

\* rt_timer_init
TimerInit(t, time, flag) ==
  /\ Free(t) /\ t \notin s.live
  /\ s' = [s EXCEPT !.live = @ \cup {t},
                    !.init_tick[t] = time,
                    !.periodic[t] = flag,
                    !.activated[t] = FALSE,
                    !.timeout_tick[t] = 0]
  /\ UNCHANGED <<rt_tick, checking, pc>>

\* rt_timer_detach (rt_timer_delete): the flag is left as it is.
Detach(t) ==
  /\ Callable(t)
  /\ s' = [Stopped(s, t) EXCEPT !.live = @ \ {t}]
  /\ UNCHANGED <<rt_tick, checking, pc>>

StartFirst(t) ==
  /\ Callable(t)
  /\ s' = StopFirst(s, t)
  /\ Goto(t, "start")
  /\ UNCHANGED <<rt_tick, checking>>

StartTick(t) ==
  /\ At(t, "start")
  /\ s' = SetTimeout(s, t)
  /\ Goto(t, "link")
  /\ UNCHANGED <<rt_tick, checking>>

StartLink(t) ==
  /\ At(t, "link")
  /\ s' = Link(s, t)
  /\ Goto(t, "run")
  /\ UNCHANGED <<rt_tick, checking>>

\* rt_timer_stop tests the flag, removes the timer and clears the flag in
\* three steps.  A timer that is not active is refused.
StopTest(t) ==
  /\ Callable(t) /\ s.activated[t]
  /\ Goto(t, "remove")
  /\ UNCHANGED <<rt_tick, s, checking>>

StopRemove(t) ==
  /\ At(t, "remove")
  /\ s' = Stopped(s, t)
  /\ Goto(t, "clear")
  /\ UNCHANGED <<rt_tick, checking>>

StopClear(t) ==
  /\ At(t, "clear")
  /\ s' = Deactivate(s, t)
  /\ Goto(t, "run")
  /\ UNCHANGED <<rt_tick, checking>>

\* RT_TIMER_CTRL_SET_TIME, RT_TIMER_CTRL_SET_ONESHOT and _SET_PERIODIC
Control(t) ==
  /\ Callable(t)
  /\ \/ \E time \in Time : s' = [s EXCEPT !.init_tick[t] = time]
     \/ \E flag \in BOOLEAN : s' = [s EXCEPT !.periodic[t] = flag]
  /\ UNCHANGED <<rt_tick, checking, pc>>

-----------------------------------------------------------------------------
(* The clock interrupt *)

\* rt_tick_increase up to rt_timer_check.  No thread is kept from going on
\* with its start for more than Lag ticks.
Tick ==
  /\ ~checking
  /\ \A t \in Timer : pc[t] = "link" => s.init_tick[t] - s.left[t] < Lag
  /\ rt_tick' = (rt_tick + 1) % (TickMax + 1)
  /\ s' = [s EXCEPT !.left = [t \in Timer |->
             IF t \in Listed \/ pc[t] = "link" THEN s.left[t] - 1
             ELSE s.left[t]]]
  /\ checking' = TRUE
  /\ UNCHANGED <<pc>>

\* What the timeout function of t may have done to the timers.  It may use
\* its own timer and those that are left to timeout functions.
TimeoutFunction(r, t) ==
  LET used == {u \in r.live : u = t \/ Owner[u] = Isr}
      started == {u \in used : u = t => r.periodic[t] \/ RestartsOneShot}
  IN  {r} \cup {rt_timer_stop(r, u) : u \in used}
          \cup {rt_timer_start(r, u) : u \in started}

\* Faulty variant: the flag is cleared after the periodic timer was started.
ClearAfterStart(r, t) ==
  IF r.periodic[t] /\ r.activated[t] THEN Deactivate(rt_timer_start(r, t), t)
  ELSE Deactivate(r, t)

\* rt_timer_check after the timeout function of t.
Restart(r, t) ==
  IF r.periodic[t] /\ r.activated[t] THEN rt_timer_start(Deactivate(r, t), t)
  ELSE Deactivate(r, t)

\* Faulty variant: a tick that has not wrapped is assumed.
DueAsInteger(t) == rt_tick >= s.timeout_tick[t]

Due(t) == Minus(rt_tick, s.timeout_tick[t]) < Half

\* Removed by rt_timer_check.
Expired(r, t) ==
  [rt_timer_remove(r, t) EXCEPT
     !.running = IF r.periodic[t] THEN @ ELSE rt_list_remove(@, t)]

FirstIsDue == s.list # << >> /\ Due(Head(s.list))

\* One turn of the loop in rt_timer_check, and its end.
CheckTurn ==
  /\ checking /\ FirstIsDue
  /\ LET t == Head(s.list)
     IN  \E r \in TimeoutFunction(Expired(s, t), t) : s' = Restart(r, t)
  /\ UNCHANGED <<rt_tick, checking, pc>>

CheckEnd ==
  /\ checking /\ ~FirstIsDue
  /\ checking' = FALSE
  /\ UNCHANGED <<rt_tick, s, pc>>

Next ==
  \/ \E t \in Timer :
       \/ \E time \in Time, flag \in BOOLEAN : TimerInit(t, time, flag)
       \/ StartFirst(t) \/ StartTick(t) \/ StartLink(t)
       \/ StopTest(t) \/ StopRemove(t) \/ StopClear(t)
       \/ Detach(t) \/ Control(t)
  \/ Tick \/ CheckTurn \/ CheckEnd

Spec == Init /\ [][Next]_vars

-----------------------------------------------------------------------------
(* Properties *)

\* rt_timer_check looks at the first timer only: the list is in the order of
\* the time the timers really have to wait, across every wrap of the tick
\* and however late a start that was interrupted links its timer; and of two
\* with the same time "the timer inserted early get called early"
\* (timer.c:352).
ListInOrder ==
  \A i, j \in DOMAIN s.list :
    i < j => LET t == s.list[i]
                 u == s.list[j]
             IN  \/ s.left[t] < s.left[u]
                 \/ /\ s.left[t] = s.left[u]
                    /\ Position(s.running, t) < Position(s.running, u)

\* No timeout function is called before its time, and none whose time has
\* come is left for the next clock interrupt.
OnTime ==
  [][checking => IF checking' THEN s.left[Head(s.list)] <= 0
                 ELSE \A t \in Listed : s.left[t] > 0]_vars

\* A timer is in the list from its start until it is stopped or, a one-shot
\* timer, times out, and as long it is ACTIVATED, without which rt_timer_stop
\* refuses it and rt_timer_check does not start it again: whatever clock
\* interrupts and timeout functions come between the steps of the calls.
RunningAreListed ==
  \A t \in s.live :
    /\ t \in ToSet(s.running) <=> t \in Listed
    /\ t \in Listed => s.activated[t]
    /\ s.activated[t] => t \in Listed \/ pc[t] = "clear"
=============================================================================
