------------------------------ MODULE RtTimer -------------------------------
(***************************************************************************)
(* The hard timers of the RT-Thread kernel (timer.c): one list, sorted by  *)
(* the tick at which a timer is due.  Ticks are counted modulo             *)
(* RT_TICK_MAX + 1, and two of them are compared by their distance: less   *)
(* than RT_TICK_MAX / 2 means "later".                                     *)
(*                                                                         *)
(* The functions take the kernel's timers and return them changed, so that *)
(* several calls in one handler can be composed:                           *)
(*   tick     rt_tick                                                      *)
(*   list     _timer_list (RT_TIMER_SKIP_LIST_LEVEL is 1)                  *)
(*   timeout  timeout_tick of every timer; 0 when it is not in the list,   *)
(*            where nobody reads it                                        *)
(*   earlier  history: which timer of the list was started before which    *)
(***************************************************************************)
EXTENDS Integers, SequencesExt

CONSTANT TickMax  \* RT_TICK_MAX

ASSUME TickAssumption == TickMax \in Nat \ {0}

(* a - b in rt_tick_t *)
Minus(a, b) == (a - b) % (TickMax + 1)

Later(a, b) == Minus(a, b) < TickMax \div 2

(* Nothing is started yet. *)
NoTimers(S) == [tick |-> 0, list |-> <<>>, timeout |-> [t \in S |-> 0], earlier |-> {}]

Forget(earlier, T) == {p \in earlier : p[1] \notin T /\ p[2] \notin T}

(* A timer that is not in the list is not ACTIVATED: nothing happens. *)
rt_timer_stop(k, t) ==
  [k EXCEPT !.timeout[t] = 0, !.list = RemoveFirst(@, t), !.earlier = Forget(@, {t})]

(* Mutant: ticks are compared as numbers. *)
InsertPlace_NoWrap(list, timeout, due) == SelectInSeq(list, LAMBDA u : timeout[u] > due)

(* Mutant: the new timer goes before timers that are due with it. *)
InsertPlace_BeforeEqual(list, timeout, due) == SelectInSeq(list, LAMBDA u : Later(timeout[u], due))

(* The first timer of the list that is due after the new one, 0 when there *)
(* is none: timers that are due together keep the order of their starts.   *)
InsertPlace(list, timeout, due) ==
  SelectInSeq(list, LAMBDA u : timeout[u] # due /\ Later(timeout[u], due))

(* rt_timer_start(), with time as init_tick. *)
rt_timer_start(k, t, time) ==
  LET due == (k.tick + time) % (TickMax + 1)
      others == RemoveFirst(k.list, t)
      place == InsertPlace(others, k.timeout, due)
  IN  [k EXCEPT !.timeout[t] = due,
                !.list = IF place = 0 THEN Append(others, t) ELSE InsertAt(others, place, t),
                !.earlier = Forget(@, {t}) \cup (ToSet(others) \X {t})]

(* ++rt_tick *)
NextTick(k) == [k EXCEPT !.tick = (@ + 1) % (TickMax + 1)]

(* rt_timer_check() takes timers off the head of the list until one is not *)
(* due.  (The callbacks of one-shot timers here start no timer.)           *)
Expired(k) ==
  LET first == SelectInSeq(k.list, LAMBDA t : ~Later(k.tick, k.timeout[t]))
  IN  IF first = 0 THEN k.list ELSE SubSeq(k.list, 1, first - 1)

Unexpired(k) ==
  LET gone == ToSet(Expired(k))
  IN  [k EXCEPT !.list = SubSeq(@, Len(Expired(k)) + 1, Len(@)),
                !.timeout = [t \in DOMAIN @ |-> IF t \in gone THEN 0 ELSE @[t]],
                !.earlier = Forget(@, gone)]
=============================================================================
