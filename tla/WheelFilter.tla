---------------------------- MODULE WheelFilter ----------------------------
(***************************************************************************)
(* The smoothing filter between the rotary encoder and the app switcher    *)
(* (struct wheel_filter_state, wheel_on_delta and wheel_try_emit of        *)
(* daemon/button_listener.c), as functions of its state and of the time.   *)
(* Times are readings of a clock that starts above 0: 0 stands for never.  *)
(***************************************************************************)
EXTENDS Integers

CONSTANTS
  EventDebounce,     \* WHEEL_EVENT_DEBOUNCE_MS
  EmitInterval,      \* WHEEL_EMIT_INTERVAL_MS
  IdleReset,         \* WHEEL_IDLE_RESET_MS
  ReverseThreshold,  \* WHEEL_REVERSE_THRESHOLD
  AccumMax,          \* WHEEL_ACCUM_MAX
  DeltaMax           \* the magnitude a single event is cut to

ASSUME WheelAssumption ==
  /\ EventDebounce \in Nat
  /\ EmitInterval \in Nat
  /\ IdleReset \in Nat
  /\ ReverseThreshold \in Nat \ {0}
  /\ AccumMax \in Nat \ {0}
  /\ DeltaMax \in Nat \ {0}

WheelStates ==
  [accum : -AccumMax..AccumMax, outDir : {-1, 0, 1}, rawDir : {-1, 0, 1},
   rawAt : Nat, emitAt : Nat]

WheelReset == [accum |-> 0, outDir |-> 0, rawDir |-> 0, rawAt |-> 0, emitAt |-> 0]

Sign(n) == IF n > 0 THEN 1 ELSE IF n < 0 THEN -1 ELSE 0

Magnitude(n) == IF n < 0 THEN -n ELSE n

(* v cut to the interval -limit..limit. *)
Clamp(v, limit) == IF v > limit THEN limit ELSE IF v < -limit THEN -limit ELSE v

(* A tick in the direction of the last one, too soon after it. *)
IsBounce(w, delta, now) ==
  w.rawDir = Sign(delta) /\ now - w.rawAt < EventDebounce

(* Mutant: what is owed has no upper limit. *)
OnDeltaMutant(w, delta, now) ==
  IF Sign(delta) = 0 THEN w
  ELSE IF IsBounce(w, delta, now) THEN [w EXCEPT !.rawAt = now]
  ELSE [w EXCEPT !.rawDir = Sign(delta),
                 !.rawAt  = now,
                 !.accum  = @ + Clamp(delta, DeltaMax)]

OnDelta(w, delta, now) ==
  IF Sign(delta) = 0 THEN w
  ELSE IF IsBounce(w, delta, now) THEN [w EXCEPT !.rawAt = now]
  ELSE [w EXCEPT !.rawDir = Sign(delta),
                 !.rawAt  = now,
                 !.accum  = Clamp(@ + Clamp(delta, DeltaMax), AccumMax)]

(* Mutant: one tick is enough to reverse. *)
ThresholdMutant(w) == 1

(* Steps owed before one is emitted: one, or more against the direction of *)
(* the last step.                                                          *)
Threshold(w) ==
  IF w.outDir # 0 /\ Sign(w.accum) # w.outDir THEN ReverseThreshold ELSE 1

(* Mutant: the emit interval is not waited for. *)
MayEmitMutant(w, now) ==
  /\ w.accum # 0
  /\ Magnitude(w.accum) >= Threshold(w)

MayEmit(w, now) ==
  /\ w.accum # 0
  /\ ~(w.emitAt # 0 /\ now - w.emitAt < EmitInterval)
  /\ Magnitude(w.accum) >= Threshold(w)

(* With nothing owed for long enough, the next direction is a fresh one. *)
IsIdle(w, now) ==
  /\ w.accum = 0
  /\ w.outDir # 0
  /\ w.rawAt # 0 /\ now - w.rawAt > IdleReset

(* The step taken now: 1 forward, -1 backward, 0 none. *)
StepOf(w, now) == IF MayEmit(w, now) THEN Sign(w.accum) ELSE 0

(* Mutant: an emitted step stays owed. *)
AfterTryMutant(w, now) ==
  IF MayEmit(w, now) THEN [w EXCEPT !.emitAt = now, !.outDir = Sign(w.accum)]
  ELSE IF IsIdle(w, now) THEN [w EXCEPT !.outDir = 0]
  ELSE w

AfterTry(w, now) ==
  IF MayEmit(w, now)
  THEN [w EXCEPT !.accum  = @ - Sign(w.accum),
                 !.emitAt = now,
                 !.outDir = Sign(w.accum)]
  ELSE IF IsIdle(w, now) THEN [w EXCEPT !.outDir = 0]
  ELSE w
=============================================================================
