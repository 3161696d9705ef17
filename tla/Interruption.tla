---------------------------- MODULE Interruption -----------------------------
(* How an evaluation is interrupted (kernel/libhaplo/interruptible.c): the   *)
(* handler of SIGINT jumps back to where the evaluation was begun. An        *)
(* evaluation may begin another one (include); there is one jump buffer.     *)
EXTENDS Naturals, Sequences, SequencesExt

CONSTANTS
  MaxDepth,       \* bound on the evaluations inside one another
  MaxEvaluations  \* bound on the evaluations begun

ASSUME InterruptionAssumption == MaxDepth \in Nat /\ MaxEvaluations \in Nat

VARIABLES
  frames,       \* evaluations from the outermost: [id, pc, nested]
  begun,        \* evaluations begun so far
  interruptible_interrupted, interruptible_monitor,
  interruptible_jmp  \* the evaluation the buffer belongs to

interruptionVars ==
  <<frames, begun, interruptible_interrupted, interruptible_monitor, interruptible_jmp>>

Top == Last(frames)
At(pc) == frames # <<>> /\ Top.pc = pc
Goto(pc) == frames' = [frames EXCEPT ![Len(frames)].pc = pc]

\* Back to the evaluation around, which is told.
Return ==
  frames' = [k \in 1..(Len(frames) - 1) |->
               IF k = Len(frames) - 1 THEN [frames[k] EXCEPT !.nested = TRUE] ELSE frames[k]]

__haplo_interruptible_init ==
  frames = <<>> /\ begun = 0 /\ interruptible_interrupted = 0 /\ interruptible_monitor = 0
  /\ interruptible_jmp = 0

\* sigsetjmp returns 0.
sigsetjmp ==
  /\ frames = <<>> \/ At("function")
  /\ Len(frames) < MaxDepth /\ begun < MaxEvaluations
  /\ begun' = begun + 1
  /\ frames' = Append(frames, [id |-> begun + 1, pc |-> "set", nested |-> FALSE])
  /\ interruptible_jmp' = begun + 1
  /\ UNCHANGED <<interruptible_interrupted, interruptible_monitor>>

\* Mutant: only the outermost evaluation is armed.
CallOutermost ==
  /\ At("set")
  /\ IF interruptible_interrupted = 1
     THEN interruptible_interrupted' = 0 /\ Return /\ UNCHANGED interruptible_monitor
     ELSE /\ interruptible_monitor' = IF Len(frames) = 1 THEN 1 ELSE interruptible_monitor
          /\ Goto("function") /\ UNCHANGED interruptible_interrupted
  /\ UNCHANGED <<begun, interruptible_jmp>>

Call ==
  /\ At("set")
  /\ IF interruptible_interrupted = 1
     THEN interruptible_interrupted' = 0 /\ Return /\ UNCHANGED interruptible_monitor
     ELSE interruptible_monitor' = 1 /\ Goto("function") /\ UNCHANGED interruptible_interrupted
  /\ UNCHANGED <<begun, interruptible_jmp>>

\* The function has returned; the monitor is still on.
Ended ==
  /\ At("function") /\ Goto("ended")
  /\ UNCHANGED <<begun, interruptible_interrupted, interruptible_monitor, interruptible_jmp>>

\* Mutant: the monitor stays on.
DisarmNever ==
  /\ At("ended") /\ Return
  /\ UNCHANGED <<begun, interruptible_interrupted, interruptible_monitor, interruptible_jmp>>

Disarm ==
  /\ At("ended") /\ interruptible_monitor' = 0 /\ Return
  /\ UNCHANGED <<begun, interruptible_interrupted, interruptible_jmp>>

\* Mutant: the interruption is remembered.
LandedRemembers ==
  /\ At("landed") /\ Return
  /\ UNCHANGED <<begun, interruptible_interrupted, interruptible_monitor, interruptible_jmp>>

\* sigsetjmp returns the number of the signal.
Landed ==
  /\ At("landed") /\ interruptible_interrupted' = 0 /\ Return
  /\ UNCHANGED <<begun, interruptible_monitor, interruptible_jmp>>

\* SIGINT, at any moment; a jump abandons the evaluations inside the one it returns to,
\* there is nowhere to go when that one is over.
interruptible_handler ==
  /\ interruptible_interrupted = 0 /\ interruptible_monitor = 1
  /\ interruptible_interrupted' = 1 /\ interruptible_monitor' = 0
  /\ LET to == {k \in DOMAIN frames : frames[k].id = interruptible_jmp}
     IN  frames' = IF to = {} THEN <<>>
                   ELSE LET k == CHOOSE k \in to : TRUE
                        IN  Append(SubSeq(frames, 1, k - 1), [frames[k] EXCEPT !.pc = "landed"])
  /\ UNCHANGED <<begun, interruptible_jmp>>

InterruptionNext ==
  sigsetjmp \/ Call \/ Ended \/ Disarm \/ Landed \/ interruptible_handler

InterruptionSpec == __haplo_interruptible_init /\ [][InterruptionNext]_interruptionVars

-----------------------------------------------------------------------------
\* A signal that is taken ends the innermost evaluation, which is not over: the one jump
\* buffer is that evaluation's whenever the monitor is on (interruptible.c:150-168).
JumpsToInnermost ==
  interruptible_monitor = 1 => frames # <<>> /\ Top.id = interruptible_jmp

\* An evaluation in which no other ran can be interrupted all the while; one that ran
\* inside it turns the monitor off for both (interruptible.c:181-200).
CanBeInterrupted ==
  At("function") => (~Top.nested => interruptible_monitor = 1)

\* A signal is never taken twice nor remembered past the evaluation it ended: the
\* flag that makes the handler deaf is up between the jump and its end only.
NotDeaf == interruptible_interrupted = 1 => At("landed")

\* SIGINT ends the innermost evaluation and no other, whenever it comes and however
\* deep evaluations are, and is heard again afterwards (interruptible.c:150-200).
EndsInnermost == JumpsToInnermost /\ CanBeInterrupted /\ NotDeaf
=============================================================================
