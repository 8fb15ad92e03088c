------------------------- MODULE ConsumerGroupHandle -------------------------
(***************************************************************************)
(* What the sarama.ConsumerGroup returned by the consumer factory          *)
(* promises its user (spec.md 4.2 "close()", 5 "Cancellation" and 9        *)
(* "Merged error stream"), with no goroutines or channels:                 *)
(*   - once started, a consume loop runs and emits errors into the stream; *)
(*   - Close cancels the loop; the loop is released only after that;      *)
(*   - the underlying group is closed only after the loop was released;   *)
(*   - the error stream ends only after the group is closed and every      *)
(*     error emitted has been delivered, and delivery is never duplicated. *)
(* ConsumerFactory refines this specification.                             *)
(***************************************************************************)
EXTENDS Naturals

CONSTANT MaxErrors          \* bound on the errors the loop emits

VARIABLES
  started,       \* "no", "failed" (newConsumerGroup failed) or "yes"
  cancelled,     \* Close has cancelled the consume loop
  loopDone,      \* the consume loop has exited and been released
  groupClosed,   \* the underlying consumer group is closed
  emitted,       \* errors the loop has put into the stream
  delivered,     \* errors the user has received from the stream
  streamClosed   \* the user has seen the end of the error stream

hvars == <<started, cancelled, loopDone, groupClosed, emitted, delivered,
           streamClosed>>

Init ==
  /\ started = "no"
  /\ cancelled = FALSE
  /\ loopDone = FALSE
  /\ groupClosed = FALSE
  /\ emitted = 0
  /\ delivered = 0
  /\ streamClosed = FALSE

Start ==
  /\ started = "no"
  /\ started' \in {"failed", "yes"}
  /\ UNCHANGED <<cancelled, loopDone, groupClosed, emitted, delivered,
                 streamClosed>>

Emit ==
  /\ started = "yes" /\ ~loopDone
  /\ emitted < MaxErrors
  /\ emitted' = emitted + 1
  /\ UNCHANGED <<started, cancelled, loopDone, groupClosed, delivered,
                 streamClosed>>

Deliver ==
  /\ delivered < emitted
  /\ delivered' = delivered + 1
  /\ UNCHANGED <<started, cancelled, loopDone, groupClosed, emitted,
                 streamClosed>>

Cancel ==
  /\ started = "yes" /\ ~cancelled
  /\ cancelled' = TRUE
  /\ UNCHANGED <<started, loopDone, groupClosed, emitted, delivered,
                 streamClosed>>

LoopExit ==
  /\ cancelled /\ ~loopDone
  /\ loopDone' = TRUE
  /\ UNCHANGED <<started, cancelled, groupClosed, emitted, delivered,
                 streamClosed>>

GroupClose ==
  /\ loopDone /\ ~groupClosed
  /\ groupClosed' = TRUE
  /\ UNCHANGED <<started, cancelled, loopDone, emitted, delivered,
                 streamClosed>>

StreamClose ==
  /\ groupClosed /\ delivered = emitted /\ ~streamClosed
  /\ streamClosed' = TRUE
  /\ UNCHANGED <<started, cancelled, loopDone, groupClosed, emitted,
                 delivered>>

Next ==
  Start \/ Emit \/ Deliver \/ Cancel \/ LoopExit \/ GroupClose \/ StreamClose

(* Once cancelled, the loop is released and the group closed; every       *)
(* emitted error is delivered, and the stream ends once the group is      *)
(* closed.  Starting, emitting and cancelling are the user's choice.      *)
Spec ==
  /\ Init /\ [][Next]_hvars
  /\ WF_hvars(Deliver) /\ WF_hvars(LoopExit)
  /\ WF_hvars(GroupClose) /\ WF_hvars(StreamClose)
=============================================================================
