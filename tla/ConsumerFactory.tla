--------------------------- MODULE ConsumerFactory ---------------------------
(***************************************************************************)
(* kafkaConsumerGroupFactoryImpl.StartConsumerGroup, the consume goroutine *)
(* it spawns, customConsumerGroup.Close and customConsumerGroup.Errors     *)
(* (mergeErrorChannels) of pkg/common/consumer/consumer_manager.go, for    *)
(* one group.  The goroutines are:                                         *)
(*   - the consume loop (lines 424-446), with the consumer handler that    *)
(*     sends handler errors to errorCh while Consume runs;                 *)
(*   - one goroutine per caller of Close (Closers);                        *)
(*   - the user ranging over Errors(), and for every Errors() call the two *)
(*     forwarding goroutines and the closing goroutine of                  *)
(*     mergeErrorChannels.                                                 *)
(* errorCh is a channel of capacity ErrorChCapacity holding only a count:  *)
(* errors are told apart by nothing the properties need.  releasedCh and   *)
(* each merged "out" channel are unbuffered, so a send and its receive are *)
(* one step.  sarama's own Errors() channel is abstracted to "closed when  *)
(* ConsumerGroup.Close runs"; the errors sarama returns are not modelled.  *)
(***************************************************************************)
EXTENDS Naturals

CONSTANTS
  Closers,          \* goroutines that call Close on the returned group
  ErrorChCapacity,  \* make(chan error, 10)
  MaxErrors,        \* bound on errors sent to errorCh
  MaxMerges,        \* bound on Errors() calls (0: Errors is never called)
  FairErrorsCall    \* the user eventually calls Errors() and ranges over it

ASSUME
  /\ ErrorChCapacity \in Nat \ {0}
  /\ {MaxErrors, MaxMerges} \subseteq Nat
  /\ FairErrorsCall \in BOOLEAN

Merges == 1..MaxMerges

VARIABLES
  startPc,     \* StartConsumerGroup: "start", "failed", "started"
  loopPc,      \* the consume goroutine's program counter
  buf,         \* errors buffered in errorCh
  errClosed,   \* close(errorCh) has run
  sent,        \* errors sent into errorCh so far
  ctxDone,     \* the cancel of the goroutine's context has been called
  saramaClosed,\* the embedded sarama ConsumerGroup has been closed
  closePc,     \* per Close caller: "idle", "waitReleased", "closeGroup", "done"
  merges,      \* Errors() calls so far
  fwdH,        \* per merge: forwarder of errorCh: "recv", "send", "done"
  fwdS,        \* per merge: forwarder of sarama's Errors(): "recv", "done"
  outClosed,   \* per merge: close(out) has run
  readPc,      \* the Errors() user: "idle", "reading", "done"
  cur,         \* the merge whose out channel the user reads
  delivered    \* errors the user has received

vars == <<startPc, loopPc, buf, errClosed, sent, ctxDone, saramaClosed,
          closePc, merges, fwdH, fwdS, outClosed, readPc, cur, delivered>>
loopVars == <<loopPc, buf, errClosed, sent>>
mergeVars == <<merges, fwdH, fwdS, outClosed, readPc, cur, delivered>>

LoopPcs == {"none", "consume", "handlerSend", "sendErr", "check",
            "closeErrorCh", "release", "exited"}

Init ==
  /\ startPc = "start"
  /\ loopPc = "none"
  /\ buf = 0 /\ errClosed = FALSE /\ sent = 0
  /\ ctxDone = FALSE /\ saramaClosed = FALSE
  /\ closePc = [c \in Closers |-> "idle"]
  /\ merges = 0
  /\ fwdH = [m \in Merges |-> "recv"]
  /\ fwdS = [m \in Merges |-> "recv"]
  /\ outClosed = [m \in Merges |-> FALSE]
  /\ readPc = "idle" /\ cur = 0 /\ delivered = 0

(* StartConsumerGroup: newConsumerGroup fails and nil is returned, or the  *)
(* group is registered with the manager, errorCh, releasedCh and the       *)
(* context are made and the consume goroutine is started.                  *)
StartConsumerGroup ==
  /\ startPc = "start"
  /\ \/ startPc' = "failed" /\ UNCHANGED loopPc
     \/ startPc' = "started" /\ loopPc' = "consume"
  /\ UNCHANGED <<buf, errClosed, sent, ctxDone, saramaClosed, closePc,
                 mergeVars>>

(* A send on errorCh completes when the buffer has room.                   *)
SendToErrorCh(to) ==
  /\ buf < ErrorChCapacity
  /\ buf' = buf + 1 /\ sent' = sent + 1
  /\ loopPc' = to

(* ------------------------- the consume goroutine ----------------------- *)

(* The consumer handler built at line 430 reports an error on errorCh      *)
(* while Consume runs; Consume does not return while that send blocks.     *)
HandlerError ==
  /\ loopPc = "consume" /\ sent < MaxErrors
  /\ loopPc' = "handlerSend"
  /\ UNCHANGED <<buf, errClosed, sent>>

HandlerSendDone ==
  /\ loopPc = "handlerSend"
  /\ SendToErrorCh("consume")
  /\ UNCHANGED errClosed

(* manager.Consume returns ErrClosedConsumerGroup, another error, or nil.  *)
Consume ==
  /\ loopPc = "consume"
  /\ \/ loopPc' = "closeErrorCh"
     \/ sent < MaxErrors /\ loopPc' = "sendErr"
     \/ loopPc' = "check"
  /\ UNCHANGED <<buf, errClosed, sent>>

SendConsumeErrorUnbounded ==
  /\ loopPc = "sendErr"
  /\ buf' = buf + 1 /\ sent' = sent + 1 /\ loopPc' = "check"
  /\ UNCHANGED errClosed

SendConsumeError ==
  /\ loopPc = "sendErr"
  /\ SendToErrorCh("check")
  /\ UNCHANGED errClosed

CheckContextIgnored ==
  /\ loopPc = "check"
  /\ loopPc' = "consume"
  /\ UNCHANGED <<buf, errClosed, sent>>

(* select on ctx.Done() with a default: return, or consume again.          *)
CheckContext ==
  /\ loopPc = "check"
  /\ loopPc' = IF ctxDone THEN "closeErrorCh" ELSE "consume"
  /\ UNCHANGED <<buf, errClosed, sent>>

(* The first deferred statement: close(errorCh).                           *)
CloseErrorCh ==
  /\ loopPc = "closeErrorCh"
  /\ errClosed' = TRUE /\ loopPc' = "release"
  /\ UNCHANGED <<buf, sent>>

Loop ==
  /\ \/ HandlerError \/ HandlerSendDone \/ Consume \/ SendConsumeError
     \/ CheckContext \/ CloseErrorCh
  /\ UNCHANGED <<startPc, ctxDone, saramaClosed, closePc, mergeVars>>

(* -------------------------------- Close -------------------------------- *)

(* c.cancel(); the caller then blocks on <-c.releasedCh.                   *)
CallClose(c) ==
  /\ startPc = "started" /\ closePc[c] = "idle"
  /\ ctxDone' = TRUE
  /\ closePc' = [closePc EXCEPT ![c] = "waitReleased"]
  /\ UNCHANGED <<startPc, loopVars, saramaClosed, mergeVars>>

ReleasedNoWait(c) ==
  /\ closePc[c] = "waitReleased"
  /\ closePc' = [closePc EXCEPT ![c] = "closeGroup"]
  /\ loopPc' = IF loopPc = "release" THEN "exited" ELSE loopPc
  /\ UNCHANGED <<startPc, buf, errClosed, sent, ctxDone, saramaClosed,
                 mergeVars>>

(* The deferred releasedCh <- true meets Close's <-c.releasedCh.           *)
Released(c) ==
  /\ loopPc = "release" /\ closePc[c] = "waitReleased"
  /\ loopPc' = "exited"
  /\ closePc' = [closePc EXCEPT ![c] = "closeGroup"]
  /\ UNCHANGED <<startPc, buf, errClosed, sent, ctxDone, saramaClosed,
                 mergeVars>>

(* return c.ConsumerGroup.Close(): sarama closes its Errors() channel.     *)
CloseConsumerGroup(c) ==
  /\ closePc[c] = "closeGroup"
  /\ saramaClosed' = TRUE
  /\ closePc' = [closePc EXCEPT ![c] = "done"]
  /\ UNCHANGED <<startPc, loopVars, ctxDone, mergeVars>>

(* ------------------- Errors() and mergeErrorChannels ------------------- *)

(* Errors() merges sarama's channel and errorCh into a new out channel;    *)
(* the user reads the newest one, leaving any earlier one unread.          *)
Errors ==
  /\ startPc = "started" /\ readPc # "done" /\ merges < MaxMerges
  /\ merges' = merges + 1 /\ cur' = merges + 1
  /\ readPc' = "reading"
  /\ UNCHANGED <<startPc, loopVars, ctxDone, saramaClosed, closePc, fwdH,
                 fwdS, outClosed, delivered>>

(* for v := range c: take a buffered error, or end the range (wg.Done)     *)
(* once errorCh is closed and empty.                                       *)
ForwardHandler(m) ==
  /\ m <= merges /\ fwdH[m] = "recv"
  /\ \/ buf > 0 /\ buf' = buf - 1 /\ fwdH' = [fwdH EXCEPT ![m] = "send"]
     \/ buf = 0 /\ errClosed /\ fwdH' = [fwdH EXCEPT ![m] = "done"]
        /\ UNCHANGED buf
  /\ UNCHANGED <<startPc, loopPc, errClosed, sent, ctxDone, saramaClosed,
                 closePc, merges, fwdS, outClosed, readPc, cur, delivered>>

(* The range over sarama's Errors() ends when the group is closed.         *)
ForwardSarama(m) ==
  /\ m <= merges /\ fwdS[m] = "recv" /\ saramaClosed
  /\ fwdS' = [fwdS EXCEPT ![m] = "done"]
  /\ UNCHANGED <<startPc, loopVars, ctxDone, saramaClosed, closePc, merges,
                 fwdH, outClosed, readPc, cur, delivered>>

(* wg.Wait() for both forwarders, then close(out).                         *)
CloseOut(m) ==
  /\ m <= merges /\ ~outClosed[m]
  /\ fwdH[m] = "done" /\ fwdS[m] = "done"
  /\ outClosed' = [outClosed EXCEPT ![m] = TRUE]
  /\ UNCHANGED <<startPc, loopVars, ctxDone, saramaClosed, closePc, merges,
                 fwdH, fwdS, readPc, cur, delivered>>

(* The user receives from out: the forwarder's out <- v, or the end of     *)
(* the range once out is closed.                                           *)
Receive ==
  /\ readPc = "reading"
  /\ \/ /\ fwdH[cur] = "send"
        /\ fwdH' = [fwdH EXCEPT ![cur] = "recv"]
        /\ delivered' = delivered + 1
        /\ UNCHANGED readPc
     \/ /\ outClosed[cur]
        /\ readPc' = "done"
        /\ UNCHANGED <<fwdH, delivered>>
  /\ UNCHANGED <<startPc, loopVars, ctxDone, saramaClosed, closePc, merges,
                 fwdS, outClosed, cur>>

Merge(m) == ForwardHandler(m) \/ ForwardSarama(m) \/ CloseOut(m)

(* Every goroutine has finished, or the factory failed.                    *)
Terminating ==
  /\ \/ startPc = "failed"
     \/ /\ loopPc = "exited"
        /\ \A c \in Closers : closePc[c] = "done"
        /\ readPc = "done" \/ MaxMerges = 0
  /\ UNCHANGED vars

Next ==
  \/ StartConsumerGroup \/ Loop
  \/ \E c \in Closers : CallClose(c) \/ Released(c) \/ CloseConsumerGroup(c)
  \/ Errors \/ Receive \/ \E m \in Merges : Merge(m)
  \/ Terminating

(* Go schedules every runnable goroutine; whether the user calls Close,    *)
(* and calls Errors() more than once, is the user's choice.                *)
Spec ==
  /\ Init /\ [][Next]_vars
  /\ WF_vars(StartConsumerGroup) /\ WF_vars(Loop)
  /\ \A c \in Closers : WF_vars(Released(c)) /\ WF_vars(CloseConsumerGroup(c))
  /\ \A m \in Merges : WF_vars(Merge(m))
  /\ WF_vars(Receive)
  /\ FairErrorsCall => WF_vars(readPc = "idle" /\ Errors)

-----------------------------------------------------------------------------
TypeOK ==
  /\ startPc \in {"start", "failed", "started"}
  /\ loopPc \in LoopPcs
  /\ buf \in 0..ErrorChCapacity /\ sent \in 0..MaxErrors
  /\ {errClosed, ctxDone, saramaClosed} \subseteq BOOLEAN
  /\ closePc \in [Closers -> {"idle", "waitReleased", "closeGroup", "done"}]
  /\ merges \in 0..MaxMerges /\ cur \in 0..MaxMerges
  /\ fwdH \in [Merges -> {"recv", "send", "done"}]
  /\ fwdS \in [Merges -> {"recv", "done"}]
  /\ outClosed \in [Merges -> BOOLEAN]
  /\ readPc \in {"idle", "reading", "done"} /\ delivered \in 0..MaxErrors

(* Every call of customConsumerGroup.Close returns: after c.cancel() the   *)
(* consume goroutine leaves its loop, closes errorCh and hands over on     *)
(* releasedCh, so <-c.releasedCh does not block forever.                   *)
CloseReturns ==
  \A c \in Closers : closePc[c] = "waitReleased" ~> closePc[c] = "done"

(* Every error sent to errorCh (by the consumer handler or for a Consume   *)
(* error) reaches the user of Errors() once the user has called it.        *)
ErrorsEventuallyDelivered ==
  \A n \in 1..MaxErrors : (sent >= n /\ merges > 0) ~> delivered >= n

(* The goroutines and channels implement ConsumerGroupHandle: the stream  *)
(* the user sees is the one Errors() returned to it.                       *)
Handle == INSTANCE ConsumerGroupHandle WITH
  started <- CASE startPc = "start" -> "no"
               [] startPc = "failed" -> "failed"
               [] startPc = "started" -> "yes",
  cancelled <- ctxDone,
  loopDone <- loopPc = "exited",
  groupClosed <- saramaClosed,
  emitted <- sent,
  streamClosed <- readPc = "done"

(* The factory's group keeps the promises of ConsumerGroupHandle: the      *)
(* loop is released only after Close cancelled it, the sarama group is     *)
(* closed only after that, the error stream ends only when every error     *)
(* sent to errorCh has been delivered, and (under the fairness of Spec)    *)
(* each of these eventually happens.                                       *)
HandleSpec == Handle!Spec
=============================================================================
