------------------------ MODULE ConsumerGroupManager ------------------------
(***************************************************************************)
(* The KafkaConsumerGroupManager of pkg/common/consumer/consumer_manager.go *)
(* with its callers running concurrently:                                  *)
(*   - one control-protocol controller per lock token, whose async         *)
(*     StopConsumerGroup / StartConsumerGroup commands are handled by      *)
(*     processAsyncGroupNotification -> stopConsumerGroup /                *)
(*     startConsumerGroup;                                                 *)
(*   - the caller of Reconfigure (one goroutine, e.g. a config watcher);   *)
(*   - the caller of StartConsumerGroup / CloseConsumerGroup (one          *)
(*     reconciler goroutine).                                              *)
(* Every step of an operation that reads or writes shared state (the       *)
(* groups map, the factory pointer, a managed group) is one action, so     *)
(* the operations interleave exactly where the Go code can be preempted    *)
(* between two calls.                                                      *)
(*                                                                         *)
(* A Sarama session is abstracted to the factory configuration it was      *)
(* created with.  The managedGroup type (stop/start/close/processLock) is  *)
(* not in the source tree; it is modelled from spec.md section 4.2.        *)
(***************************************************************************)
EXTENDS Integers, FiniteSets

CONSTANTS
  Groups,             \* group ids the callers use
  Tokens,             \* lock tokens, one control-protocol controller each
  Internal,           \* internalToken, the token Reconfigure locks with;
                      \* a controller may send the same string (line 52)
  NoToken,            \* lockedBy of an unlocked managed group
  NoGroup,            \* "nothing paused" for a controller
  NoSession,          \* a managed group with no current session
  Configs,            \* (brokers, sarama.Config) pairs the factory can hold
  InitConfig,         \* the pair given to NewConsumerGroupManager
  CommandVersion,     \* commands.ConsumerGroupAsyncCommandVersion
  Versions,           \* versions carried by arriving commands
  LockProtocol,       \* "hold": pause locks, resume unlocks;
                      \* "release": every command locks before and unlocks after
  LockTimeouts,       \* processLock gives up after defaultLockTimeout
  MaxInstances,       \* bound on StartConsumerGroup calls
  MaxCloses,          \* bound on CloseConsumerGroup calls
  MaxPauses,          \* bound on pause commands per controller
  MaxReconfigures,    \* bound on Reconfigure calls
  MaxFactoryFailures, \* bound on failing newConsumerGroup calls
  PauseUnmanaged,     \* controllers may pause a group not (yet) managed
  StartManaged        \* the caller may start an id that is already managed

ASSUME
  /\ InitConfig \in Configs
  /\ CommandVersion \in Versions
  /\ LockProtocol \in {"hold", "release"}
  /\ LockTimeouts \in BOOLEAN
  /\ PauseUnmanaged \in BOOLEAN
  /\ StartManaged \in BOOLEAN
  /\ {MaxInstances, MaxCloses, MaxPauses, MaxReconfigures,
      MaxFactoryFailures} \subseteq Nat

Rc   == "reconfigure"   \* the goroutine calling Reconfigure
User == "user"          \* the goroutine calling Start/CloseConsumerGroup
OpProcs == Tokens \cup {Rc}          \* callers of stop/startConsumerGroup
Procs   == OpProcs \cup {User}

Inst == 1..MaxInstances              \* managedGroup objects; 0 = nil
States == {"Unused", "Running", "Stopped", "Closed"}
Lock == [token : Tokens \cup {Internal}, lockBefore : BOOLEAN,
         unlockAfter : BOOLEAN]      \* commands.CommandLock

VARIABLES
  groups,    \* m.groups: group id -> managedGroup (0 = absent)
  managed,   \* managedGroup objects: state, session, lockedBy, groupId
  factory,   \* m.factory: the configuration new sessions are created with
  failures,  \* failing newConsumerGroup calls so far
  pc,        \* where each caller goroutine is
  frame,     \* the stop/startConsumerGroup call each caller is in
  paused,    \* per controller, the group it has paused
  pauses,    \* per controller, pause commands sent
  rc,        \* locals of Reconfigure
  user       \* locals of the Start/CloseConsumerGroup caller

mgrVars  == <<groups, managed, factory, failures>>
ctlVars  == <<paused, pauses>>
vars == <<groups, managed, factory, failures, pc, frame, paused, pauses,
          rc, user>>

NoLock  == [token |-> Internal, lockBefore |-> FALSE, unlockAfter |-> FALSE]
NoFrame == [op |-> "none", groupId |-> NoGroup, lock |-> NoLock,
            version |-> CommandVersion, inst |-> 0, session |-> NoSession,
            failed |-> FALSE, ret |-> "idle"]

\* getGroup / setGroup / removeGroup: each access to m.groups holds
\* groupLock, so each is one step; 0 stands for nil.
getGroup(g) == groups[g]
setGroup(g, i) == groups' = [groups EXCEPT ![g] = i]
removeGroup(g) == groups' = [groups EXCEPT ![g] = 0]

\* IsManaged(groupId) for every id.
ManagedIds == {g \in Groups : getGroup(g) # 0}

-----------------------------------------------------------------------------
(* managedGroup, modelled from spec.md 4.2                                 *)

\* processLock: a lock request with token tok may proceed on group i.
LockAvailable(i, tok) == managed[i].lockedBy \in {NoToken, tok}

\* stop(): closes the current session, Running -> Stopped.
ManagedStop(i) ==
  managed' = [managed EXCEPT ![i].state = "Stopped", ![i].session = NoSession]

\* start(session): valid from Stopped only; otherwise a no-op.
ManagedStart(i, s) ==
  managed' = IF managed[i].state = "Stopped"
               THEN [managed EXCEPT ![i].state = "Running", ![i].session = s]
               ELSE managed

\* close(): cancels the consume loop, closes the session, -> Closed.
ManagedClose(i) ==
  managed' = [managed EXCEPT ![i].state = "Closed", ![i].session = NoSession]

-----------------------------------------------------------------------------
Init ==
  /\ groups = [g \in Groups |-> 0]
  /\ managed = [i \in Inst |-> [state |-> "Unused", session |-> NoSession,
                                lockedBy |-> NoToken, groupId |-> NoGroup]]
  /\ factory = InitConfig
  /\ failures = 0
  /\ pc = [p \in Procs |-> "idle"]
  /\ frame = [p \in OpProcs |-> NoFrame]
  /\ paused = [c \in Tokens |-> NoGroup]
  /\ pauses = [c \in Tokens |-> 0]
  /\ rc = [cfg |-> InitConfig, todo |-> {}, seen |-> {}, restart |-> {},
           started |-> {}, runs |-> 0]
  /\ user = [groupId |-> NoGroup, inst |-> 0, session |-> NoSession,
             starts |-> 0, closes |-> 0]

Goto(p, l) == pc' = [pc EXCEPT ![p] = l]

\* Enter stopConsumerGroup / startConsumerGroup, returning to ret.
Call(p, op, g, lk, ret) ==
  /\ frame' = [frame EXCEPT ![p] = [NoFrame EXCEPT !.op = op, !.groupId = g,
                                       !.lock = lk, !.ret = ret]]
  /\ Goto(p, "lockBefore")

\* Return from the call with an error (failed) or nil.
Return(p, failed) ==
  /\ frame' = [frame EXCEPT ![p].failed = failed]
  /\ Goto(p, frame[p].ret)

\* newConsumerGroup(c.addrs, groupID, c.config): a session on the current
\* factory configuration, or an error.
\* Fault variant: the factory keeps the configuration it was built with.
CreateSucceedsStale(s) == s = InitConfig /\ UNCHANGED failures

CreateSucceeds(s) == s = factory /\ UNCHANGED failures
CreateFails == failures < MaxFactoryFailures /\ failures' = failures + 1

-----------------------------------------------------------------------------
(* stopConsumerGroup / startConsumerGroup, one action per call they make   *)

\* The lock part of lockBefore (acquire) or unlockAfter (release).
LockWanted(p, acquire) ==
  IF acquire THEN frame[p].lock.lockBefore ELSE frame[p].lock.unlockAfter

LockSkipped(p, acquire) ==
  getGroup(frame[p].groupId) = 0 \/ ~LockWanted(p, acquire)

LockTaken(p, acquire) ==
  LET i == getGroup(frame[p].groupId)
      tok == frame[p].lock.token
  IN /\ ~LockSkipped(p, acquire)
     /\ LockAvailable(i, tok)
     /\ managed' = [managed EXCEPT ![i].lockedBy =
                                     IF acquire THEN tok ELSE NoToken]

LockBusy(p, acquire) ==
  /\ ~LockSkipped(p, acquire)
  /\ ~LockAvailable(getGroup(frame[p].groupId), frame[p].lock.token)

\* lockBefore: getGroup, then processLock(lock, true), which polls until
\* the lock is free or gives up after the lock timeout.
LockBefore(p) ==
  /\ pc[p] = "lockBefore"
  /\ \/ /\ LockSkipped(p, TRUE)
        /\ Goto(p, "getGroup")
        /\ UNCHANGED <<managed, frame>>
     \/ /\ LockTaken(p, TRUE)
        /\ Goto(p, "getGroup")
        /\ UNCHANGED frame
     \/ /\ LockBusy(p, TRUE)
        /\ UNCHANGED <<managed, pc, frame>>
     \/ /\ LockBusy(p, TRUE)
        /\ LockTimeouts
        /\ Return(p, TRUE)
        /\ UNCHANGED managed
  /\ UNCHANGED <<groups, factory, failures, ctlVars, rc, user>>

\* managedGrp := m.getGroup(groupId); nil is an error.
GetGroup(p) ==
  /\ pc[p] = "getGroup"
  /\ LET i == getGroup(frame[p].groupId) IN
       \/ /\ i = 0
          /\ Return(p, TRUE)
       \/ /\ i # 0
          /\ frame' = [frame EXCEPT ![p].inst = i]
          /\ Goto(p, IF frame[p].op = "stop" THEN "stop" ELSE "create")
  /\ UNCHANGED <<mgrVars, ctlVars, rc, user>>

\* managedGrp.stop(); an error returns before unlockAfter.
StopGroup(p) ==
  /\ pc[p] = "stop"
  /\ LET i == frame[p].inst IN
       \/ /\ managed[i].state = "Running"
          /\ ManagedStop(i)
          /\ Goto(p, "unlockAfter")
          /\ UNCHANGED frame
       \/ /\ managed[i].state # "Running"
          /\ Return(p, TRUE)
          /\ UNCHANGED managed
  /\ UNCHANGED <<groups, factory, failures, ctlVars, rc, user>>

\* group, err := m.factory.createConsumerGroup(groupId)
CreateGroup(p) ==
  /\ pc[p] = "create"
  /\ \/ \E s \in Configs :
          /\ CreateSucceeds(s)
          /\ frame' = [frame EXCEPT ![p].session = s]
          /\ Goto(p, "start")
     \/ /\ CreateFails
        /\ Return(p, TRUE)
  /\ UNCHANGED <<groups, managed, factory, ctlVars, rc, user>>

\* managedGrp.start(group); its outcome is not checked.
StartGroup(p) ==
  /\ pc[p] = "start"
  /\ ManagedStart(frame[p].inst, frame[p].session)
  /\ frame' = [frame EXCEPT ![p].session = NoSession]
  /\ Goto(p, "unlockAfter")
  /\ UNCHANGED <<groups, factory, failures, ctlVars, rc, user>>

\* unlockAfter: getGroup, then processLock(lock, false).
UnlockAfter(p) ==
  /\ pc[p] = "unlockAfter"
  /\ \/ /\ LockSkipped(p, FALSE)
        /\ Return(p, FALSE)
        /\ UNCHANGED managed
     \/ /\ LockTaken(p, FALSE)
        /\ Return(p, FALSE)
     \/ /\ LockBusy(p, FALSE)
        /\ UNCHANGED <<managed, pc, frame>>
     \/ /\ LockBusy(p, FALSE)
        /\ LockTimeouts
        /\ Return(p, TRUE)
        /\ UNCHANGED managed
  /\ UNCHANGED <<groups, factory, failures, ctlVars, rc, user>>

GroupCall(p) ==
  LockBefore(p) \/ GetGroup(p) \/ StopGroup(p) \/ CreateGroup(p)
    \/ StartGroup(p) \/ UnlockAfter(p)

-----------------------------------------------------------------------------
(* Control-protocol controllers and processAsyncGroupNotification          *)

\* The lock a controller puts on a pause (stop) or resume (start) command.
CommandLock(c, op) ==
  IF LockProtocol = "hold"
    THEN [token |-> c, lockBefore |-> op = "stop", unlockAfter |-> op = "start"]
    ELSE [token |-> c, lockBefore |-> TRUE, unlockAfter |-> TRUE]

\* A controller sends a command and awaits its async result: it pauses a
\* group, or resumes the group it paused.
SendCommand(c) ==
  /\ pc[c] = "idle"
  /\ \E v \in Versions :
       \/ /\ paused[c] = NoGroup
          /\ pauses[c] < MaxPauses
          /\ pauses' = [pauses EXCEPT ![c] = @ + 1]
          /\ \E g \in IF PauseUnmanaged THEN Groups ELSE ManagedIds :
               frame' = [frame EXCEPT ![c] = [NoFrame EXCEPT !.op = "stop",
                           !.groupId = g, !.lock = CommandLock(c, "stop"),
                           !.version = v, !.ret = "reply"]]
       \/ /\ paused[c] # NoGroup
          /\ frame' = [frame EXCEPT ![c] = [NoFrame EXCEPT !.op = "start",
                         !.groupId = paused[c], !.lock = CommandLock(c, "start"),
                         !.version = v, !.ret = "reply"]]
          /\ UNCHANGED pauses
  /\ Goto(c, "dispatch")
  /\ UNCHANGED <<mgrVars, paused, rc, user>>

\* processAsyncGroupNotification: a version mismatch is answered with
\* NotifyFailed; otherwise the command's group function is called.
ProcessAsyncGroupNotification(c) ==
  /\ pc[c] = "dispatch"
  /\ \/ /\ frame[c].version # CommandVersion
        /\ Return(c, TRUE)
     \/ /\ frame[c].version = CommandVersion
        /\ Goto(c, "lockBefore")
        /\ UNCHANGED frame
  /\ UNCHANGED <<mgrVars, ctlVars, rc, user>>

\* NotifySuccess / NotifyFailed reach the controller.
Notify(c) ==
  /\ pc[c] = "reply"
  /\ paused' = [paused EXCEPT ![c] =
                  CASE frame[c].failed            -> @
                    [] frame[c].op = "stop"       -> frame[c].groupId
                    [] OTHER                      -> NoGroup]
  /\ frame' = [frame EXCEPT ![c] = NoFrame]
  /\ Goto(c, "idle")
  /\ UNCHANGED <<mgrVars, pauses, rc, user>>

Controller(c) ==
  SendCommand(c) \/ ProcessAsyncGroupNotification(c) \/ Notify(c)
    \/ GroupCall(c)

-----------------------------------------------------------------------------
(* Reconfigure                                                             *)

\* Entry: the range over m.groups starts (taken without groupLock).
ReconfigureBegin ==
  /\ pc[Rc] = "idle"
  /\ rc.runs < MaxReconfigures
  /\ \E cfg \in Configs :
       rc' = [rc EXCEPT !.cfg = cfg, !.todo = ManagedIds, !.seen = {},
                        !.restart = {}, !.started = {}]
  /\ Goto(Rc, "rcStop")
  /\ UNCHANGED <<mgrVars, frame, ctlVars, user>>

\* One iteration of the range: stopConsumerGroup with the internal token
\* and LockBefore.  Keys removed before they are reached are not produced;
\* keys added meanwhile may or may not be.
ReconfigureStopNext ==
  /\ pc[Rc] = "rcStop"
  /\ \/ \E g \in ManagedIds \ rc.seen :
          /\ rc' = [rc EXCEPT !.seen = @ \cup {g}]
          /\ Call(Rc, "stop", g, [token |-> Internal, lockBefore |-> TRUE,
                                  unlockAfter |-> FALSE], "rcStopped")
     \/ /\ (rc.todo \cap ManagedIds) \subseteq rc.seen
        /\ Goto(Rc, "rcSwap")
        /\ UNCHANGED <<rc, frame>>
  /\ UNCHANGED <<mgrVars, ctlVars, user>>

\* Fault variant: every group the range produced is restarted, including
\* those whose stop failed.
ReconfigureStoppedAll ==
  /\ pc[Rc] = "rcStopped"
  /\ rc' = [rc EXCEPT !.restart = @ \cup {frame[Rc].groupId}]
  /\ Goto(Rc, "rcStop")
  /\ UNCHANGED <<mgrVars, frame, ctlVars, user>>

\* A failed stop goes into multiErr; a stopped group is to be restarted.
ReconfigureStopped ==
  /\ pc[Rc] = "rcStopped"
  /\ rc' = [rc EXCEPT !.restart = IF frame[Rc].failed THEN @
                                  ELSE @ \cup {frame[Rc].groupId}]
  /\ Goto(Rc, "rcStop")
  /\ UNCHANGED <<mgrVars, frame, ctlVars, user>>

\* m.factory = &kafkaConsumerGroupFactoryImpl{addrs: brokers, config: config}
ReconfigureSwap ==
  /\ pc[Rc] = "rcSwap"
  /\ factory' = rc.cfg
  /\ Goto(Rc, "rcStart")
  /\ UNCHANGED <<groups, managed, failures, frame, ctlVars, rc, user>>

\* Fault variant: the restart's CommandLock omits UnlockAfter.
ReconfigureStartNextNoUnlock ==
  /\ pc[Rc] = "rcStart"
  /\ \/ \E g \in rc.restart \ rc.started :
          /\ rc' = [rc EXCEPT !.started = @ \cup {g}]
          /\ Call(Rc, "start", g, [token |-> Internal, lockBefore |-> FALSE,
                                   unlockAfter |-> FALSE], "rcStart")
     \/ /\ rc.restart \subseteq rc.started
        /\ rc' = [rc EXCEPT !.runs = @ + 1]
        /\ Goto(Rc, "idle")
        /\ UNCHANGED frame
  /\ UNCHANGED <<mgrVars, ctlVars, user>>

\* startConsumerGroup with the internal token and UnlockAfter for each group
\* this call stopped; then Reconfigure returns.
ReconfigureStartNext ==
  /\ pc[Rc] = "rcStart"
  /\ \/ \E g \in rc.restart \ rc.started :
          /\ rc' = [rc EXCEPT !.started = @ \cup {g}]
          /\ Call(Rc, "start", g, [token |-> Internal, lockBefore |-> FALSE,
                                   unlockAfter |-> TRUE], "rcStart")
     \/ /\ rc.restart \subseteq rc.started
        /\ rc' = [rc EXCEPT !.runs = @ + 1]
        /\ Goto(Rc, "idle")
        /\ UNCHANGED frame
  /\ UNCHANGED <<mgrVars, ctlVars, user>>

Reconfigure ==
  ReconfigureBegin \/ ReconfigureStopNext \/ ReconfigureStopped
    \/ ReconfigureSwap \/ ReconfigureStartNext \/ GroupCall(Rc)

-----------------------------------------------------------------------------
(* StartConsumerGroup / CloseConsumerGroup                                  *)

\* StartConsumerGroup(groupId): the caller checks IsManaged first, unless
\* StartManaged; the method itself does not check.
StartConsumerGroup(g) ==
  /\ pc[User] = "idle"
  /\ StartManaged \/ getGroup(g) = 0
  /\ user.starts < MaxInstances
  /\ user' = [user EXCEPT !.groupId = g, !.starts = @ + 1]
  /\ Goto(User, "uCreate")
  /\ UNCHANGED <<mgrVars, frame, ctlVars, rc>>

\* group, err := m.factory.createConsumerGroup(groupId)
UserCreate ==
  /\ pc[User] = "uCreate"
  /\ \/ \E s \in Configs :
          /\ CreateSucceeds(s)
          /\ user' = [user EXCEPT !.session = s]
          /\ Goto(User, "uRegister")
     \/ /\ CreateFails
        /\ Goto(User, "idle")
        /\ UNCHANGED user
  /\ UNCHANGED <<groups, managed, factory, frame, ctlVars, rc>>

\* createManagedGroup(...) and m.setGroup(groupId, managedGrp).
UserRegister ==
  /\ pc[User] = "uRegister"
  /\ LET i == user.starts IN
       /\ managed' = [managed EXCEPT ![i] = [state |-> "Running",
                        session |-> user.session, lockedBy |-> NoToken,
                        groupId |-> user.groupId]]
       /\ setGroup(user.groupId, i)
  /\ user' = [user EXCEPT !.session = NoSession]
  /\ Goto(User, "idle")
  /\ UNCHANGED <<factory, failures, frame, ctlVars, rc>>

\* CloseConsumerGroup(groupId): getGroup; nil is an error.
CloseConsumerGroup(g) ==
  /\ pc[User] = "idle"
  /\ user.closes < MaxCloses
  /\ user' = [user EXCEPT !.groupId = g, !.inst = getGroup(g),
                          !.closes = @ + 1]
  /\ Goto(User, IF getGroup(g) = 0 THEN "idle" ELSE "uClose")
  /\ UNCHANGED <<mgrVars, frame, ctlVars, rc>>

\* Fault variant: the group is removed from the map but never closed.
UserCloseRemovedFirst ==
  /\ pc[User] = "uClose"
  /\ removeGroup(user.groupId)
  /\ Goto(User, "uRemove")
  /\ UNCHANGED <<managed, factory, failures, frame, ctlVars, rc, user>>

\* managedGrp.close()
UserClose ==
  /\ pc[User] = "uClose"
  /\ ManagedClose(user.inst)
  /\ Goto(User, "uRemove")
  /\ UNCHANGED <<groups, factory, failures, frame, ctlVars, rc, user>>

\* m.removeGroup(groupId)
UserRemove ==
  /\ pc[User] = "uRemove"
  /\ removeGroup(user.groupId)
  /\ Goto(User, "idle")
  /\ UNCHANGED <<managed, factory, failures, frame, ctlVars, rc, user>>

Caller ==
  \/ \E g \in Groups : StartConsumerGroup(g) \/ CloseConsumerGroup(g)
  \/ UserCreate \/ UserRegister \/ UserClose \/ UserRemove

-----------------------------------------------------------------------------
\* Every caller has returned: the manager waits for further calls.
Terminating ==
  /\ \A p \in Procs : pc[p] = "idle"
  /\ UNCHANGED vars

Next ==
  \/ \E c \in Tokens : Controller(c)
  \/ Reconfigure
  \/ Caller
  \/ Terminating

\* Goroutines are scheduled fairly; a blocked processLock keeps polling
\* and its timer fires.
Spec ==
  /\ Init /\ [][Next]_vars
  /\ \A c \in Tokens : WF_vars(Controller(c))
  /\ WF_vars(Reconfigure)
  /\ WF_vars(Caller)

-----------------------------------------------------------------------------
(* Properties                                                              *)

\* Reconfigure (and spec.md 8, invariant 4): once Reconfigure has returned,
\* every group it stopped and restarted that is running again runs a
\* session created with the configuration Reconfigure installed; a
\* concurrent startConsumerGroup that read m.factory before the swap must
\* not leave such a group on the old brokers/config.
ReconfiguredGroupsOnNewConfig ==
  pc[Rc] = "idle" =>
    \A g \in rc.restart \cap ManagedIds :
      managed[groups[g]].state = "Running" =>
        managed[groups[g]].session = rc.cfg

\* Reconfigure's comment "whatever locked the group restarts it anyway":
\* once Reconfigure has returned, no managed group is left locked by the
\* internal token (which a controller with its own token cannot release),
\* whether Reconfigure's
\* stop of it failed after lockBefore or its restart failed before
\* unlockAfter.
NoStrandedInternalLock ==
  pc[Rc] = "idle" =>
    \A g \in ManagedIds : managed[groups[g]].lockedBy # Internal

\* The lock token contract (spec.md 3 and 4.2): stopConsumerGroup and
\* startConsumerGroup never stop or start a managed group that is locked
\* by a different token than the one their command carries.  Reconfigure's
\* lock is meant to keep every controller out between its lockBefore and
\* its stop; a controller that sends internalToken (line 52) can release it.
ForeignLockRespected ==
  [][\A p \in OpProcs :
       (/\ pc[p] \in {"stop", "start"}
        /\ managed'[frame[p].inst].state # managed[frame[p].inst].state)
         => managed[frame[p].inst].lockedBy \in {NoToken, frame[p].lock.token}]_vars

\* startConsumerGroup at line 283 ignores the result of managedGrp.start:
\* the session it has just created is adopted only if the group is still
\* Stopped.  Whenever a caller is about to start a group with a fresh
\* session, that group is Stopped, so no session is created and leaked.
StartOnlyStopped ==
  \A p \in OpProcs :
    pc[p] = "start" => managed[frame[p].inst].state = "Stopped"

\* spec.md 3 "a registry entry exists iff the group is Running or
\* Stopped": every managed group that is still consuming (Running) or may
\* be restarted (Stopped) is the one registered under its id, so it can
\* still be stopped, started and closed through the manager.
LiveGroupsRegistered ==
  \A i \in Inst :
    managed[i].state \in {"Running", "Stopped"} => groups[managed[i].groupId] = i

=============================================================================
