----------------------- MODULE PluginLifecycleProofs -----------------------
(***************************************************************************)
(* For any number of plugins, callback kinds and service instances:        *)
(* whatever Lilu can call stays in memory, a plugin Lilu turned away stays *)
(* out, and no plugin registers too late.                                  *)
(***************************************************************************)
EXTENDS PluginLifecycle, TLAPS

(* The strengthening of the invariants *)

\* The leave requestAccess() gave holds until access is released.
LeaveHolds == \A p \in Plugins : pc[p] \in Inside => ~ apiRequestsOver

\* startSuccess holds from the answer of shouldLoad() on.
StartSuccessFits ==
    \A p \in Plugins :
        /\ pc[p] = "main" => startSuccess[p]
        /\ pc[p] \in {"absent", "request", "decide"} => ~ startSuccess[p]

\* Lilu only runs what was registered.
CallingRegistered == calling = Null \/ \E k \in Kinds : <<calling, k>> \in registered

\* The strengthening: the properties follow from the phase at which startSuccess
\* is set, from the leave to register that lasts as long as access is held, and
\* from a running callback being a registered one.
IInv ==
    /\ TypeOK
    /\ LeaveHolds
    /\ RefusedStaysOut
    /\ StartSuccessFits
    /\ CallingRegistered

\* The steps of kern_start() keep the strengthening.
LEMMA KernStartKeeps ==
    ASSUME NEW p \in Plugins, IInv, Load(p) \/ KernStartStep(p)
    PROVE  IInv'
<1> USE PluginLifecycleAssumption
<1> USE DEF IInv, TypeOK, LeaveHolds, RefusedStaysOut, StartSuccessFits,
            CallingRegistered, Unused, Inside, Goto, api, iokit
<1>1. CASE Load(p)
  <2> USE <1>1 DEF Load
  <2>1. TypeOK'
    OBVIOUS
  <2>2. LeaveHolds' /\ CallingRegistered'
    OBVIOUS
  <2>3. StartSuccessFits'
    OBVIOUS
  <2>4. RefusedStaysOut'
    OBVIOUS
  <2>5. QED
    BY <2>1, <2>2, <2>3, <2>4
<1>2. CASE RequestAccess(p)
  <2> USE <1>2 DEF RequestAccess
  <2>1. TypeOK'
    OBVIOUS
  <2>2. LeaveHolds' /\ CallingRegistered'
    OBVIOUS
  <2>3. StartSuccessFits'
    OBVIOUS
  <2>4. RefusedStaysOut'
    OBVIOUS
  <2>5. QED
    BY <2>1, <2>2, <2>3, <2>4
<1>3. CASE ShouldLoad(p)
  <2> USE <1>3 DEF ShouldLoad
  <2>1. TypeOK'
    OBVIOUS
  <2>2. LeaveHolds' /\ CallingRegistered'
    OBVIOUS
  <2>3. StartSuccessFits'
    OBVIOUS
  <2>4. RefusedStaysOut'
    OBVIOUS
  <2>5. QED
    BY <2>1, <2>2, <2>3, <2>4
<1>4. ASSUME NEW k \in Kinds, Register(p, k) PROVE IInv'
  <2> USE <1>4 DEF Register
  <2>1. TypeOK'
    OBVIOUS
  <2>2. LeaveHolds' /\ StartSuccessFits' /\ CallingRegistered'
    OBVIOUS
  <2>3. RefusedStaysOut'
    OBVIOUS
  <2>4. QED
    BY <2>1, <2>2, <2>3
<1>5. CASE RegisterForceFails(p)
  BY <1>5 DEF RegisterForceFails
<1>6. CASE PluginStartReturns(p)
  BY <1>6 DEF PluginStartReturns
<1>7. CASE ReleaseAccess(p)
  <2>1. access = p /\ \A q \in Plugins \ {p} : pc[q] \notin Inside
    BY <1>7 DEF ReleaseAccess
  <2>2. TypeOK'
    BY <1>7, <2>1 DEF ReleaseAccess
  <2>3. QED
    BY <1>7, <2>2 DEF ReleaseAccess
<1>8. QED
  BY <1>1, <1>2, <1>3, <1>4, <1>5, <1>6, <1>7 DEF KernStartStep

\* A service keeps its type.
LEMMA ServiceTypes ==
    ASSUME NEW p \in Plugins, NEW i \in Instances, TypeOK,
           NEW state \in {"none", "probed", "running"},
           SetService(p, i, state) \/ service' = service
    PROVE  service' \in [Plugins -> [Instances -> {"none", "probed", "running"}]]
<1>1. CASE service' = service
  BY <1>1 DEF TypeOK
<1>2. CASE SetService(p, i, state)
  <2>1. service[p] \in [Instances -> {"none", "probed", "running"}]
    BY DEF TypeOK
  <2>2. [service[p] EXCEPT ![i] = state] \in [Instances -> {"none", "probed", "running"}]
    BY <2>1
  <2>3. service' = [service EXCEPT ![p] = [service[p] EXCEPT ![i] = state]]
    BY <1>2 DEF SetService
  <2>4. QED
    BY <2>2, <2>3 DEF TypeOK
<1>3. QED
  BY <1>1, <1>2

\* The steps of I/O Kit keep it.
LEMMA ServiceKeeps ==
    ASSUME NEW p \in Plugins, IInv, ServiceStep(p)
    PROVE  IInv'
<1> USE PluginLifecycleAssumption
<1> USE DEF IInv, TypeOK, LeaveHolds, RefusedStaysOut, StartSuccessFits,
            CallingRegistered, Unused, Inside, Goto, api, iokit
<1>1. ASSUME NEW i \in Instances, Probe(p, i) PROVE IInv'
  <2>0. service' \in [Plugins -> [Instances -> {"none", "probed", "running"}]]
    BY <1>1, ServiceTypes DEF Probe
  <2>1. TypeOK'
    BY <1>1, <2>0 DEF Probe
  <2> USE <1>1 DEF Probe, SetService
  <2>2. LeaveHolds' /\ CallingRegistered'
    OBVIOUS
  <2>3. StartSuccessFits'
    OBVIOUS
  <2>4. RefusedStaysOut'
    OBVIOUS
  <2>5. QED
    BY <2>1, <2>2, <2>3, <2>4
<1>2. ASSUME NEW i \in Instances, Start(p, i) PROVE IInv'
  <2>0. service' \in [Plugins -> [Instances -> {"none", "probed", "running"}]]
    BY <1>2, ServiceTypes DEF Start
  <2>1. TypeOK'
    BY <1>2, <2>0 DEF Start
  <2> USE <1>2 DEF Start, SetService
  <2>2. LeaveHolds' /\ CallingRegistered'
    OBVIOUS
  <2>3. StartSuccessFits'
    OBVIOUS
  <2>4. RefusedStaysOut'
    OBVIOUS
  <2>5. QED
    BY <2>1, <2>2, <2>3, <2>4
<1>3. ASSUME NEW i \in Instances, Drop(p, i) PROVE IInv'
  BY <1>3 DEF Drop, SetService
<1>4. ASSUME NEW i \in Instances, Stop(p, i) PROVE IInv'
  BY <1>4 DEF Stop, SetService
<1>5. CASE KernStop(p)
  BY <1>5 DEF KernStop
<1>6. QED
  BY <1>1, <1>2, <1>3, <1>4, <1>5 DEF ServiceStep

\* The steps of Lilu keep it.
LEMMA LiluKeeps ==
    ASSUME IInv, LiluStep
    PROVE  IInv'
<1> USE PluginLifecycleAssumption
<1> USE DEF IInv, TypeOK, LeaveHolds, RefusedStaysOut, StartSuccessFits,
            CallingRegistered, Unused, Inside, iokit
<1>1. CASE FinaliseRequests
  BY <1>1 DEF FinaliseRequests
<1>2. ASSUME NEW p \in Plugins, NEW k \in Kinds, Invoke(p, k) PROVE IInv'
  BY <1>2 DEF Invoke
<1>3. CASE CallbackReturns
  BY <1>3 DEF CallbackReturns
<1>4. QED
  BY <1>1, <1>2, <1>3 DEF LiluStep

\* The strengthening holds in every state.
LEMMA IInvAlways == Spec => []IInv
<1> USE PluginLifecycleAssumption
<1>1. Init => IInv
  <2> SUFFICES ASSUME Init PROVE IInv
    OBVIOUS
  <2> USE DEF Init
  <2>1. TypeOK
    BY DEF TypeOK, Inside
  <2>2. LeaveHolds /\ StartSuccessFits /\ CallingRegistered
    BY DEF LeaveHolds, StartSuccessFits, CallingRegistered
  <2>3. RefusedStaysOut
    BY DEF RefusedStaysOut, Unused
  <2>4. QED
    BY <2>1, <2>2, <2>3 DEF IInv
<1>2. IInv /\ [Next]_vars => IInv'
  <2> SUFFICES ASSUME IInv, [Next]_vars PROVE IInv'
    OBVIOUS
  <2>1. CASE UNCHANGED vars
    BY <2>1 DEF vars, api, iokit, IInv, TypeOK, LeaveHolds, RefusedStaysOut,
                StartSuccessFits, CallingRegistered, Unused, Inside
  <2>2. QED
    BY <2>1, KernStartKeeps, ServiceKeeps, LiluKeeps DEF Next
<1>3. QED
  BY <1>1, <1>2, PTL DEF Spec

\* The variables keep their types, and access is held by exactly the plugin
\* whose kern_start() is between requestAccess() and releaseAccess().
THEOREM TypeCorrect == Spec => []TypeOK
<1>1. IInv => TypeOK
  BY DEF IInv
<1>2. QED
  BY <1>1, IInvAlways, PTL

\* A plugin with a callback that is registered or running is never unloaded:
\* kern_stop() refuses, since only a plugin that was let in can register.
THEOREM NoCallbackIsUnloaded == Spec => []CallbacksStayLoaded
<1>1. IInv => CallbacksStayLoaded
  <2> SUFFICES ASSUME IInv, NEW p \in Plugins,
                      calling = p \/ \E k \in Kinds : <<p, k>> \in registered
               PROVE  pc[p] # "absent"
    BY DEF CallbacksStayLoaded
  <2>1. \E k \in Kinds : <<p, k>> \in registered
    BY PluginLifecycleAssumption DEF IInv, CallingRegistered
  <2>2. startSuccess[p]
    BY <2>1 DEF IInv, RefusedStaysOut
  <2>3. QED
    BY <2>2 DEF IInv, StartSuccessFits
<1>2. QED
  BY <1>1, IInvAlways, PTL

\* pluginStart() never runs once registration is over: finaliseRequests() needs
\* the mutex that kern_start() keeps until pluginStart() has returned.
THEOREM RegistrationIsNeverLate == Spec => []NeverTooLate
<1>1. IInv => NeverTooLate
  BY DEF IInv, LeaveHolds, NeverTooLate, Inside
<1>2. QED
  BY <1>1, IInvAlways, PTL

\* A plugin that was turned away has no service and no callbacks.
THEOREM RefusedPluginsStayOut == Spec => []RefusedStaysOut
<1>1. IInv => RefusedStaysOut
  BY DEF IInv
<1>2. QED
  BY <1>1, IInvAlways, PTL

\* The plugin finds its running service in selfInstance: probe() and start()
\* overwrite it only while no instance runs.
THEOREM SelfIsTheRunningOne == Spec => []SelfIsRunning
<1>1. Init => SelfIsRunning
  BY DEF Init, SelfIsRunning
<1>2. IInv /\ SelfIsRunning /\ [Next]_vars => SelfIsRunning'
  <2> SUFFICES ASSUME IInv, SelfIsRunning, [Next]_vars PROVE SelfIsRunning'
    OBVIOUS
  <2>0. /\ service \in [Plugins -> [Instances -> {"none", "probed", "running"}]]
        /\ selfInstance \in [Plugins -> Instances \cup {Null}]
    BY DEF IInv, TypeOK
  <2>1. ASSUME UNCHANGED iokit PROVE SelfIsRunning'
    BY <2>1 DEF iokit, SelfIsRunning
  <2>2. ASSUME NEW p \in Plugins, Load(p) PROVE SelfIsRunning'
    <3>1. Unused(p)
      BY <2>2 DEF Load, IInv, StartSuccessFits, RefusedStaysOut
    <3>2. QED
      BY <2>0, <2>2, <3>1 DEF Load, SelfIsRunning, Unused
  <2>3. ASSUME NEW p \in Plugins, NEW i \in Instances, Probe(p, i) PROVE SelfIsRunning'
    BY <2>0, <2>3 DEF Probe, SetService, NoneRunning, SelfIsRunning
  <2>4. ASSUME NEW p \in Plugins, NEW i \in Instances, Start(p, i) PROVE SelfIsRunning'
    BY <2>0, <2>4 DEF Start, SetService, NoneRunning, SelfIsRunning
  <2>5. ASSUME NEW p \in Plugins, NEW i \in Instances, Drop(p, i) PROVE SelfIsRunning'
    BY <2>0, <2>5 DEF Drop, SetService, SelfIsRunning
  <2>6. ASSUME NEW p \in Plugins, NEW i \in Instances, Stop(p, i) PROVE SelfIsRunning'
    BY <2>0, <2>6, PluginLifecycleAssumption DEF Stop, SetService, SelfIsRunning
  <2>7. CASE UNCHANGED vars
    BY <2>1, <2>7 DEF vars
  <2>8. ASSUME NEW p \in Plugins, KernStartStep(p) PROVE SelfIsRunning'
    BY <2>1, <2>8 DEF KernStartStep, RequestAccess, ShouldLoad, Register,
       RegisterForceFails, PluginStartReturns, ReleaseAccess
  <2>9. ASSUME NEW p \in Plugins, KernStop(p) PROVE SelfIsRunning'
    BY <2>1, <2>9 DEF KernStop
  <2>10. CASE LiluStep
    BY <2>1, <2>10 DEF LiluStep, FinaliseRequests, Invoke, CallbackReturns
  <2>11. QED
    BY <2>2, <2>3, <2>4, <2>5, <2>6, <2>7, <2>8, <2>9, <2>10 DEF Next, ServiceStep
<1>3. QED
  BY <1>1, <1>2, IInvAlways, PTL DEF Spec
=============================================================================
