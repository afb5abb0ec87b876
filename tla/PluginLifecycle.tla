-------------------------- MODULE PluginLifecycle --------------------------
(***************************************************************************)
(* The life of Lilu's plugins (plugin_start.cpp): the kernel loads a plugin *)
(* and calls its kern_start(), which asks LiluAPI for leave and runs the    *)
(* plugin's pluginStart(); I/O Kit probes, starts and stops the plugin's    *)
(* service; Lilu calls what the plugin has registered; the kernel may ask   *)
(* to unload the plugin through kern_stop().                               *)
(*                                                                         *)
(* LiluAPI's functions are only declared in the repository (kern_api.hpp). *)
(* They are modelled by what their declarations and callers say: access is *)
(* a mutex that requestAccess() holds on success only, and                 *)
(* finaliseRequests() ends the registration under the same mutex.          *)
(***************************************************************************)
EXTENDS Integers

CONSTANTS
    Plugins,     \* the kexts that link the Lilu SDK
    Kinds,       \* of callbacks: onPatcherLoad, onKextLoad, onProcLoad, ...
    Instances,   \* the objects I/O Kit may create of a plugin's service class
    Null

ASSUME PluginLifecycleAssumption ==
    /\ Null \notin Plugins
    /\ Null \notin Instances

VARIABLES
    access,            \* LiluAPI::access: the plugin that holds it
    apiRequestsOver,   \* LiluAPI: no longer accept any requests
    registered,        \* LiluAPI's callback vectors: <<plugin, kind>> pairs
    calling,           \* the plugin whose callback Lilu is running
    panicked,          \* PANIC was called: nothing runs any more
    pc,                \* pc[p]: "absent" while p is not in memory
    startSuccess,      \* startSuccess[p]
    service,           \* service[p][i]: "none", "probed" or "running"
    selfInstance       \* selfInstance[p]

api == <<access, apiRequestsOver, registered, calling, panicked>>
iokit == <<service, selfInstance>>
vars == <<api, pc, startSuccess, iokit>>

Init ==
    /\ access = Null
    /\ apiRequestsOver = FALSE
    /\ registered = {}
    /\ calling = Null
    /\ panicked = FALSE
    /\ pc = [p \in Plugins |-> "absent"]
    /\ startSuccess = [p \in Plugins |-> FALSE]
    /\ service = [p \in Plugins |-> [i \in Instances |-> "none"]]
    /\ selfInstance = [p \in Plugins |-> Null]

Goto(p, label) == pc' = [pc EXCEPT ![p] = label]

-----------------------------------------------------------------------------
(* kern_start() *)

\* The kernel loads the kext: its data segment takes its initial values.
Load(p) ==
    /\ ~ panicked
    /\ pc[p] = "absent"
    /\ Goto(p, "request")
    /\ startSuccess' = [startSuccess EXCEPT ![p] = FALSE]
    /\ selfInstance' = [selfInstance EXCEPT ![p] = Null]
    /\ UNCHANGED <<api, service>>

\* lilu.requestAccess(): wait for the mutex; give it back when too late.
RequestAccess(p) ==
    /\ ~ panicked
    /\ pc[p] = "request"
    /\ access = Null
    /\ IF apiRequestsOver
       THEN Goto(p, "loaded") /\ UNCHANGED access
       ELSE Goto(p, "decide") /\ access' = p
    /\ UNCHANGED <<apiRequestsOver, registered, calling, panicked, startSuccess, iokit>>

\* Variant: access is not released when the plugin should not load.
ShouldLoadKeepsAccess(p) ==
    /\ ~ panicked
    /\ pc[p] = "decide"
    /\ \/ /\ startSuccess' = [startSuccess EXCEPT ![p] = TRUE]
          /\ Goto(p, "main")
       \/ /\ Goto(p, "loaded")
          /\ UNCHANGED startSuccess
    /\ UNCHANGED <<api, iokit>>

\* Variant: access is released before pluginStart() runs.
ShouldLoadReleases(p) ==
    /\ ~ panicked
    /\ pc[p] = "decide"
    /\ \/ /\ startSuccess' = [startSuccess EXCEPT ![p] = TRUE]
          /\ Goto(p, "main")
          /\ access' = Null
       \/ /\ Goto(p, "release")
          /\ UNCHANGED <<startSuccess, access>>
    /\ UNCHANGED <<apiRequestsOver, registered, calling, panicked, iokit>>

\* lilu.shouldLoad(), and startSuccess if it agrees.
ShouldLoad(p) ==
    /\ ~ panicked
    /\ pc[p] = "decide"
    /\ \/ /\ startSuccess' = [startSuccess EXCEPT ![p] = TRUE]
          /\ Goto(p, "main")
       \/ /\ Goto(p, "release")
          /\ UNCHANGED startSuccess
    /\ UNCHANGED <<api, iokit>>

\* One registration of pluginStart(), through lilu.on...().
Register(p, k) ==
    /\ ~ panicked
    /\ pc[p] = "main"
    /\ ~ apiRequestsOver
    /\ registered' = registered \cup {<<p, k>>}
    /\ UNCHANGED <<access, apiRequestsOver, calling, panicked, pc, startSuccess, iokit>>

\* lilu.on...Force(): the registration failed, and so the kernel panics.
\* (After a failing lilu.on...() pluginStart() just goes on.)
RegisterForceFails(p) ==
    /\ ~ panicked
    /\ pc[p] = "main"
    /\ panicked' = TRUE
    /\ UNCHANGED <<access, apiRequestsOver, registered, calling, pc, startSuccess, iokit>>

PluginStartReturns(p) ==
    /\ ~ panicked
    /\ pc[p] = "main"
    /\ Goto(p, "release")
    /\ UNCHANGED <<api, startSuccess, iokit>>

\* lilu.releaseAccess(); kern_start() returns KERN_SUCCESS in every case.
ReleaseAccess(p) ==
    /\ ~ panicked
    /\ pc[p] = "release"
    /\ access' = Null
    /\ Goto(p, "loaded")
    /\ UNCHANGED <<apiRequestsOver, registered, calling, panicked, startSuccess, iokit>>

-----------------------------------------------------------------------------
(* I/O Kit: of the instances it probes in a match category it starts one *)

NoneRunning(p) == \A i \in Instances : service[p][i] # "running"

SetService(p, i, state) == service' = [service EXCEPT ![p][i] = state]

\* Variant: probe() returns the instance whatever startSuccess is.
ProbeAccepts(p, i) ==
    /\ ~ panicked
    /\ pc[p] = "loaded"
    /\ NoneRunning(p)
    /\ service[p][i] = "none"
    /\ selfInstance' = [selfInstance EXCEPT ![p] = i]
    /\ SetService(p, i, "probed")
    /\ UNCHANGED <<api, pc, startSuccess>>

\* probe(): selfInstance is set even if the instance is refused, and freed.
Probe(p, i) ==
    /\ ~ panicked
    /\ pc[p] = "loaded"
    /\ NoneRunning(p)
    /\ service[p][i] = "none"
    /\ selfInstance' = [selfInstance EXCEPT ![p] = i]
    /\ IF startSuccess[p] THEN SetService(p, i, "probed") ELSE UNCHANGED service
    /\ UNCHANGED <<api, pc, startSuccess>>

\* Variant: start() relies on the selfInstance of probe().
StartWithoutSelf(p, i) ==
    /\ ~ panicked
    /\ NoneRunning(p)
    /\ service[p][i] = "probed"
    /\ SetService(p, i, IF startSuccess[p] THEN "running" ELSE "none")
    /\ UNCHANGED <<api, pc, startSuccess, selfInstance>>

\* start(): selfInstance, then IOService::start(), which may fail.
Start(p, i) ==
    /\ ~ panicked
    /\ NoneRunning(p)
    /\ service[p][i] = "probed"
    /\ selfInstance' = [selfInstance EXCEPT ![p] = i]
    /\ \/ SetService(p, i, "none")
       \/ startSuccess[p] /\ SetService(p, i, "running")
    /\ UNCHANGED <<api, pc, startSuccess>>

\* I/O Kit drops a candidate it has probed.
Drop(p, i) ==
    /\ ~ panicked
    /\ service[p][i] = "probed"
    /\ SetService(p, i, "none")
    /\ UNCHANGED <<api, pc, startSuccess, selfInstance>>

Stop(p, i) ==
    /\ ~ panicked
    /\ service[p][i] = "running"
    /\ selfInstance' = [selfInstance EXCEPT ![p] = Null]
    /\ SetService(p, i, "none")
    /\ UNCHANGED <<api, pc, startSuccess>>

Unused(p) == \A i \in Instances : service[p][i] = "none"

\* Variant: kern_stop() always agrees.
KernStopAgrees(p) ==
    /\ ~ panicked
    /\ pc[p] = "loaded"
    /\ Unused(p)
    /\ Goto(p, "absent")
    /\ UNCHANGED <<api, startSuccess, iokit>>

\* kern_stop(): KERN_FAILURE, which keeps the kext, if startSuccess.
KernStop(p) ==
    /\ ~ panicked
    /\ pc[p] = "loaded"
    /\ Unused(p)
    /\ ~ startSuccess[p]
    /\ Goto(p, "absent")
    /\ UNCHANGED <<api, startSuccess, iokit>>

-----------------------------------------------------------------------------
(* Lilu *)

FinaliseRequests ==
    /\ ~ panicked
    /\ access = Null
    /\ ~ apiRequestsOver
    /\ apiRequestsOver' = TRUE
    /\ UNCHANGED <<access, registered, calling, panicked, pc, startSuccess, iokit>>

\* process...Callbacks(): Lilu calls a function of the plugin.
Invoke(p, k) ==
    /\ ~ panicked
    /\ apiRequestsOver
    /\ calling = Null
    /\ <<p, k>> \in registered
    /\ calling' = p
    /\ UNCHANGED <<access, apiRequestsOver, registered, panicked, pc, startSuccess, iokit>>

CallbackReturns ==
    /\ ~ panicked
    /\ calling # Null
    /\ calling' = Null
    /\ UNCHANGED <<access, apiRequestsOver, registered, panicked, pc, startSuccess, iokit>>

-----------------------------------------------------------------------------

KernStartStep(p) ==
    \/ RequestAccess(p)
    \/ ShouldLoad(p)
    \/ \E k \in Kinds : Register(p, k)
    \/ RegisterForceFails(p)
    \/ PluginStartReturns(p)
    \/ ReleaseAccess(p)

ServiceStep(p) ==
    \/ \E i \in Instances : Probe(p, i) \/ Start(p, i) \/ Drop(p, i) \/ Stop(p, i)
    \/ KernStop(p)

LiluStep ==
    \/ FinaliseRequests
    \/ \E p \in Plugins, k \in Kinds : Invoke(p, k)
    \/ CallbackReturns

Next ==
    \/ \E p \in Plugins : Load(p) \/ KernStartStep(p) \/ ServiceStep(p)
    \/ LiluStep

\* kern_start() keeps running, pluginStart() returns in the end, and the
\* kernel hands the mutex to every waiter in the end.
Progress(p) == ShouldLoad(p) \/ PluginStartReturns(p) \/ ReleaseAccess(p)

Spec ==
    /\ Init
    /\ [][Next]_vars
    /\ \A p \in Plugins :
          /\ WF_vars(Progress(p))
          /\ SF_vars(RequestAccess(p))

-----------------------------------------------------------------------------
(* Type invariant *)

Inside == {"decide", "main", "release"}

TypeOK ==
    /\ access \in Plugins \cup {Null}
    /\ \A p \in Plugins : access = p <=> pc[p] \in Inside
    /\ apiRequestsOver \in BOOLEAN
    /\ registered \subseteq Plugins \X Kinds
    /\ calling \in Plugins \cup {Null}
    /\ panicked \in BOOLEAN
    /\ pc \in [Plugins -> {"absent", "request", "loaded"} \cup Inside]
    /\ startSuccess \in [Plugins -> BOOLEAN]
    /\ service \in [Plugins -> [Instances -> {"none", "probed", "running"}]]
    /\ selfInstance \in [Plugins -> Instances \cup {Null}]

(* Safety *)

\* "It is not safe to unload Lilu plugins unless they were disabled": whatever
\* Lilu can still call, or is calling, stays in memory.
CallbacksStayLoaded ==
    \A p \in Plugins :
        (calling = p \/ \E k \in Kinds : <<p, k>> \in registered) => pc[p] # "absent"

\* A plugin in pluginStart() is never told that it is too late to register,
\* which on...Force() answers with a panic: the leave that requestAccess()
\* gave still holds when it is used.
NeverTooLate == \A p \in Plugins : pc[p] = "main" => ~ apiRequestsOver

\* A plugin that Lilu turned away runs no service and has nothing registered.
RefusedStaysOut ==
    \A p \in Plugins :
        ~ startSuccess[p] =>
            /\ Unused(p)
            /\ \A k \in Kinds : <<p, k>> \notin registered

\* The plugin's code finds the service that runs in selfInstance, whichever
\* candidates were probed, refused or failed to start before.
SelfIsRunning ==
    \A p \in Plugins, i \in Instances :
        service[p][i] = "running" => selfInstance[p] = i

(* Liveness *)

\* Every kern_start() returns and leaves access free for the next plugin,
\* unless the kernel panics: no path keeps the mutex.
KernStartReturns ==
    \A p \in Plugins : pc[p] = "request" ~> pc[p] = "loaded" \/ panicked
=============================================================================
