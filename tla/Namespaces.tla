----------------------------- MODULE Namespaces -----------------------------
(***************************************************************************)
(* The namespace manager (internal/namespace): it loads plugins and        *)
(* namespaces from the configuration, starts one goroutine per namespace   *)
(* that initializes and starts its orchestrator and retries, and, when the *)
(* configuration file changes, stops, replaces and starts what differs.    *)
(* A namespace that was ever on a version 1 contract brings ff_system with *)
(* it.  A reload holds nsMux, and so do the steps of a starter that touch  *)
(* the table of namespaces.                                                *)
(***************************************************************************)
EXTENDS Integers, Sequences, FiniteSets

CONSTANTS
    ConfigFiles,    \* [plugins: name -> hash, namespaces: name -> NsConfig]
    CategoryOf,     \* of each plugin name
    MaxReloads,     \* bound on reloads and restarts
    MaxFailsN       \* bound on failing calls

(* An NsConfig is [hash, all, plugins, multiparty, v1]: all if it names no *)
(* plugins, v1 the location of its version 1 contract or 0.               *)

VARIABLES
    upN,        \* the process runs
    fileN,      \* the configuration last applied
    pluginsN,   \* name -> plugin instance [name, gen, hash]
    cancelledN, \* plugin instances that were stopped
    servedN,    \* the table of namespaces: name -> generation of its instance
    instN,      \* every orchestrator of this process, see Instance
    handlersN,  \* callbacks registered: [plugin, ns, gen]
    genN,       \* generations used
    failsN
varsN == <<upN, fileN, pluginsN, cancelledN, servedN, instN, handlersN, genN, failsN>>

ffsystem == "ff_system"

(* loadNamespace: ff_system is a reserved name.  The hash of a            *)
(* namespace is over its whole configuration.                             *)
ASSUME FilesAssumption ==
    \A f, g \in ConfigFiles :
        /\ ffsystem \notin DOMAIN f.namespaces
        /\ \A n \in DOMAIN f.namespaces \cap DOMAIN g.namespaces :
              f.namespaces[n].hash = g.namespaces[n].hash => f.namespaces[n] = g.namespaces[n]

Empty == [x \in {} |-> 0]

(* An orchestrator: its configuration and plugins, where its starter is,  *)
(* whether its context lives, and the two started flags.                  *)
Instance(name, gen, conf, uses, events) ==
    [name |-> name, gen |-> gen, conf |-> conf, uses |-> uses, events |-> events,
     phase |-> "init", live |-> TRUE, running |-> FALSE, ready |-> FALSE]
Of(name, gen) == CHOOSE i \in instN : i.name = name /\ i.gen = gen
Set(old, new) == instN' = (instN \ {old}) \cup {new}
-----------------------------------------------------------------------------
(* analyzePluginChanges: an instance whose configuration did not change   *)
(* is kept.                                                               *)
Available(conf, gen) ==
    [p \in DOMAIN conf.plugins |->
        IF p \in DOMAIN pluginsN /\ pluginsN[p].hash = conf.plugins[p]
        THEN pluginsN[p] ELSE [name |-> p, gen |-> gen, hash |-> conf.plugins[p]]]
pluginsToStop(new) == {pluginsN[p] : p \in {q \in DOMAIN pluginsN : q \notin DOMAIN new \/ new[q] # pluginsN[q]}}

(* loadNamespace: a namespace that names no plugins takes every one that  *)
(* the manager knows, which at a reload are the ones from before it; the  *)
(* transports of events come from there too.                              *)
Known(known) == {p \in known : CategoryOf[p] # "events"}
pluginNames(ns, known) == IF ns.all THEN Known(known) ELSE ns.plugins
EventsOfN(known) == {known[p] : p \in {q \in DOMAIN known : CategoryOf[q] = "events"}}

(* The loop over the known plugins dereferences each in the new list.     *)
loadPanics(conf, known) == \E n \in DOMAIN conf.namespaces : conf.namespaces[n].all /\ known \ DOMAIN conf.plugins # {}

(* validateNSPlugins and the checks after it.                             *)
validateNSPlugins(names, new) ==
    /\ names \subseteq DOMAIN new
    /\ \A p, q \in names : p # q /\ CategoryOf[p] = CategoryOf[q] => CategoryOf[p] = "tokens"
validateConfig(ns, names) ==
    LET has == {CategoryOf[p] : p \in names} IN
    (IF ns.multiparty THEN {"database", "sharedstorage", "dataexchange", "blockchain"} ELSE {"database"}) \subseteq has
loadFails(conf, known) ==
    \E n \in DOMAIN conf.namespaces :
        LET names == pluginNames(conf.namespaces[n], known)
        IN ~validateNSPlugins(names, conf.plugins) \/ ~validateConfig(conf.namespaces[n], names)

Loaded(n, conf, new, known, gen) ==
    Instance(n, gen, conf.namespaces[n],
             {new[p] : p \in pluginNames(conf.namespaces[n], DOMAIN known)}, EventsOfN(known))

(* stopDefunctNamespaces: what changed is the configuration of the        *)
(* namespace or of one of its plugins.                                    *)
changedConfigOnly(loaded, new) == Of(loaded.name, servedN[loaded.name]).conf.hash # loaded.conf.hash
changed(loaded, new) ==
    \/ Of(loaded.name, servedN[loaded.name]).conf.hash # loaded.conf.hash
    \/ \E p \in loaded.uses :
           \/ p.name \notin DOMAIN pluginsN
           \/ pluginsN[p.name].hash # new[p.name].hash
toStart(loaded, new) == {i \in loaded : i.name \notin DOMAIN servedN \/ changed(i, new)}

(* stopNamespace: the context is cancelled, and WaitStop stops the        *)
(* managers of an orchestrator that has started.                          *)
stopNamespace(i) == [i EXCEPT !.live = FALSE, !.running = FALSE, !.ready = FALSE]
stopAll(stop) == {IF i \in stop THEN stopNamespace(i) ELSE i : i \in instN}

(* setHandlers and Purge.                                                 *)
Purge(h, is) == {x \in h : ~\E i \in is : x.ns = i.name /\ x.plugin \in i.uses}
RegisterAll(h, is) ==
    Purge(h, is) \cup UNION {{[plugin |-> p, ns |-> i.name, gen |-> i.gen] : p \in i.uses} : i \in is}

(* Init, and Start after it.                                              *)
Started(conf, gen) ==
    LET new == [p \in DOMAIN conf.plugins |-> [name |-> p, gen |-> gen, hash |-> conf.plugins[p]]]
        all == {Loaded(n, conf, new, new, gen) : n \in DOMAIN conf.namespaces}
    IN [plugins |-> new, all |-> all, handlers |-> RegisterAll({}, all)]
InitN ==
    \E conf \in ConfigFiles : LET s == Started(conf, 1) IN
    /\ ~loadFails(conf, DOMAIN conf.plugins)
    /\ upN = TRUE /\ fileN = conf /\ pluginsN = s.plugins /\ cancelledN = {}
    /\ servedN = [n \in DOMAIN conf.namespaces |-> 1] /\ instN = s.all
    /\ handlersN = s.handlers /\ genN = 1 /\ failsN = 0
restartN(conf) ==
    LET s == Started(conf, genN + 1) IN
    /\ ~upN /\ ~loadFails(conf, DOMAIN conf.plugins)
    /\ upN' = TRUE /\ fileN' = conf /\ pluginsN' = s.plugins /\ cancelledN' = {}
    /\ servedN' = [n \in DOMAIN conf.namespaces |-> genN + 1] /\ instN' = s.all
    /\ handlersN' = s.handlers /\ genN' = genN + 1
    /\ UNCHANGED failsN
stopTheWorld == upN' = FALSE /\ instN' = {} /\ servedN' = Empty /\ handlersN' = {} /\ pluginsN' = Empty /\ cancelledN' = {}
-----------------------------------------------------------------------------
(* configReloaded: a configuration that cannot be loaded changes nothing. *)
(* Otherwise, all under the lock: stop what is defunct, forget the        *)
(* handlers of the namespaces that are gone, and start the new.           *)
configReloaded(conf) ==
    LET known == pluginsN
        new == Available(conf, genN + 1)
        loaded == {Loaded(n, conf, new, known, genN + 1) : n \in DOMAIN conf.namespaces}
        start == toStart(loaded, new)
        names == DOMAIN conf.namespaces
        gone == {i \in instN : i.name \in DOMAIN servedN \ names /\ servedN[i.name] = i.gen}
        stop == gone \cup {i \in instN : \E s \in start : /\ s.name = i.name /\ i.name \in DOMAIN servedN
                                                         /\ servedN[i.name] = i.gen}
    IN /\ upN /\ genN <= MaxReloads
       /\ ~loadPanics(conf, DOMAIN known) /\ ~loadFails(conf, DOMAIN known)
       /\ fileN' = conf /\ genN' = genN + 1
       /\ pluginsN' = new
       /\ cancelledN' = cancelledN \cup pluginsToStop(new)
       /\ servedN' = [n \in names |-> IF \E s \in start : s.name = n THEN genN + 1 ELSE servedN[n]]
       /\ instN' = stopAll(stop) \cup start
       /\ handlersN' = RegisterAll(Purge(handlersN, gone), start)
       /\ UNCHANGED <<upN, failsN>>

(* A plugin that fails to initialize, or a database that does, stops the  *)
(* whole process, and so does the dereference of a plugin that is gone.   *)
reloadFails(conf) ==
    /\ upN /\ genN <= MaxReloads
    /\ \/ loadPanics(conf, DOMAIN pluginsN) /\ failsN' = failsN
       \/ ~loadPanics(conf, DOMAIN pluginsN) /\ ~loadFails(conf, DOMAIN pluginsN) /\ failsN < MaxFailsN /\ failsN' = failsN + 1
    /\ stopTheWorld
    /\ UNCHANGED <<fileN, genN>>
-----------------------------------------------------------------------------
(* namespaceStarter, for one orchestrator.  A failure is tried again for  *)
(* as long as the context lives.                                          *)
initNamespace(i) ==
    /\ i.phase = "init"
    /\ Set(i, [i EXCEPT !.phase = "v1"])
    /\ UNCHANGED <<upN, fileN, pluginsN, cancelledN, servedN, handlersN, genN, failsN>>
retryStart(i) == [i EXCEPT !.phase = IF i.live THEN "init" ELSE "ended"]
startFails(i) ==
    /\ i.phase \in {"init", "start"} /\ failsN < MaxFailsN
    /\ failsN' = failsN + 1
    /\ Set(i, retryStart(i))
    /\ UNCHANGED <<upN, fileN, pluginsN, cancelledN, servedN, handlersN, genN>>

(* startV1NamespaceIfRequired, under the lock.                            *)
startV1NamespaceIfRequired(i) ==
    /\ i.phase = "v1"
    /\ IF i.conf.v1 = 0
       THEN Set(i, [i EXCEPT !.phase = "start"]) /\ UNCHANGED <<servedN, handlersN, genN>>
       ELSE IF ffsystem \in DOMAIN servedN /\
               LET old == Of(ffsystem, servedN[ffsystem])
               IN {p.name : p \in old.uses} # {p.name : p \in i.uses} \/ old.conf.v1 # i.conf.v1
       THEN Set(i, retryStart(i)) /\ UNCHANGED <<servedN, handlersN, genN>>
       ELSE LET sys == [Instance(ffsystem, genN + 1, i.conf, i.uses, i.events)
                           EXCEPT !.phase = "ended", !.running = TRUE, !.ready = TRUE]
            IN /\ instN' = (instN \ {i}) \cup {[i EXCEPT !.phase = "start"], sys}
               /\ servedN' = [n \in DOMAIN servedN \cup {ffsystem} |-> IF n = ffsystem THEN genN + 1 ELSE servedN[n]]
               /\ handlersN' = RegisterAll(handlersN, {sys})
               /\ genN' = genN + 1
    /\ UNCHANGED <<upN, fileN, pluginsN, cancelledN, failsN>>
startOrchestrator(i) ==
    /\ i.phase = "start"
    /\ Set(i, [i EXCEPT !.phase = "mark", !.running = TRUE])
    /\ UNCHANGED <<upN, fileN, pluginsN, cancelledN, servedN, handlersN, genN, failsN>>
markStarted(i) ==
    /\ i.phase = "mark"
    /\ Set(i, [i EXCEPT !.phase = "ended", !.ready = TRUE])
    /\ UNCHANGED <<upN, fileN, pluginsN, cancelledN, servedN, handlersN, genN, failsN>>

StarterStep == \E i \in instN : initNamespace(i) \/ startV1NamespaceIfRequired(i) \/ startOrchestrator(i) \/ markStarted(i)
NextN ==
    \/ \E conf \in ConfigFiles : configReloaded(conf) \/ reloadFails(conf) \/ restartN(conf)
    \/ \E i \in instN : startFails(i)
    \/ StarterStep
SpecN == InitN /\ [][NextN]_varsN

(* Fairness: every starter goroutine runs on, and a process that stopped  *)
(* is started again.                                                      *)
FairN == WF_varsN(StarterStep) /\ WF_varsN(\E conf \in ConfigFiles : restartN(conf))
-----------------------------------------------------------------------------
Current(n) == Of(n, servedN[n])
Named == {n \in DOMAIN servedN : n # ffsystem /\ ~Current(n).conf.all}

(* What is served is what the configuration says: every namespace that    *)
(* names its plugins is there with its current configuration, on plugins  *)
(* with their current configuration that were not stopped.                *)
ServedAsConfigured ==
    upN => /\ DOMAIN servedN \ {ffsystem} = DOMAIN fileN.namespaces
           /\ \A n \in Named :
                  /\ Current(n).conf = fileN.namespaces[n]
                  /\ \A p \in Current(n).uses : p.hash = fileN.plugins[p.name] /\ p \notin cancelledN

(* Callbacks of the plugins of a served namespace go to the orchestrator  *)
(* that is served, and the plugins that a namespace had when it was       *)
(* removed do not call it any more.                                       *)
Removed == {i \in instN : /\ i.name \notin DOMAIN servedN
                          /\ \A j \in instN : j.name = i.name => j.gen <= i.gen}
CallbacksFollow ==
    /\ \A n \in DOMAIN servedN : \A p \in Current(n).uses : [plugin |-> p, ns |-> n, gen |-> servedN[n]] \in handlersN
    /\ \A i \in Removed, h \in handlersN : h.ns = i.name => h.plugin \notin i.uses

(* No two orchestrators of one namespace work side by side, ff_system     *)
(* apart, which each namespace on the old contract creates again.         *)
OneOrchestrator == \A i, j \in instN : i.name = j.name /\ i # j /\ i.name # ffsystem => ~(i.live /\ j.live)

(* Once the configuration rests, every namespace in it is started, unless *)
(* the old contract of another one keeps it out.                          *)
Started1(n) == Current(n).ready
Blocked(n) == Current(n).conf.v1 # 0
NamespacesStart == <>[](\A n \in DOMAIN servedN : Blocked(n) \/ Started1(n))
=============================================================================
