-------------------------- MODULE InterpreterAnalyzer --------------------------
(***************************************************************************)
(* The plugin that sets up Chef for an interpreter thread and takes it     *)
(* down again (qemu/s2e/Plugins/Chef/InterpreterAnalyzer.cpp): the call    *)
(* tracer, connected while its thread is on the CPU (CallTracer.cpp), and  *)
(* the detector of the interpreter's structure (InterpreterDetector.cpp).  *)
(* They are shared by all execution states, each of which has a guest of   *)
(* its own.                                                                *)
(***************************************************************************)
EXTENDS OSTracer

VARIABLES
    tracked,       \* tracked_tid_; 0 when there is no call tracer
    connected,     \* CallTracer::on_custom_instruction_, on_translate_register_access_
    callStacks,    \* the states with a CallStack: CallTracer's state_map_
    interpParams,  \* whether interp_params_ is set
    detector,      \* interp_detector_: "none", "idle", "calibrating" or "detected"
    dangling       \* whether the detector's call tracer was deleted

analyzerVars == <<tracked, connected, callStacks, interpParams, detector, dangling>>
allVars == <<osVars, analyzerVars>>

AnalyzerInit ==
    /\ OSInit
    /\ tracked = 0 /\ connected = FALSE /\ callStacks = {}
    /\ interpParams = FALSE /\ detector = "none" /\ dangling = FALSE

\* onThreadExit() for the tracked thread.
takeDown ==
    /\ tracked' = 0 /\ connected' = FALSE /\ callStacks' = {}
    /\ detector' = "none" /\ dangling' = FALSE
    /\ UNCHANGED interpParams

\* onThreadCreate() for an interpreter thread, when "left" is the detector of an
\* earlier one that has not exited.  If the structure is known, the interpreter
\* tracer is given it, which asks for the call stack.
setUp(t, left) ==
    /\ tracked' = t /\ connected' = FALSE
    /\ callStacks' = IF interpParams THEN {running} ELSE {}
    /\ detector' = IF interpParams THEN left ELSE "idle"
    /\ dangling' = (interpParams /\ left # "none")
    /\ UNCHANGED interpParams

\* S2E_THREAD_START, of a thread with the interpreter's name or another; an old
\* thread of this id exits first.
onThreadStart(t, p, interpreter) ==
    LET exits == Exists(os[running], t) /\ tracked = t
    IN  /\ threadStart(t, p)
        /\ \/ interpreter /\ setUp(t, IF exits THEN "none" ELSE detector)
           \/ ~interpreter /\ exits /\ takeDown
           \/ ~interpreter /\ ~exits /\ UNCHANGED analyzerVars

\* Mutant of onThreadExit: the tracers outlive their thread.
onThreadExitIgnored(t) == threadExit(t) /\ UNCHANGED analyzerVars

onThreadExit(t) ==
    /\ threadExit(t)
    /\ IF tracked = t THEN takeDown ELSE UNCHANGED analyzerVars

\* CallTracer::updateConnections() for the thread that is active in o.
updateConnections(o) ==
    /\ connected' = (tracked # 0 /\ ActiveTid(o) = tracked)
    /\ UNCHANGED <<tracked, callStacks, interpParams, detector, dangling>>

onPrivilegeChange == privilegeChange /\ UNCHANGED analyzerVars

\* OSTracer::onThreadSwitch is emitted when the active thread changes.
onPageDirectoryChange(p) ==
    /\ pageDirectoryChange(p)
    /\ IF os'[running].active_thread = os[running].active_thread THEN UNCHANGED analyzerVars
       ELSE updateConnections(os'[running])

\* Mutant of onStateSwitch: the connections are those of the state before.
onStateSwitchIgnored(l) == stateSwitch(l) /\ UNCHANGED analyzerVars

onStateSwitch(l) == stateSwitch(l) /\ updateConnections(os[l])

\* onStateFork() of the OS tracer, then of the call tracer, whose clone() looks
\* the thread up in the new state.
onStateFork(n) ==
    /\ guest = "forksEarly" \/ interpParams
    /\ stateFork(n)
    /\ callStacks' = IF running \in callStacks THEN callStacks \cup {n} ELSE callStacks
    /\ UNCHANGED <<tracked, connected, interpParams, detector, dangling>>

\* Mutant of onStateKill: the call stack stays in the map.
onStateKillKept(l) == stateKill(l) /\ UNCHANGED analyzerVars

onStateKill(l) ==
    /\ stateKill(l)
    /\ callStacks' = callStacks \ {l}
    /\ UNCHANGED <<tracked, connected, interpParams, detector, dangling>>

\* onStackPointerModification() and onCustomInstruction() in user mode.
onTracedInstruction ==
    /\ running \in Alive /\ connected /\ ~kernel[running]
    /\ callStacks' = callStacks \cup {running}
    /\ UNCHANGED <<osVars, tracked, connected, interpParams, detector, dangling>>

\* The tracked thread runs in this state, and the guest's library talks to a
\* detector that has not finished.
Calibrates ==
    /\ running \in Alive /\ ~kernel[running] /\ detector \in {"idle", "calibrating"}
    /\ LET i == getThread(os[running], tracked)
       IN  i # 0 /\ os[running].objects[i].running

startCalibration ==
    /\ Calibrates /\ detector = "idle"
    /\ detector' = "calibrating"
    /\ UNCHANGED <<osVars, tracked, connected, callStacks, interpParams, dangling>>

\* InterpreterDetector::onDataMemoryAccess() records the access with its frame.
onDataMemoryAccess ==
    /\ Calibrates /\ detector = "calibrating"
    /\ ~os[running].objects[getThread(os[running], tracked)].kernel_mode
    /\ callStacks' = callStacks \cup {running}
    /\ UNCHANGED <<osVars, tracked, connected, interpParams, detector, dangling>>

\* endCalibration(): analyze() finds the structure, and the interpreter tracer
\* is given it, or not.
endCalibration(found) ==
    /\ Calibrates /\ detector = "calibrating"
    /\ detector' = IF found THEN "detected" ELSE "idle"
    /\ interpParams' = (interpParams \/ found)
    /\ callStacks' = IF found THEN callStacks \cup {running} ELSE callStacks
    /\ UNCHANGED <<osVars, tracked, connected, dangling>>

AnalyzerNext ==
    \/ \E t \in Tids : onThreadExit(t) \/
         \E p \in PageTables, interpreter \in BOOLEAN : onThreadStart(t, p, interpreter)
    \/ onPrivilegeChange \/ \E p \in PageTables : onPageDirectoryChange(p)
    \/ \E l \in States : onStateSwitch(l) \/ onStateFork(l) \/ onStateKill(l)
    \/ onTracedInstruction \/ onDataMemoryAccess
    \/ startCalibration \/ \E found \in BOOLEAN : endCalibration(found)

AnalyzerSpec == AnalyzerInit /\ [][AnalyzerNext]_allVars

-----------------------------------------------------------------------------
\* Type invariant of the OS tracer and the analyzer.
AnalyzerTypeOK ==
    /\ status \in [States -> {"unborn", "alive"}] /\ running \in States
    /\ kernel \in [States -> BOOLEAN] /\ guest \in Guests
    /\ \A l \in States :
         /\ os[l].address_spaces \in [PageTables -> Tids \cup {0}]
         /\ os[l].active_thread \in Object \cup {0}
         /\ \A i \in Object : Exists(os[l], i) =>
              /\ i # Old => os[l].objects[i].tid = i
              /\ i = Old => os[l].active_thread = Old
    /\ tracked \in Tids \cup {0} /\ connected \in BOOLEAN /\ callStacks \subseteq States
    /\ interpParams \in BOOLEAN /\ dangling \in BOOLEAN
    /\ detector \in {"none", "idle", "calibrating", "detected"}

\* The callbacks of the call tracer find their thread: they are connected only
\* while the tracked thread is the active one of the running state, although
\* another state may have started, restarted or lost it.
CallbacksFindThread ==
    running \in Alive /\ connected =>
        getThread(os[running], tracked) # 0 /\ ActiveTid(os[running]) = tracked

\* CallStack::clone() finds the thread in the forked state, which does not copy
\* an active thread that is no longer known; and a state that is born does not
\* find the call stack of an earlier one at its address.
CallStacksClonable ==
    \A l \in callStacks : l \in Alive /\ Exists(os[l], tracked)

\* A detector that is still to be used has the call tracer of the thread that
\* is tracked now, however many interpreters the guest has started.
DetectorTracks ==
    detector \in {"idle", "calibrating"} => tracked # 0 /\ ~dangling /\ ~interpParams

\* The detector finds its thread in every state, if states do not fork before
\* the structure is known ("before the interpreter starts forking").
DetectorFindsThread ==
    guest # "forksEarly" /\ running \in Alive /\ detector \in {"idle", "calibrating"} =>
        getThread(os[running], tracked) # 0
=============================================================================
