------------------------------ MODULE PodRun_proofs ------------------------------
(***************************************************************************)
(* A worker pod, container by container, implements PodLife, ships its     *)
(* logs and is shown in a status that goes on: proved for pods with and    *)
(* without a nix closure, any exit codes of the scripts and any number of  *)
(* mishaps.                                                                *)
(***************************************************************************)
EXTENDS PodRun, TLAPS

Init_s == PodContainers \cap InitContainers
Begun == {"running", "terminated"}

\* Containers begin in order, and a pod that is over stays so.
ContainersInOrder ==
  /\ \A c \in PodContainers : pod.state[c] \in Begun => \A i \in Before(c) : Ended0(i)
  /\ pod.state["main"] = "none" => \A c \in PodContainers : pod.state[c] = "none"
  /\ Final => Over

\* main's exit code is 0 only by both scripts.
CodeIsEarned ==
  /\ pod.pc = "main" => "before" \in pod.worked
  /\ pod.rc = 0 => {"before", "main"} \subseteq pod.worked

\* What the proofs need of the types.
Fields == {"exists", "phase", "doomed", "state", "code", "pc", "known", "rc", "worked",
           "sidecar", "fluent", "files", "log"}

Shape ==
  /\ DOMAIN pod = Fields
  /\ pod.state \in [PodContainers -> ContainerStates]
  /\ pod.code \in [PodContainers -> Codes]
  /\ pod.rc \in Codes
  /\ pod.phase \in {"Pending", "Running", "Succeeded", "Failed"}

PodInv == Shape /\ ContainersInOrder /\ CodeIsEarned

-----------------------------------------------------------------------------
LEMMA TheContainers ==
  /\ {"main", "log-sidecar"} \subseteq PodContainers
  /\ PodContainers \subseteq Containers
  /\ \A c \in PodContainers : Before(c) \subseteq PodContainers \cap InitContainers
  BY PodAssumption DEF PodAssumption, PodContainers, Containers, InitContainers, Before

LEMMA TheCodes == ScriptCodes \subseteq Nat /\ {0, 1, 127, 137, 143} \cup ScriptCodes = Codes
  BY PodAssumption DEF PodAssumption, Codes, Terminated, Killed

LEMMA InvInit == Init => PodInv
<1> SUFFICES ASSUME Init PROVE PodInv
  OBVIOUS
<1>1. Shape
  BY TheCodes DEF Init, Fresh, Shape, Fields, ContainerStates
<1> QED BY <1>1, TheContainers
        DEF Init, Fresh, PodInv, ContainersInOrder, CodeIsEarned, Begun, Final

\* The pod is well formed after every step.
LEMMA ShapeStep == ASSUME Shape, [Next]_vars PROVE Shape'
<1> USE TheContainers, TheCodes DEF Shape, Fields, ContainerStates, In, Exists, Become, Mishap
<1>1. CASE UNCHANGED vars
  BY <1>1 DEF vars
<1>2. CASE validate_script
  BY <1>2 DEF validate_script, Scripts
<1>3. CASE SpawnScript
  BY <1>3 DEF SpawnScript, Scripts
<1>4. CASE run_script
  BY <1>4 DEF run_script, Scripts, NextScript, Result
<1>5. CASE TermedScriptEnds
  BY <1>5 DEF TermedScriptEnds
<1>6. CASE cleanup
  BY <1>6 DEF cleanup
<1>7. CASE ExitMain
  BY <1>7 DEF ExitMain, wait_for_log_flush, Exit
<1>8. CASE Report
  BY <1>8 DEF Report
<1>9. CASE FinalPhase
  BY <1>9 DEF FinalPhase
<1>10. CASE GraceOver
  BY <1>10 DEF GraceOver, Killed
<1>11. ASSUME NEW c \in PodContainers, StartContainer(c) PROVE Shape'
  BY <1>11 DEF StartContainer
<1>12. ASSUME NEW c \in PodContainers, InitEnds(c) PROVE Shape'
  BY <1>12 DEF InitEnds
<1>13. CASE wait_for_startup
  BY <1>13 DEF wait_for_startup, Sidecar
<1>14. CASE StartupTimeout
  BY <1>14 DEF StartupTimeout, Sidecar, SidecarExits, WithoutSidecar
<1>15. CASE monitor_loop
  BY <1>15 DEF monitor_loop, Sidecar
<1>16. CASE shutdown_fluentbit
  BY <1>16 DEF shutdown_fluentbit, Sidecar, SidecarExits, WithoutSidecar
<1>17. CASE Create
  BY <1>17 DEF Create, Fresh, Scripts
<1>18. CASE Delete
  BY <1>18 DEF Delete
<1>19. CASE Remove
  BY <1>19 DEF Remove
<1>20. CASE OutOfMemory
  BY <1>20 DEF OutOfMemory, Killed
<1>21. CASE terminate
  <2>1. pod'.state \in {pod.state, [pod.state EXCEPT !["main"] = "terminated"]}
    BY <1>21 DEF terminate, Exit
  <2>2. pod'.code \in {pod.code, [pod.code EXCEPT !["main"] = 143]}
    BY <1>21 DEF terminate, Exit, Terminated
  <2>3. pod'.rc \in {pod.rc, 1, 143} /\ DOMAIN pod' = Fields /\ pod'.phase = pod.phase
    BY <1>21 DEF terminate, Exit, Terminated
  <2> QED BY <2>1, <2>2, <2>3
<1>22. CASE Upload
  BY <1>22 DEF Upload, Sidecar
<1>23. CASE SidecarKilled
  BY <1>23 DEF SidecarKilled, WithoutSidecar, Killed
<1>24. CASE SidecarTerm
  <2>1. pod'.state \in {pod.state, [pod.state EXCEPT !["log-sidecar"] = "terminated"]}
    BY <1>24 DEF SidecarTerm, SidecarExits, WithoutSidecar
  <2>2. pod'.code \in {pod.code, [pod.code EXCEPT !["log-sidecar"] = 0]}
    BY <1>24 DEF SidecarTerm, SidecarExits, WithoutSidecar
  <2>3. pod'.rc = pod.rc /\ DOMAIN pod' = Fields /\ pod'.phase = pod.phase
    BY <1>24 DEF SidecarTerm, SidecarExits, WithoutSidecar
  <2> QED BY <2>1, <2>2, <2>3
<1>25. ASSUME NEW c \in PodContainers, PullFails(c) PROVE Shape'
  BY <1>25 DEF PullFails
<1>26. CASE FluentBitFails
  BY <1>26 DEF FluentBitFails
<1> QED BY <1>1, <1>2, <1>3, <1>4, <1>5, <1>6, <1>7, <1>8, <1>9, <1>10, <1>11, <1>12, <1>13,
           <1>14, <1>15, <1>16, <1>17, <1>18, <1>19, <1>20, <1>21, <1>22, <1>23, <1>24, <1>25, <1>26
        DEF Next, Entrypoint, Kubelet, LogSidecar, Other

-----------------------------------------------------------------------------
(* What a step does to the containers.                                     *)

\* Nothing; and what the scripts have done is left alone once main has ended.
Quiet ==
  /\ pod'.exists = pod.exists /\ pod'.phase = pod.phase /\ pod'.doomed = pod.doomed
  /\ pod'.state = pod.state /\ pod'.code = pod.code
  /\ Ended("main") => pod'.worked = pod.worked

\* One that runs ends; main with 0 only if that is what it has come to.
Ends(c, code) ==
  /\ In(c, "running")
  /\ pod'.exists = pod.exists /\ pod'.phase = pod.phase /\ pod'.doomed = pod.doomed
  /\ pod'.state = [pod.state EXCEPT ![c] = "terminated"]
  /\ pod'.code = [pod.code EXCEPT ![c] = code]
  /\ pod'.worked = pod.worked
  /\ c = "main" /\ code = 0 => pod.rc = 0

OneEnds == \E c \in PodContainers, code \in Codes : Ends(c, code)

PodChanges ==
  \/ Report \/ FinalPhase \/ GraceOver \/ Create \/ Delete \/ Remove
  \/ \E c \in PodContainers : StartContainer(c) \/ PullFails(c)

LEMMA StepKinds == ASSUME Shape, [Next]_vars PROVE Quiet \/ OneEnds \/ PodChanges
<1> USE TheContainers, TheCodes
<1> USE DEF Shape, Fields, Become, Mishap
<1>1. CASE UNCHANGED vars
  BY <1>1 DEF vars, Quiet
<1>2. CASE validate_script
  BY <1>2 DEF validate_script, Quiet
<1>3. CASE SpawnScript
  BY <1>3 DEF SpawnScript, Quiet
<1>4. CASE TermedScriptEnds \/ cleanup
  BY <1>4 DEF TermedScriptEnds, cleanup, Quiet
<1>5. CASE run_script
  <2>1. pod.state["main"] = "running"
    BY <1>5 DEF run_script, In
  <2>2. PICK code \in ScriptCodes :
          pod' = [pod EXCEPT
                    !.pc = NextScript(@, code), !.known = FALSE, !.log = "pending",
                    !.rc = Result(pod.pc, @, code),
                    !.worked = IF code = 0 THEN @ \union {pod.pc} ELSE @]
    BY <1>5 DEF run_script
  <2> QED BY <2>1, <2>2 DEF Quiet, Ended
<1>6. CASE ExitMain
  <2>1. Ends("main", pod.rc)
    BY <1>6 DEF ExitMain, wait_for_log_flush, Exit, Ends
  <2> QED BY <2>1 DEF OneEnds
<1>7. CASE \E c \in PodContainers : InitEnds(c)
  <2>1. PICK c \in PodContainers : InitEnds(c)
    BY <1>7
  <2>2. PICK code \in {0, 1} :
          pod' = [pod EXCEPT !.state[c] = "terminated", !.code[c] = code]
    BY <2>1 DEF InitEnds
  <2>3. Ends(c, code)
    BY <2>1, <2>2 DEF InitEnds, Ends, InitContainers
  <2> QED BY <2>3 DEF OneEnds
<1>8. CASE wait_for_startup \/ monitor_loop \/ Upload \/ FluentBitFails
  BY <1>8 DEF wait_for_startup, monitor_loop, Upload, FluentBitFails, Quiet
<1>9. CASE StartupTimeout
  <2>1. Ends("log-sidecar", 1)
    BY <1>9 DEF StartupTimeout, Sidecar, SidecarExits, WithoutSidecar, Ends
  <2> QED BY <2>1 DEF OneEnds
<1>10. CASE shutdown_fluentbit
  <2>1. Ends("log-sidecar", 0)
    BY <1>10 DEF shutdown_fluentbit, Sidecar, SidecarExits, WithoutSidecar, Ends
  <2> QED BY <2>1 DEF OneEnds
<1>11. CASE SidecarKilled
  <2>1. Ends("log-sidecar", 137)
    BY <1>11 DEF SidecarKilled, WithoutSidecar, Killed, Ends
  <2> QED BY <2>1 DEF OneEnds
<1>12. CASE SidecarTerm
  <2>1. CASE Sidecar("startup")
    <3>1. Ends("log-sidecar", 0)
      BY <1>12, <2>1 DEF SidecarTerm, Sidecar, SidecarExits, WithoutSidecar, Ends
    <3> QED BY <3>1 DEF OneEnds
  <2>2. CASE Sidecar("ship")
    BY <1>12, <2>2 DEF SidecarTerm, Sidecar, Quiet
  <2> QED BY <1>12, <2>1, <2>2 DEF SidecarTerm
<1>13. CASE OutOfMemory
  <2>1. Ends("main", 137)
    BY <1>13 DEF OutOfMemory, Killed, Ends
  <2> QED BY <2>1 DEF OneEnds
<1>14. CASE terminate
  <2>1. CASE pod.pc = "flush"
    <3>1. /\ In("main", "running")
          /\ pod' = [pod EXCEPT !.state["main"] = "terminated", !.code["main"] = 143,
                                !.pc = "exited", !.rc = 1]
      BY <1>14, <2>1 DEF terminate, Exit, Terminated, Scripts
    <3>2. Ends("main", 143)
      BY <3>1 DEF Ends
    <3> QED BY <3>2 DEF OneEnds
  <2>2. CASE pod.pc # "flush"
    <3>1. CASE pod' = [pod EXCEPT !.rc = Terminated]
      BY <3>1 DEF Quiet
    <3>2. CASE pod' = [pod EXCEPT !.pc = IF pod.known THEN "term" ELSE "cleanup",
                                  !.known = FALSE, !.rc = Terminated, !.log = "pending"]
      BY <3>2 DEF Quiet
    <3> QED BY <1>14, <2>2, <3>1, <3>2 DEF terminate
  <2> QED BY <2>1, <2>2
<1> QED BY <1>1, <1>2, <1>5, <1>6, <1>7, <1>8, <1>9, <1>10, <1>11, <1>12, <1>13, <1>14,
           <1>3, <1>4
        DEF Next, Entrypoint, Kubelet, LogSidecar, Other, PodChanges

-----------------------------------------------------------------------------
\* A container starts only in a pod that is not over.
LEMMA StartIsEarly ==
  ASSUME Shape, ContainersInOrder, NEW c \in PodContainers, StartContainer(c)
  PROVE  ~Final
<1> USE TheContainers DEF Shape, Fields, Become
<1>1. /\ pod.state[c] \in Waiting /\ ~pod.doomed
      /\ \A i \in Before(c) : Ended0(i)
  BY DEF StartContainer
<1>2. ASSUME InitFailed PROVE FALSE
  <2>1. PICK i \in PodContainers \cap InitContainers : Ended(i) /\ ~Ended0(i)
    BY <1>2 DEF InitFailed
  <2>2. c # i /\ i \notin Before(c)
    BY <1>1, <2>1 DEF Ended, Waiting
  <2>3. c = "chain-init" /\ i = "chain-nix-init"
    BY <1>1, <2>1, <2>2 DEF Before, Containers, InitContainers
  <2>4. c \in Before(i)
    BY <2>3 DEF Before
  <2> QED BY <1>1, <2>1, <2>4 DEF ContainersInOrder, Begun, Ended, Ended0, Waiting
<1>3. ASSUME Ended("main"), Ended("log-sidecar") PROVE FALSE
  <2>1. c # "main" /\ c # "log-sidecar"
    BY <1>1, <1>3 DEF Ended, Waiting
  <2>2. c \in Before("main")
    BY <2>1 DEF Before, Containers, InitContainers
  <2> QED BY <1>1, <1>3, <2>2 DEF ContainersInOrder, Begun, Ended, Ended0, Waiting
<1> QED BY <1>1, <1>2, <1>3 DEF ContainersInOrder, Over

LEMMA OrderStep ==
  ASSUME Shape, Shape', ContainersInOrder, Quiet \/ OneEnds \/ PodChanges
  PROVE  ContainersInOrder'
<1> USE TheContainers DEF Shape, Fields, Become, Mishap
<1>1. CASE Quiet
  BY <1>1 DEF Quiet, ContainersInOrder, Over, Final, InitFailed, Ended, Ended0
<1>2. ASSUME NEW c \in PodContainers, NEW code \in Codes, Ends(c, code)
      PROVE  ContainersInOrder'
  <2>1. pod.state[c] = "running" /\ ~Final
    BY <1>2 DEF Ends, In, ContainersInOrder, Over
  <2> QED BY <1>2, <2>1 DEF Ends, ContainersInOrder, Final, Ended, Ended0, Begun
<1>3. CASE Report
  BY <1>3 DEF Report, In, ContainersInOrder, Over, Final, InitFailed, Ended, Ended0, Begun
<1>4. CASE FinalPhase
  BY <1>4 DEF FinalPhase, ContainersInOrder, Over, Final, InitFailed, Ended, Ended0, Begun
<1>5. CASE GraceOver
  BY <1>5 DEF GraceOver, In, ContainersInOrder, Over, Final, InitFailed, Ended, Ended0, Begun
<1>6. CASE Create
  BY <1>6 DEF Create, Fresh, ContainersInOrder, Final, Begun
<1>7. CASE Delete \/ Remove
  BY <1>7 DEF Delete, Remove, ContainersInOrder, Over, Final, InitFailed, Ended, Ended0, Begun
<1>8. ASSUME NEW c \in PodContainers, StartContainer(c) PROVE ContainersInOrder'
  <2>1. /\ pod.state[c] \in Waiting
        /\ \A i \in Before(c) : Ended0(i)
        /\ pod'.state = [pod.state EXCEPT ![c] = "running"] /\ pod'.code = pod.code
        /\ pod'.phase \in {pod.phase, "Running"}
    BY <1>8 DEF StartContainer
  <2>4. ~Final
    BY <1>8, StartIsEarly
  <2>5. ~Final'
    BY <2>1, <2>4 DEF Final
  <2> QED BY <2>1, <2>5 DEF ContainersInOrder, Begun, Ended, Ended0, Waiting
<1>9. ASSUME NEW c \in PodContainers, PullFails(c) PROVE ContainersInOrder'
  BY <1>9 DEF PullFails, In, ContainersInOrder, Over, Final, InitFailed, Ended, Ended0, Begun
<1> QED BY <1>1, <1>2, <1>3, <1>4, <1>5, <1>6, <1>7, <1>8, <1>9 DEF OneEnds, PodChanges

LEMMA EarnedStep == ASSUME Shape, CodeIsEarned, [Next]_vars PROVE CodeIsEarned'
<1> DEFINE Kept == pod'.pc = pod.pc /\ pod'.rc = pod.rc /\ pod'.worked = pod.worked
<1> USE TheContainers, TheCodes DEF Shape, Fields, Become, Mishap
<1>1. CASE UNCHANGED vars
  BY <1>1 DEF vars, CodeIsEarned
<1>2. CASE validate_script
  BY <1>2 DEF validate_script, CodeIsEarned
<1>3. CASE SpawnScript
  BY <1>3 DEF SpawnScript, CodeIsEarned
<1>4. CASE run_script
  <2>1. PICK code \in ScriptCodes :
          pod' = [pod EXCEPT
                    !.pc = NextScript(@, code), !.known = FALSE, !.log = "pending",
                    !.rc = Result(pod.pc, @, code),
                    !.worked = IF code = 0 THEN @ \union {pod.pc} ELSE @]
    BY <1>4 DEF run_script
  <2>2. pod'.pc = NextScript(pod.pc, code) /\ pod'.rc = Result(pod.pc, pod.rc, code)
    BY <2>1
  <2>3. pod'.worked = IF code = 0 THEN pod.worked \union {pod.pc} ELSE pod.worked
    BY <2>1
  <2>4. pod.pc \in Scripts
    BY <1>4 DEF run_script
  <2>5. pod'.pc = "main" => pod.pc = "before" /\ code = 0
    BY <2>2, <2>4 DEF NextScript, Scripts
  <2>6. pod.pc # "main" => pod'.rc = pod.rc
    BY <2>2 DEF Result
  <2>7. pod.pc = "main" => pod'.rc = code
    BY <2>2 DEF Result
  <2> QED BY <2>3, <2>5, <2>6, <2>7 DEF CodeIsEarned
<1>5. CASE TermedScriptEnds
  BY <1>5 DEF TermedScriptEnds, CodeIsEarned
<1>6. CASE cleanup
  BY <1>6 DEF cleanup, CodeIsEarned
<1>7. CASE ExitMain
  BY <1>7 DEF ExitMain, Exit, CodeIsEarned
<1>8. CASE Report \/ FinalPhase
  BY <1>8 DEF Report, FinalPhase, CodeIsEarned
<1>9. CASE GraceOver
  BY <1>9 DEF GraceOver, CodeIsEarned
<1>10. ASSUME NEW c \in PodContainers, StartContainer(c) \/ InitEnds(c) \/ PullFails(c)
       PROVE  CodeIsEarned'
  BY <1>10 DEF StartContainer, InitEnds, PullFails, CodeIsEarned
<1>11. CASE wait_for_startup \/ monitor_loop \/ Upload \/ FluentBitFails
  BY <1>11 DEF wait_for_startup, monitor_loop, Upload, FluentBitFails, CodeIsEarned
<1>12. CASE StartupTimeout \/ shutdown_fluentbit \/ SidecarKilled
  BY <1>12 DEF StartupTimeout, shutdown_fluentbit, SidecarKilled, SidecarExits,
               WithoutSidecar, CodeIsEarned
<1>13. CASE SidecarTerm
  <2>1. Kept
    BY <1>13 DEF SidecarTerm, SidecarExits, WithoutSidecar
  <2> QED BY <2>1 DEF CodeIsEarned
<1>14. CASE Create
  BY <1>14 DEF Create, Fresh, CodeIsEarned
<1>15. CASE Delete \/ Remove
  BY <1>15 DEF Delete, Remove, CodeIsEarned
<1>16. CASE OutOfMemory
  BY <1>16 DEF OutOfMemory, CodeIsEarned
<1>17. CASE terminate
  <2>1. pod'.rc \in {1, 143} /\ pod'.worked = pod.worked
    BY <1>17 DEF terminate, Exit, Terminated
  <2>2. pod'.pc \in {pod.pc, "term", "cleanup", "exited"}
    BY <1>17 DEF terminate, Exit
  <2> QED BY <2>1, <2>2 DEF CodeIsEarned
<1> QED BY <1>1, <1>2, <1>3, <1>4, <1>5, <1>6, <1>7, <1>8, <1>9, <1>10, <1>11, <1>12, <1>13,
           <1>14, <1>15, <1>16, <1>17 DEF Next, Entrypoint, Kubelet, LogSidecar, Other

LEMMA InvStep == ASSUME PodInv, [Next]_vars PROVE PodInv'
<1>1. Shape'
  BY ShapeStep DEF PodInv
<1>2. Quiet \/ OneEnds \/ PodChanges
  BY StepKinds DEF PodInv
<1>3. ContainersInOrder'
  BY <1>1, <1>2, OrderStep DEF PodInv
<1>4. CodeIsEarned'
  BY EarnedStep DEF PodInv
<1> QED BY <1>1, <1>3, <1>4 DEF PodInv

LEMMA Invariance == Spec => []PodInv
<1>1. PodInv /\ [Next]_vars => PodInv'
  BY InvStep
<1> QED BY InvInit, <1>1, PTL DEF Spec

-----------------------------------------------------------------------------
(* The refinement.                                                         *)

LifeOf(attempt, phase, doomed, ended, code, worked) ==
  [attempt |-> attempt, phase |-> phase, doomed |-> doomed, ended |-> ended, code |-> code,
   worked |-> worked]

LEMMA EndOfLife ==
  ASSUME NEW r0, NEW r1, NEW r2, NEW ended, NEW code, NEW worked,
         [r0 EXCEPT !.ended = ended] = r1, [r1 EXCEPT !.code = code] = r2
  PROVE  [r0 EXCEPT !.ended = ended, !.code = code, !.worked = worked]
           = [r2 EXCEPT !.worked = worked]
<1>1. [r0 EXCEPT !.ended = ended, !.code = code, !.worked = worked]
        = [[[r0 EXCEPT !.ended = ended] EXCEPT !.code = code] EXCEPT !.worked = worked]
  OBVIOUS
<1> QED BY <1>1, Zenon

LEMMA LifeInitially == Init => Promise!LifeInit
<1> SUFFICES ASSUME Init PROVE Promise!LifeInit
  OBVIOUS
<1>1. /\ ~pod.exists /\ pod.phase = "Pending" /\ ~pod.doomed
      /\ pod.state["main"] = "none" /\ pod.code["main"] = 0
  BY TheContainers DEF Init, Fresh
<1>2. ~Exists /\ ~Ended("main")
  BY <1>1 DEF Exists, Ended
<1>3. (Ended("main") /\ {"before", "main"} \subseteq pod.worked) = FALSE
  BY <1>2
<1>4. Ended("main") = FALSE
  BY <1>2 DEF Ended
<1>5. pod.doomed = FALSE
  BY <1>1
<1>6. Life = Promise!Fresh(0)
  BY <1>1, <1>2, <1>3, <1>4, <1>5 DEF Life, Promise!Fresh
<1> QED BY <1>6 DEF Promise!LifeInit


\* Nothing the promise speaks of has changed.
LEMMA SameLife ==
  ASSUME pod'.exists = pod.exists, pod'.phase = pod.phase, pod'.doomed = pod.doomed,
         Ended("main")' = Ended("main"), pod'.code["main"] = pod.code["main"],
         Ended("main") => pod'.worked = pod.worked
  PROVE  UNCHANGED Life
<1>1. Exists' = Exists
  BY DEF Exists
<1>2. (Ended("main") /\ {"before", "main"} \subseteq pod.worked)' =
        (Ended("main") /\ {"before", "main"} \subseteq pod.worked)
  OBVIOUS
<1> QED BY <1>1, <1>2 DEF Life

LEMMA MainEndsWell ==
  ASSUME PodInv, NEW code \in Codes, Exists, ~Final, ~Ended("main"),
         Ended("main")', pod'.code["main"] = code,
         pod'.exists = pod.exists, pod'.phase = pod.phase, pod'.doomed = pod.doomed,
         pod'.worked = pod.worked, code = 0 => pod.rc = 0
  PROVE  Promise!PodStep("pod")
<1> DEFINE done == {"before", "main"} \subseteq pod.worked
<1>1. code = 0 => done
  BY DEF PodInv, CodeIsEarned
<1>2. Exists' = Exists /\ done' = done
  BY DEF Exists
<1>3. Life.attempt # 0 /\ Life.phase = pod.phase /\ ~Life.ended
  BY DEF Life
<1>4. Life' = [Life EXCEPT !.ended = TRUE, !.code = code, !.worked = done]
  <2> DEFINE yes == TRUE
  <2> DEFINE was == Ended("main") /\ done
  <2> DEFINE r(e, c, w) == LifeOf(IF Exists THEN 1 ELSE 0, pod.phase, pod.doomed, e, c, w)
  <2> DEFINE r0 == r(Ended("main"), pod.code["main"], was)
  <2> DEFINE r1 == r(yes, pod.code["main"], was)
  <2> DEFINE r2 == r(yes, code, was)
  <2>1. Ended("main")' = yes /\ (Ended("main") /\ done)' = done
    BY <1>2 DEF Ended
  <2> HIDE DEF yes, was, done
  <2>2. [r0 EXCEPT !.ended = yes] = r1
    BY SMT DEF LifeOf
  <2>3. [r1 EXCEPT !.code = code] = r2
    BY SMT DEF LifeOf
  <2>4. [r2 EXCEPT !.worked = done] = r(yes, code, done)
    BY SMT DEF LifeOf
  <2>5. Life' = r(yes, code, done)
    BY <1>2, <2>1, SMT DEF Life, LifeOf, done
  <2>6. Life = r0
    BY DEF Life, LifeOf, was, done
  <2> HIDE DEF r0, r1, r2, r
  <2>7. [r0 EXCEPT !.ended = yes, !.code = code, !.worked = done] = [r2 EXCEPT !.worked = done]
    BY <2>2, <2>3, EndOfLife, Zenon
  <2> QED BY <2>4, <2>5, <2>6, <2>7, Zenon DEF yes
<1>5. Promise!MainEnds("pod", code, done)
  BY <1>1, <1>3, <1>4 DEF Promise!Become, Promise!MainEnds, Promise!Exists, Promise!Final, Final
<1> QED BY <1>5 DEF Promise!PodStep

LEMMA PhaseComes ==
  ASSUME NEW phase, pod'.phase = phase, pod'.exists = pod.exists, pod'.doomed = pod.doomed,
         Ended("main")' = Ended("main"), pod'.code["main"] = pod.code["main"],
         pod'.worked = pod.worked
  PROVE  Life' = [Life EXCEPT !.phase = phase]
<1> DEFINE a == IF Exists THEN 1 ELSE 0
<1> DEFINE e == Ended("main")
<1> DEFINE w == Ended("main") /\ {"before", "main"} \subseteq pod.worked
<1>1. a' = a /\ e' = e /\ w' = w
  BY DEF Exists
<1>2. Life = LifeOf(a, pod.phase, pod.doomed, e, pod.code["main"], w)
  BY DEF Life, LifeOf
<1>3. Life' = LifeOf(a, phase, pod.doomed, e, pod.code["main"], w)
  BY <1>1 DEF Life, LifeOf
<1> HIDE DEF a, e, w
<1>4. [LifeOf(a, pod.phase, pod.doomed, e, pod.code["main"], w) EXCEPT !.phase = phase]
        = LifeOf(a, phase, pod.doomed, e, pod.code["main"], w)
  BY SMT DEF LifeOf
<1> QED BY <1>2, <1>3, <1>4, Zenon

LEMMA DeletionComes ==
  ASSUME pod'.phase = pod.phase, pod'.exists = pod.exists, pod'.doomed = TRUE,
         Ended("main")' = Ended("main"), pod'.code["main"] = pod.code["main"],
         pod'.worked = pod.worked
  PROVE  Life' = [Life EXCEPT !.doomed = TRUE]
<1> DEFINE a == IF Exists THEN 1 ELSE 0
<1> DEFINE e == Ended("main")
<1> DEFINE w == Ended("main") /\ {"before", "main"} \subseteq pod.worked
<1> DEFINE yes == TRUE
<1>1. a' = a /\ e' = e /\ w' = w
  BY DEF Exists
<1>2. Life = LifeOf(a, pod.phase, pod.doomed, e, pod.code["main"], w)
  BY DEF Life, LifeOf
<1>3. Life' = LifeOf(a, pod.phase, yes, e, pod.code["main"], w)
  BY <1>1 DEF Life, LifeOf
<1> HIDE DEF a, e, w, yes
<1>4. [LifeOf(a, pod.phase, pod.doomed, e, pod.code["main"], w) EXCEPT !.doomed = yes]
        = LifeOf(a, pod.phase, yes, e, pod.code["main"], w)
  BY SMT DEF LifeOf
<1> QED BY <1>2, <1>3, <1>4, Zenon DEF yes

LEMMA RemovalComes ==
  ASSUME pod'.phase = pod.phase, Exists, ~Exists', pod'.doomed = pod.doomed,
         Ended("main")' = Ended("main"), pod'.code["main"] = pod.code["main"],
         pod'.worked = pod.worked
  PROVE  Life' = [Life EXCEPT !.attempt = 0]
<1> DEFINE e == Ended("main")
<1> DEFINE w == Ended("main") /\ {"before", "main"} \subseteq pod.worked
<1>1. e' = e /\ w' = w
  OBVIOUS
<1>2. Life = LifeOf(1, pod.phase, pod.doomed, e, pod.code["main"], w)
  BY DEF Life, LifeOf
<1>3. Life' = LifeOf(0, pod.phase, pod.doomed, e, pod.code["main"], w)
  BY <1>1 DEF Life, LifeOf
<1> HIDE DEF e, w
<1>4. [LifeOf(1, pod.phase, pod.doomed, e, pod.code["main"], w) EXCEPT !.attempt = 0]
        = LifeOf(0, pod.phase, pod.doomed, e, pod.code["main"], w)
  BY SMT DEF LifeOf
<1> QED BY <1>2, <1>3, <1>4, Zenon

LEMMA CreationComes == ASSUME Create PROVE Promise!Create("pod", 1)
<1>1. /\ ~Exists /\ pod' = Fresh
  BY DEF Create, Become
<1>2. /\ pod'.exists /\ pod'.phase = "Pending" /\ pod'.doomed = FALSE
      /\ pod'.state["main"] = "none" /\ pod'.code["main"] = 0
  BY <1>1, TheContainers DEF Fresh
<1>3. Ended("main")' = FALSE /\ Exists'
  BY <1>2 DEF Ended, Exists
<1>4. (Ended("main") /\ {"before", "main"} \subseteq pod.worked)' = FALSE
  BY <1>3
<1>5. Life' = Promise!Fresh(1)
  BY <1>2, <1>3, <1>4 DEF Life, Promise!Fresh
<1>6. ~Promise!Exists("pod")
  BY <1>1 DEF Promise!Exists, Life
<1> QED BY <1>5, <1>6 DEF Promise!Become, Promise!Create

\* What an existing pod shows of itself.
LEMMA WhatIsSeen ==
  /\ Promise!Exists("pod") <=> Exists
  /\ Promise!Final("pod") <=> Final
  /\ Life.phase = pod.phase /\ Life.code = pod.code["main"]
  /\ Life.ended <=> Ended("main")
  /\ Life.doomed = pod.doomed
<1>1. /\ Life.phase = pod.phase /\ Life.code = pod.code["main"]
      /\ Life.doomed = pod.doomed
  BY DEF Life
<1>2. Life.ended <=> Ended("main")
  BY DEF Life, Ended
<1>3. Life.attempt # 0 <=> Exists
  BY DEF Life
<1> QED BY <1>1, <1>2, <1>3 DEF Promise!Exists, Promise!Final, Final

LEMMA LifeStep ==
  ASSUME PodInv, [Next]_vars
  PROVE  Promise!LifeNext \/ UNCHANGED Life
<1> USE TheContainers DEF Shape, Fields, Become, Mishap
<1>0. Shape /\ ContainersInOrder
  BY DEF PodInv
<1>1. CASE Quiet
  <2>1. Ended("main")' = Ended("main")
    BY <1>1 DEF Quiet, Ended
  <2> QED BY <1>1, <2>1, SameLife DEF Quiet
<1>2. ASSUME NEW c \in PodContainers, NEW code \in Codes, Ends(c, code)
      PROVE  Promise!LifeNext \/ UNCHANGED Life
  <2>1. Exists /\ pod.state[c] = "running" /\ ~Final
    BY <1>0, <1>2 DEF Ends, In, ContainersInOrder, Over
  <2>2. CASE c = "main"
    <3>1. ~Ended("main") /\ Ended("main")' /\ pod'.code["main"] = code
      BY <1>0, <1>2, <2>1, <2>2 DEF Ends, Ended
    <3>2. Promise!PodStep("pod")
      BY <1>2, <2>1, <2>2, <3>1, MainEndsWell DEF Ends
    <3> QED BY <3>2 DEF Promise!LifeNext
  <2>3. CASE c # "main"
    <3>1. Ended("main")' = Ended("main") /\ pod'.code["main"] = pod.code["main"]
      BY <1>0, <1>2, <2>3 DEF Ends, Ended
    <3> QED BY <1>2, <3>1, SameLife DEF Ends
  <2> QED BY <2>2, <2>3
<1>3. CASE Report
  <2>1. Ended("main")' = Ended("main")
    BY <1>0, <1>3 DEF Report, In, Ended
  <2>2. /\ pod'.exists = pod.exists /\ pod'.phase = pod.phase /\ pod'.doomed = pod.doomed
        /\ pod'.code = pod.code /\ pod'.worked = pod.worked
    BY <1>0, <1>3 DEF Report
  <2> QED BY <2>1, <2>2, SameLife
<1>4. CASE FinalPhase
  <2>1. PICK phase \in {"Succeeded", "Failed"} :
          /\ pod' = [pod EXCEPT !.phase = phase]
          /\ phase = "Succeeded" => Ended0("main")
    BY <1>0, <1>4 DEF FinalPhase
  <2>2. Ended("main")' = Ended("main")
    BY <1>0, <2>1 DEF Ended
  <2>3. Life' = [Life EXCEPT !.phase = phase]
    BY <1>0, <2>1, <2>2, PhaseComes
  <2>4. Exists /\ ~Final
    BY <1>4 DEF FinalPhase
  <2>5. Promise!Succeed("pod") \/ Promise!Fail("pod")
    BY <2>1, <2>3, <2>4, WhatIsSeen DEF Promise!Become, Promise!Succeed, Promise!Fail, Ended0
  <2> QED BY <2>5 DEF Promise!PodStep, Promise!LifeNext
<1>5. CASE GraceOver
  <2>1. Exists /\ ~Final
    BY <1>0, <1>5 DEF GraceOver, In, ContainersInOrder, Over
  <2>2. /\ pod'.exists = pod.exists /\ pod'.phase = pod.phase /\ pod'.doomed = pod.doomed
        /\ pod'.worked = pod.worked
    BY <1>0, <1>5 DEF GraceOver
  <2>3. CASE pod.state["main"] = "running"
    <3>1. ~Ended("main") /\ Ended("main")' /\ pod'.code["main"] = 137
      BY <1>0, <1>5, <2>1, <2>3 DEF GraceOver, In, Ended, Killed
    <3>2. Promise!PodStep("pod")
      BY <2>1, <2>2, <3>1, TheCodes, MainEndsWell
    <3> QED BY <3>2 DEF Promise!LifeNext
  <2>4. CASE pod.state["main"] # "running"
    <3>1. Ended("main")' = Ended("main") /\ pod'.code["main"] = pod.code["main"]
      BY <1>0, <1>5, <2>4 DEF GraceOver, In, Ended
    <3> QED BY <2>2, <3>1, SameLife
  <2> QED BY <2>3, <2>4
<1>6. CASE Create
  BY <1>6, CreationComes DEF Promise!LifeNext
<1>7. CASE Delete
  <2>1. /\ pod'.exists = pod.exists /\ pod'.phase = pod.phase /\ pod'.doomed = TRUE
        /\ pod'.state = pod.state /\ pod'.code = pod.code /\ pod'.worked = pod.worked
    BY <1>0, <1>7 DEF Delete
  <2>2. Ended("main")' = Ended("main")
    BY <2>1 DEF Ended
  <2>3. Life' = [Life EXCEPT !.doomed = TRUE]
    BY <2>1, <2>2, DeletionComes
  <2>4. Promise!Delete("pod")
    BY <1>7, <2>3, WhatIsSeen DEF Promise!Become, Delete, Promise!Delete
  <2> QED BY <2>4 DEF Promise!LifeNext
<1>8. CASE Remove
  <2>1. /\ Exists /\ ~Exists' /\ pod'.phase = pod.phase /\ pod'.doomed = pod.doomed
        /\ pod'.state = pod.state /\ pod'.code = pod.code /\ pod'.worked = pod.worked
    BY <1>0, <1>8 DEF Remove, Exists
  <2>2. Ended("main")' = Ended("main")
    BY <2>1 DEF Ended
  <2>3. Life' = [Life EXCEPT !.attempt = 0]
    BY <2>1, <2>2, RemovalComes
  <2>4. Promise!Remove("pod")
    BY <1>8, <2>3, WhatIsSeen DEF Promise!Become, Remove, Promise!Remove
  <2> QED BY <2>4 DEF Promise!LifeNext
<1>9. ASSUME NEW c \in PodContainers, StartContainer(c)
      PROVE  Promise!LifeNext \/ UNCHANGED Life
  <2>1. /\ Exists /\ pod.state[c] \in Waiting /\ pod'.phase \in {pod.phase, "Running"}
        /\ pod'.state = [pod.state EXCEPT ![c] = "running"]
        /\ pod'.exists = pod.exists /\ pod'.doomed = pod.doomed
        /\ pod'.code = pod.code /\ pod'.worked = pod.worked
    BY <1>0, <1>9 DEF StartContainer
  <2>2. Ended("main")' = Ended("main")
    BY <1>0, <2>1 DEF Ended, Waiting
  <2>3. CASE pod'.phase = pod.phase
    BY <2>1, <2>2, <2>3, SameLife
  <2>4. CASE pod'.phase = "Running" /\ pod.phase # "Running"
    <3>1. ~Final
      BY <1>0, <1>9, StartIsEarly
    <3>2. pod.phase = "Pending"
      BY <1>0, <2>4, <3>1 DEF Final
    <3>3. Life' = [Life EXCEPT !.phase = "Running"]
      BY <2>1, <2>2, <2>4, PhaseComes
    <3>4. Promise!Start("pod")
      BY <2>1, <3>2, <3>3, WhatIsSeen DEF Promise!Become, Promise!Start
    <3> QED BY <3>4 DEF Promise!PodStep, Promise!LifeNext
  <2> QED BY <2>1, <2>3, <2>4
<1>10. ASSUME NEW c \in PodContainers, PullFails(c)
       PROVE  Promise!LifeNext \/ UNCHANGED Life
  <2>1. /\ pod.state[c] = "waiting" /\ pod'.state = [pod.state EXCEPT ![c] = "pull_error"]
        /\ pod'.exists = pod.exists /\ pod'.phase = pod.phase /\ pod'.doomed = pod.doomed
        /\ pod'.code = pod.code /\ pod'.worked = pod.worked
    BY <1>0, <1>10 DEF PullFails, In
  <2>2. Ended("main")' = Ended("main")
    BY <1>0, <2>1 DEF Ended
  <2> QED BY <2>1, <2>2, SameLife
<1> QED BY <1>0, <1>1, <1>2, <1>3, <1>4, <1>5, <1>6, <1>7, <1>8, <1>9, <1>10, StepKinds
        DEF OneEnds, PodChanges

(* main's exit code and the phase of the pod mean what a JobSet takes them *)
(* for: main ends once, with 0 only if the before and the main script did, *)
(* the pod is Succeeded only then, and its phase is final (main,           *)
(* run_script, terminate of chain-entrypoint.sh; restartPolicy Never).     *)
THEOREM ThePromiseIsKept == Spec => KeepsPromise
<1>1. PodInv /\ [Next]_vars => [Promise!LifeNext]_([p \in {"pod"} |-> Life])
  BY LifeStep
<1> QED BY LifeInitially, Invariance, <1>1, PTL DEF Spec, KeepsPromise, Promise!LifeSpec

-----------------------------------------------------------------------------
(* LogsAreShipped.                                                         *)

\* The scripts have no more to write.
ShutDown == pod.pc \in {"flush", "exited"}

\* In a pod that nobody deleted, the sidecar leaves off only when main has no
\* more to write, and ends well only once everything is uploaded, if fluent-bit
\* could.
LogInv ==
  ~pod.doomed =>
    /\ "shutdown" \in pod.files \/ pod.sidecar = "grace" \/ Ended("main") => ShutDown
    /\ Ended0("log-sidecar") => ShutDown /\ (pod.fluent = "well" => pod.log = "shipped")

LEMMA LogInit == Init => LogInv
  BY TheContainers DEF Init, Fresh, LogInv, Ended, Ended0

LEMMA LogStep == ASSUME Shape, LogInv, [Next]_vars PROVE LogInv'
<1> USE TheContainers, TheCodes
<1> USE DEF Shape, Fields, Become, Mishap
<1>a. ASSUME pod'.doomed PROVE LogInv'
  BY <1>a DEF LogInv
<1>b. ASSUME pod'.doomed = pod.doomed, pod'.files = pod.files, pod'.sidecar = pod.sidecar,
             pod'.pc = pod.pc, pod'.log = pod.log, pod'.fluent = pod.fluent,
             Ended("main")' = Ended("main"),
             Ended0("log-sidecar")' => Ended0("log-sidecar")
      PROVE  LogInv'
  BY <1>b DEF LogInv, ShutDown
<1>1. CASE UNCHANGED vars
  BY <1>1, <1>b DEF vars, Ended, Ended0
<1>2. CASE validate_script
  BY <1>2 DEF validate_script, In, LogInv, ShutDown, Ended, Ended0
<1>3. CASE SpawnScript
  BY <1>3 DEF SpawnScript, LogInv, ShutDown, Ended, Ended0
<1>4. CASE run_script
  <2>1. PICK code \in ScriptCodes :
          pod' = [pod EXCEPT
                    !.pc = NextScript(@, code), !.known = FALSE, !.log = "pending",
                    !.rc = Result(pod.pc, @, code),
                    !.worked = IF code = 0 THEN @ \union {pod.pc} ELSE @]
    BY <1>4 DEF run_script
  <2>2. pod.pc \in Scripts
    BY <1>4 DEF run_script
  <2> QED BY <2>1, <2>2 DEF LogInv, ShutDown, Ended, Ended0, Scripts
<1>5. CASE TermedScriptEnds
  BY <1>5 DEF TermedScriptEnds, LogInv, ShutDown, Ended, Ended0
<1>6. CASE cleanup
  BY <1>6 DEF cleanup, LogInv, ShutDown, Ended, Ended0
<1>7. CASE ExitMain
  BY <1>7 DEF ExitMain, Exit, wait_for_log_flush, LogInv, ShutDown, Ended, Ended0
<1>8. CASE Report
  BY <1>8 DEF Report, In, LogInv, ShutDown, Ended, Ended0
<1>9. CASE FinalPhase
  BY <1>9 DEF FinalPhase, LogInv, ShutDown, Ended, Ended0
<1>10. CASE GraceOver \/ terminate \/ SidecarTerm
  <2>1. pod'.doomed
    <3>1. CASE GraceOver
      BY <3>1 DEF GraceOver
    <3>2. CASE terminate
      BY <3>2 DEF terminate, Exit
    <3>3. CASE SidecarTerm
      BY <3>3 DEF SidecarTerm, SidecarExits, WithoutSidecar
    <3> QED BY <1>10, <3>1, <3>2, <3>3
  <2> QED BY <1>a, <2>1
<1>11. ASSUME NEW c \in PodContainers, StartContainer(c) PROVE LogInv'
  <2>1. /\ pod.state[c] \in Waiting /\ pod'.state = [pod.state EXCEPT ![c] = "running"]
        /\ pod'.code = pod.code /\ pod'.doomed = pod.doomed /\ pod'.files = pod.files
        /\ pod'.sidecar = pod.sidecar /\ pod'.pc = pod.pc /\ pod'.log = pod.log
        /\ pod'.fluent = pod.fluent
    BY <1>11 DEF StartContainer
  <2> QED BY <2>1, <1>b DEF Ended, Ended0, Waiting
<1>12. ASSUME NEW c \in PodContainers, InitEnds(c) PROVE LogInv'
  BY <1>12, <1>b DEF InitEnds, InitContainers, Ended, Ended0
<1>13. CASE wait_for_startup
  BY <1>13 DEF wait_for_startup, LogInv, ShutDown, Ended, Ended0
<1>14. CASE StartupTimeout
  BY <1>14 DEF StartupTimeout, SidecarExits, WithoutSidecar, LogInv, ShutDown, Ended, Ended0
<1>15. CASE monitor_loop
  BY <1>15 DEF monitor_loop, is_heartbeat_stale, Is, LogInv, ShutDown, Ended, Ended0
<1>16. CASE shutdown_fluentbit
  BY <1>16 DEF shutdown_fluentbit, Sidecar, SidecarExits, WithoutSidecar, LogInv, ShutDown,
               Ended, Ended0
<1>17. CASE Create
  BY <1>17 DEF Create, Fresh, LogInv, ShutDown, Ended, Ended0
<1>18. CASE Delete
  BY <1>18, <1>a DEF Delete
<1>19. CASE Remove
  BY <1>19, <1>b DEF Remove, Ended, Ended0
<1>20. CASE OutOfMemory
  BY <1>20 DEF OutOfMemory, LogInv, ShutDown, Ended, Ended0, Scripts
<1>22. CASE Upload
  BY <1>22 DEF Upload, LogInv, ShutDown, Ended, Ended0
<1>23. CASE SidecarKilled
  BY <1>23 DEF SidecarKilled, WithoutSidecar, Killed, LogInv, ShutDown, Ended, Ended0
<1>25. ASSUME NEW c \in PodContainers, PullFails(c) PROVE LogInv'
  BY <1>25, <1>b DEF PullFails, In, Ended, Ended0
<1>26. CASE FluentBitFails
  BY <1>26 DEF FluentBitFails, Sidecar, In, LogInv, ShutDown, Ended, Ended0
<1> QED BY <1>1, <1>2, <1>3, <1>4, <1>5, <1>6, <1>7, <1>8, <1>9, <1>10, <1>11, <1>12, <1>13,
           <1>14, <1>15, <1>16, <1>17, <1>18, <1>19, <1>20, <1>22, <1>23, <1>25, <1>26
        DEF Next, Entrypoint, Kubelet, LogSidecar, Other

\* What the scripts of a pod that nobody deleted wrote is in S3 when the pod is
\* over, in whatever order main and the sidecar take their steps (cleanup,
\* monitor_loop, shutdown_fluentbit), unless the sidecar was lost or its
\* fluent-bit has died or given an upload up.
THEOREM TheLogsAreShipped == Spec => []LogsAreShipped
<1>1. Shape /\ LogInv /\ [Next]_vars => LogInv'
  BY LogStep
<1>2. LogInv => LogsAreShipped
  BY DEF LogInv, LogsAreShipped
<1>3. PodInv => Shape
  BY DEF PodInv
<1> QED BY <1>1, <1>2, <1>3, LogInit, Invariance, PTL DEF Spec

-----------------------------------------------------------------------------
(* PodStatusNeverGoesBack.                                                 *)

Mains == PodContainers \ InitContainers

\* What the status of a pod says, by phase and by the states of its containers.
PullError(states) == \E c \in PodContainers : states[c] = "pull_error"
MainBegun(states) == \E c \in Mains : states[c] \in Begun
MainRuns(states) == \E c \in Mains : states[c] = "running"
MainFails(states, codes) == \E c \in Mains : states[c] = "terminated" /\ codes[c] # 0
Reported(states) == \E c \in PodContainers : states[c] # "none"

Says(phase, states, codes, status, detail) ==
  /\ phase = "Succeeded" => status = "SUCCEEDED"
  /\ phase = "Failed" => status = "FAILED"
  /\ phase \notin {"Succeeded", "Failed"} =>
       /\ PullError(states) => status = "STARTING" /\ detail = "PULL_ERROR"
       /\ ~PullError(states) /\ MainBegun(states) =>
            status = IF ~MainRuns(states) /\ MainFails(states, codes)
                       THEN "FAILED" ELSE "RUNNING"
       /\ ~PullError(states) /\ ~MainBegun(states) =>
            status = IF Reported(states) THEN "STARTING" ELSE "PENDING"

LEMMA StatusMeans ==
  ASSUME NEW phase, NEW states \in [PodContainers -> ContainerStates],
         NEW codes \in [PodContainers -> Codes], NEW shown,
         shown = _derive_pod_status(phase, states, codes)
  PROVE  Says(phase, states, codes, shown.status, shown.detail)
<1> DEFINE Listed == {c \in DOMAIN states : states[c] # "none"}
           Of == [c \in Listed |->
                   _container_state_from(states[c], codes[c], c \in InitContainers)]
           Main == {Of[c].status : c \in Listed \ InitContainers}
           detail == InitDetail([c \in Listed \cap InitContainers |-> Of[c]])
<1>1. DOMAIN states = PodContainers /\ Listed = {c \in PodContainers : states[c] # "none"}
  OBVIOUS
<1>2. ASSUME NEW c \in Listed
      PROVE  /\ Of[c].detail = "PULL_ERROR" <=> states[c] = "pull_error"
             /\ c \notin InitContainers =>
                  /\ Of[c].status = "RUNNING" <=> states[c] = "running"
                  /\ Of[c].status = "FAILED" <=> states[c] = "terminated" /\ codes[c] # 0
                  /\ Of[c].status = "SUCCEEDED" <=> states[c] = "terminated" /\ codes[c] = 0
  <2>1. states[c] \in {"waiting", "pull_error", "running", "terminated"}
    BY DEF ContainerStates
  <2>2. Of[c] = _container_state_from(states[c], codes[c], c \in InitContainers)
    OBVIOUS
  <2> HIDE DEF Of
  <2>3. CASE states[c] = "waiting"
    BY <2>2, <2>3 DEF _container_state_from, Shown
  <2>4. CASE states[c] = "pull_error"
    BY <2>2, <2>4 DEF _container_state_from, Shown
  <2>5. CASE states[c] = "running"
    BY <2>2, <2>5 DEF _container_state_from, Shown
  <2>6. CASE states[c] = "terminated"
    BY <2>2, <2>6 DEF _container_state_from, Shown
  <2> QED BY <2>1, <2>3, <2>4, <2>5, <2>6
<1>3. shown =
        IF phase = "Succeeded" THEN Shown("SUCCEEDED", "None")
        ELSE IF phase = "Failed" THEN Shown("FAILED", "None")
        ELSE IF \E c \in Listed : Of[c].detail = "PULL_ERROR" THEN Shown("STARTING", "PULL_ERROR")
        ELSE IF Main \cap {"RUNNING", "FAILED", "SUCCEEDED"} # {}
               THEN Shown(Transient(Main), "None")
        ELSE IF Listed = {} THEN Shown("PENDING", "None")
        ELSE Shown("STARTING", detail)
  BY Zenon DEF _derive_pod_status
<1>4. (\E c \in Listed : Of[c].detail = "PULL_ERROR") <=> PullError(states)
  <2> HIDE DEF Of
  <2> QED BY <1>1, <1>2 DEF PullError
<1>5. /\ "RUNNING" \in Main <=> MainRuns(states)
      /\ "FAILED" \in Main <=> MainFails(states, codes)
      /\ "SUCCEEDED" \in Main <=> \E c \in Mains : states[c] = "terminated" /\ codes[c] = 0
  <2> HIDE DEF Of
  <2> QED BY <1>1, <1>2 DEF MainRuns, MainFails, Mains
<1>6. Main \cap {"RUNNING", "FAILED", "SUCCEEDED"} # {} <=> MainBegun(states)
  <2> HIDE DEF Main
  <2> QED BY <1>5 DEF MainBegun, MainRuns, MainFails, Begun
<1>7. Listed = {} <=> ~Reported(states)
  BY <1>1 DEF Reported
<1> HIDE DEF Listed, Of, Main, detail
<1> QED BY <1>3, <1>4, <1>5, <1>6, <1>7 DEF Shown, Transient, Says

LEMMA StatusSays ==
  ASSUME NEW phase, NEW states \in [PodContainers -> ContainerStates],
         NEW codes \in [PodContainers -> Codes]
  PROVE  LET shown == _derive_pod_status(phase, states, codes)
         IN  Says(phase, states, codes, shown.status, shown.detail)
<1> DEFINE shown == _derive_pod_status(phase, states, codes)
<1> HIDE DEF shown
<1>1. shown = _derive_pod_status(phase, states, codes)
  BY DEF shown
<1>2. Says(phase, states, codes, shown.status, shown.detail)
  BY <1>1, StatusMeans
<1> QED BY <1>2, Zenon DEF shown

LEMMA TheMains == Mains = {"main", "log-sidecar"} /\ Init_s \cup Mains = PodContainers
  BY TheContainers DEF Mains, Init_s, Containers, InitContainers

\* The containers of the pod's images begin after its init containers.
LEMMA MainsComeLast ==
  ASSUME ContainersInOrder, MainBegun(pod.state)
  PROVE  \A i \in Init_s : pod.state[i] = "terminated"
<1>1. PICK c \in Mains : pod.state[c] \in Begun
  BY DEF MainBegun
<1>2. Before(c) = Init_s
  BY <1>1, TheMains DEF Before, Init_s
<1> QED BY <1>1, <1>2, TheMains DEF ContainersInOrder, Ended0, Ended

StatusGoesOn ==
  \/ Rank(Status'.status) > Rank(Status.status)
  \/ Status'.status = Status.status
  \/ Status'.detail = "PULL_ERROR"
  \/ /\ ~Final /\ Status'.status = "RUNNING"
     /\ \E c \in {"main", "log-sidecar"} : pod.state[c] \in Waiting

LEMMA StatusStep ==
  ASSUME PodInv, [Next]_vars, Exists, pod'.exists
  PROVE  StatusGoesOn
<1> USE TheContainers DEF Shape, Fields, Become, Mishap
<1>0. Shape /\ ContainersInOrder /\ Shape'
  BY ShapeStep DEF PodInv
<1> DEFINE st == Status.status
           st1 == Status'.status
           d == Status.detail
           d1 == Status'.detail
<1>s. /\ Says(pod.phase, pod.state, pod.code, st, d)
      /\ Says(pod'.phase, pod'.state, pod'.code, st1, d1)
  <2>1. /\ pod.state \in [PodContainers -> ContainerStates]
        /\ pod.code \in [PodContainers -> Codes]
        /\ pod'.state \in [PodContainers -> ContainerStates]
        /\ pod'.code \in [PodContainers -> Codes]
    BY <1>0
  <2>2. Says(pod.phase, pod.state, pod.code, Status.status, Status.detail)
    BY <2>1, StatusSays, Zenon DEF Status
  <2>3. Says(pod'.phase, pod'.state, pod'.code, Status'.status, Status'.detail)
    BY <2>1, StatusSays, Zenon DEF Status
  <2> QED BY <2>2, <2>3, Zenon
<1> HIDE DEF st, st1, d, d1
<1>g. \/ Rank(st1) > Rank(st)
      \/ st1 = st
      \/ d1 = "PULL_ERROR"
      \/ /\ ~Final /\ st1 = "RUNNING"
         /\ \E c \in {"main", "log-sidecar"} : pod.state[c] \in Waiting
  <2>a. ASSUME Final, pod'.phase = pod.phase PROVE st1 = st
    BY <1>0, <1>s, <2>a DEF Says, Final
  <2>1. CASE pod'.phase = pod.phase /\ pod'.state = pod.state /\ pod'.code = pod.code
    BY <1>0, <1>s, <2>1, <2>a DEF Says, Final
  <2>2. ASSUME NEW c \in PodContainers, NEW code \in Codes, Ends(c, code)
        PROVE  st1 = st \/ d1 = "PULL_ERROR" \/ Rank(st1) > Rank(st)
    <3>1. /\ pod.state[c] = "running" /\ ~Final /\ pod'.phase = pod.phase
          /\ pod'.state = [pod.state EXCEPT ![c] = "terminated"]
          /\ pod'.code = [pod.code EXCEPT ![c] = code]
      BY <2>2 DEF Ends, In, ContainersInOrder, Over, PodInv
    <3>2. ~Final' /\ Reported(pod.state) /\ Reported(pod'.state)
          /\ (PullError(pod.state) <=> PullError(pod'.state))
      BY <1>0, <3>1 DEF Final, Reported, PullError
    <3>3. MainBegun(pod.state) <=> MainBegun(pod'.state)
      BY <1>0, <3>1 DEF MainBegun, Begun, Mains
    <3>4. CASE c \in Mains
      <4>1. MainBegun(pod.state) /\ MainRuns(pod.state)
        BY <3>1, <3>4 DEF MainBegun, MainRuns, Begun
      <4> QED BY <1>s, <3>1, <3>2, <3>3, <4>1 DEF Says, Final, Rank
    <3>5. CASE c \notin Mains
      <4>1. ~MainBegun(pod.state)
        BY <1>0, <3>1, <3>5, MainsComeLast, TheMains
      <4> QED BY <1>s, <3>1, <3>2, <3>3, <4>1 DEF Says, Final
    <3> QED BY <3>4, <3>5
  <2>3. CASE Report
    <3>1. /\ pod.state["main"] = "none" /\ ~pod.doomed /\ pod'.phase = pod.phase
          /\ pod'.state = [c \in PodContainers |-> "waiting"]
      BY <2>3 DEF Report, In
    <3>2. \A c \in PodContainers : pod.state[c] = "none"
      BY <1>0, <3>1 DEF ContainersInOrder
    <3>3. ~Final
      BY <1>0, <3>1, <3>2 DEF ContainersInOrder, Over, InitFailed, Ended
    <3>4. ~PullError(pod.state) /\ ~MainBegun(pod.state) /\ ~Reported(pod.state)
      BY <3>2 DEF PullError, MainBegun, Reported, Begun, Mains
    <3>5. ~PullError(pod'.state) /\ ~MainBegun(pod'.state) /\ Reported(pod'.state) /\ ~Final'
      BY <3>1, <3>3 DEF PullError, MainBegun, Reported, Begun, Mains, Final
    <3>6. st = "PENDING" /\ st1 = "STARTING"
      BY <1>s, <3>3, <3>4, <3>5 DEF Says, Final
    <3> QED BY <3>6 DEF Rank
  <2>4. CASE FinalPhase
    <3>1. PICK phase \in {"Succeeded", "Failed"} :
            /\ pod'.phase = phase /\ pod'.state = pod.state /\ pod'.code = pod.code
            /\ phase = "Succeeded" => \A c \in PodContainers : Ended0(c)
      BY <2>4 DEF FinalPhase
    <3>2. ~Final
      BY <2>4 DEF FinalPhase
    <3>3. st1 = IF phase = "Succeeded" THEN "SUCCEEDED" ELSE "FAILED"
      BY <1>s, <3>1 DEF Says, Final
    <3>4. st \in {"PENDING", "STARTING", "RUNNING", "FAILED"}
      BY <1>s, <3>2 DEF Says, Final
    <3>5. phase = "Succeeded" => st # "FAILED"
      <4>1. phase = "Succeeded" => ~MainFails(pod.state, pod.code)
        BY <3>1 DEF MainFails, Mains, Ended0, Ended
      <4> QED BY <1>s, <3>2, <4>1 DEF Says, Final
    <3> QED BY <3>3, <3>4, <3>5 DEF Rank
  <2>5. CASE GraceOver
    <3> DEFINE Left == {c \in PodContainers : In(c, "running")}
    <3>1. /\ pod'.phase = pod.phase /\ \E c \in PodContainers : In(c, "running")
          /\ pod'.state = [c \in PodContainers |->
                             IF c \in Left THEN "terminated" ELSE pod.state[c]]
          /\ pod'.code = [c \in PodContainers |-> IF c \in Left THEN Killed ELSE pod.code[c]]
      BY <2>5 DEF GraceOver
    <3>2. ~Final /\ ~Final'
      BY <1>0, <3>1 DEF In, ContainersInOrder, Over, Final
    <3>3. \A c \in PodContainers :
            IF pod.state[c] = "running" THEN pod'.state[c] = "terminated" /\ pod'.code[c] # 0
            ELSE pod'.state[c] = pod.state[c] /\ pod'.code[c] = pod.code[c]
      BY <3>1 DEF In, Exists, Killed
    <3>4. /\ Reported(pod.state) /\ Reported(pod'.state)
          /\ PullError(pod.state) <=> PullError(pod'.state)
          /\ MainBegun(pod.state) <=> MainBegun(pod'.state)
      BY <3>1, <3>3 DEF Reported, PullError, MainBegun, Mains, Begun, In
    <3>5. CASE MainRuns(pod.state)
      <4>1. MainBegun(pod.state)
        BY <3>5 DEF MainRuns, MainBegun, Begun
      <4> QED BY <1>s, <3>2, <3>4, <3>5, <4>1 DEF Says, Final, Rank
    <3>6. CASE ~MainRuns(pod.state)
      <4>1. ~MainRuns(pod'.state) /\ (MainFails(pod.state, pod.code) <=> MainFails(pod'.state, pod'.code))
        BY <3>3, <3>6 DEF MainRuns, MainFails, Mains
      <4> QED BY <1>s, <3>2, <3>4, <3>6, <4>1 DEF Says, Final
    <3> QED BY <3>5, <3>6
  <2>6. ASSUME NEW c \in PodContainers, StartContainer(c)
        PROVE  \/ Rank(st1) > Rank(st)
               \/ st1 = st
               \/ d1 = "PULL_ERROR"
               \/ /\ ~Final /\ st1 = "RUNNING"
                  /\ \E k \in {"main", "log-sidecar"} : pod.state[k] \in Waiting
    <3>1. /\ pod.state[c] \in Waiting /\ \A i \in Before(c) : Ended0(i)
          /\ pod'.state = [pod.state EXCEPT ![c] = "running"]
          /\ pod'.code = pod.code /\ pod'.phase \in {pod.phase, "Running"}
      BY <2>6 DEF StartContainer
    <3>2. ~Final /\ ~Final'
      BY <1>0, <2>6, <3>1, StartIsEarly DEF Final
    <3>3. Reported(pod.state) /\ Reported(pod'.state)
      BY <1>0, <3>1 DEF Reported, Waiting
    <3>4. CASE PullError(pod'.state)
      BY <1>s, <3>2, <3>4 DEF Says, Final
    <3>5. CASE ~PullError(pod'.state) /\ c \in Mains
      <4>1. MainBegun(pod'.state) /\ MainRuns(pod'.state)
        BY <1>0, <3>1, <3>5 DEF MainBegun, MainRuns, Begun
      <4>2. st1 = "RUNNING" /\ c \in {"main", "log-sidecar"}
        BY <1>s, <3>2, <3>5, <4>1, TheMains DEF Says, Final
      <4> QED BY <3>1, <3>2, <4>2
    <3>6. CASE ~PullError(pod'.state) /\ c \notin Mains
      <4>1. ~MainBegun(pod.state)
        BY <1>0, <3>1, <3>6, MainsComeLast, TheMains DEF Waiting
      <4>2. ~MainBegun(pod'.state)
        BY <1>0, <3>1, <3>6, <4>1 DEF MainBegun, Mains
      <4> QED BY <1>s, <3>2, <3>3, <3>6, <4>1, <4>2 DEF Says, Final
    <3> QED BY <3>4, <3>5, <3>6
  <2>7. ASSUME NEW c \in PodContainers, PullFails(c)
        PROVE  st1 = st \/ d1 = "PULL_ERROR"
    <3>1. pod'.state = [pod.state EXCEPT ![c] = "pull_error"] /\ pod'.phase = pod.phase
      BY <2>7 DEF PullFails
    <3>2. PullError(pod'.state)
      BY <1>0, <3>1 DEF PullError
    <3> QED BY <1>s, <2>a, <3>1, <3>2 DEF Says, Final
  <2>8. CASE Quiet
    BY <2>1, <2>8 DEF Quiet
  <2>9. CASE Delete
    BY <1>0, <2>1, <2>9 DEF Delete
  <2>10. ~Create /\ ~Remove
    BY <1>0 DEF Create, Remove, Exists
  <2> QED BY <1>0, <2>2, <2>3, <2>4, <2>5, <2>6, <2>7, <2>8, <2>9, <2>10, StepKinds
          DEF OneEnds, PodChanges
<1> QED BY <1>g DEF StatusGoesOn, st, st1, d1

\* The status shown of a pod never goes back, but for an image that cannot be
\* pulled and a container that failed before the other had started: whatever
\* the scripts do and the kubelet kills (_derive_pod_status).
THEOREM TheStatusGoesOn == Spec => PodStatusNeverGoesBack
<1>1. PodInv /\ [Next]_vars =>
        [Exists /\ pod'.exists => StatusGoesOn]_vars
  BY StatusStep
<1> QED BY <1>1, Invariance, PTL DEF Spec, PodStatusNeverGoesBack, StatusGoesOn
-----------------------------------------------------------------------------
(* The types.                                                              *)

\* What Shape does not say.
Rest ==
  /\ pod = [f \in Fields |-> pod[f]]
  /\ pod.exists \in BOOLEAN /\ pod.doomed \in BOOLEAN /\ pod.known \in BOOLEAN
  /\ pod.pc \in Scripts \union {"boot", "term", "cleanup", "flush", "exited"}
  /\ pod.worked \subseteq Scripts /\ pod.files \subseteq Files
  /\ pod.sidecar \in {"startup", "ship", "grace", "exited"}
  /\ pod.fluent \in {"well", "failed"} /\ pod.log \in {"shipped", "pending"}

LEMMA RestStep == ASSUME Shape, Rest, [Next]_vars PROVE Rest'
<1> USE DEF Shape, Rest, Fields, Scripts, Files, In, Exists, Become, Mishap
<1>1. CASE UNCHANGED vars
  BY <1>1 DEF vars
<1>2. CASE validate_script
  <2>1. PICK rc \in {0, 1, 127} :
          pod' = [pod EXCEPT !.files = @ \union {"hb"},
                             !.pc = IF rc = 0 THEN "before" ELSE "cleanup",
                             !.rc = IF rc = 0 THEN 1 ELSE rc,
                             !.log = IF rc = 0 THEN @ ELSE "pending"]
    BY <1>2 DEF validate_script
  <2> QED BY <2>1
<1>3. CASE SpawnScript
  BY <1>3 DEF SpawnScript
<1>4. CASE run_script
  <2>1. PICK code \in ScriptCodes :
          pod' = [pod EXCEPT
                    !.pc = NextScript(@, code), !.known = FALSE, !.log = "pending",
                    !.rc = Result(pod.pc, @, code),
                    !.worked = IF code = 0 THEN @ \union {pod.pc} ELSE @]
    BY <1>4 DEF run_script
  <2>2. pod.pc \in Scripts /\ NextScript(pod.pc, code) \in Scripts \union {"cleanup"}
    BY <1>4 DEF run_script, NextScript
  <2> HIDE DEF NextScript, Result
  <2> QED BY <2>1, <2>2
<1>5. CASE TermedScriptEnds
  BY <1>5 DEF TermedScriptEnds
<1>6. CASE cleanup
  BY <1>6 DEF cleanup
<1>7. CASE ExitMain
  BY <1>7 DEF ExitMain, wait_for_log_flush, Exit
<1>8. CASE Report
  BY <1>8 DEF Report
<1>9. CASE FinalPhase
  BY <1>9 DEF FinalPhase
<1>10. CASE GraceOver
  BY <1>10 DEF GraceOver
<1>11. ASSUME NEW c \in PodContainers, StartContainer(c) PROVE Rest'
  BY <1>11 DEF StartContainer
<1>12. ASSUME NEW c \in PodContainers, InitEnds(c) PROVE Rest'
  BY <1>12 DEF InitEnds
<1>13. CASE wait_for_startup
  BY <1>13 DEF wait_for_startup
<1>14. CASE StartupTimeout
  BY <1>14 DEF StartupTimeout, SidecarExits, WithoutSidecar
<1>15. CASE monitor_loop
  BY <1>15 DEF monitor_loop
<1>16. CASE shutdown_fluentbit
  BY <1>16 DEF shutdown_fluentbit, SidecarExits, WithoutSidecar
<1>17. CASE Create
  BY <1>17 DEF Create, Fresh
<1>18. CASE Delete
  BY <1>18 DEF Delete
<1>19. CASE Remove
  BY <1>19 DEF Remove
<1>20. CASE OutOfMemory
  BY <1>20 DEF OutOfMemory
<1>21. CASE terminate
  BY <1>21 DEF terminate, Exit
<1>22. CASE Upload
  BY <1>22 DEF Upload
<1>23. CASE SidecarKilled
  BY <1>23 DEF SidecarKilled, WithoutSidecar
<1>24. CASE SidecarTerm
  <2>1. CASE SidecarExits(0, [pod EXCEPT !.files = @ \union {"shutdown"}])
    BY <2>1 DEF SidecarExits, WithoutSidecar
  <2>2. CASE pod' = [pod EXCEPT !.files = @ \union {"shutdown"}, !.sidecar = "grace"]
    BY <2>2
  <2> QED BY <1>24, <2>1, <2>2 DEF SidecarTerm
<1>25. ASSUME NEW c \in PodContainers, PullFails(c) PROVE Rest'
  BY <1>25 DEF PullFails
<1>26. CASE FluentBitFails
  BY <1>26 DEF FluentBitFails
<1> QED BY <1>1, <1>2, <1>3, <1>4, <1>5, <1>6, <1>7, <1>8, <1>9, <1>10, <1>11, <1>12, <1>13,
           <1>14, <1>15, <1>16, <1>17, <1>18, <1>19, <1>20, <1>21, <1>22, <1>23, <1>24, <1>25, <1>26
        DEF Next, Entrypoint, Kubelet, LogSidecar, Other

FewMishaps == mishaps \in 0..MaxMishaps

LEMMA MishapsStep == ASSUME FewMishaps, [Next]_vars PROVE FewMishaps'
<1>1. mishaps' = mishaps \/ (mishaps < MaxMishaps /\ mishaps' = mishaps + 1)
  BY DEF vars, Next, Entrypoint, Kubelet, LogSidecar, Other, Become, Mishap, validate_script,
     SpawnScript, run_script, TermedScriptEnds, cleanup, ExitMain, Exit, Report, FinalPhase,
     GraceOver, StartContainer, InitEnds, wait_for_startup, StartupTimeout, SidecarExits,
     monitor_loop, shutdown_fluentbit, Create, Delete, Remove, OutOfMemory, terminate, Upload,
     SidecarKilled, SidecarTerm, FluentBitFails, PullFails
<1> QED BY <1>1, PodAssumption DEF PodAssumption, FewMishaps

\* Every reachable state is well typed: the kubelet, the entrypoint and the
\* sidecar are in places there are, and main exits with a code of a script, of
\* a signal or of the entrypoint's own (chain-entrypoint.sh, fluentbit.sh).
THEOREM PodTypes == Spec => []TypeOK
<1>1. Init => Rest /\ FewMishaps
  <2> SUFFICES ASSUME Init PROVE Rest /\ FewMishaps
    OBVIOUS
  <2>1. pod = [Fresh EXCEPT !.exists = FALSE] /\ mishaps = 0
    BY DEF Init
  <2>2. FewMishaps
    BY <2>1, PodAssumption DEF FewMishaps, PodAssumption
  <2>3. Rest
    BY <2>1 DEF Rest, Fresh, Fields, Scripts, Files
  <2> QED BY <2>2, <2>3
<1>2. PodInv /\ Rest /\ FewMishaps /\ [Next]_vars => (Rest /\ FewMishaps)'
  BY RestStep, MishapsStep DEF PodInv
<1>3. PodInv /\ Rest /\ FewMishaps => TypeOK
  BY DEF PodInv, Shape, Rest, FewMishaps, Fields, TypeOK, PodStates
<1> QED BY <1>1, <1>2, <1>3, Invariance, PTL DEF Spec
=============================================================================
