--------------------------- MODULE KeyThreadsProofs ---------------------------
(***************************************************************************)
(* Proofs about KeyThreads for every key map, every set of keys, any       *)
(* content of the table entries nobody wrote and any size of the pipe.     *)
(***************************************************************************)
EXTENDS KeyThreads, SequenceTheorems, TLAPS

(* The select key on its way: read by get_key and about to be written, in  *)
(* the pipe, or in send_key until the flag is cleared for it.              *)
InSend == sk_pc \in {"run", "plugin", "select", "return", "clear"}
SelectInPipe == \E i \in 1 .. Len(key_pipe) : Index(key_pipe[i]) = "select"
SelectInSend == InSend /\ Index(sk_key) = "select"

(* Threads exist only between their creation and main()'s joins, and a new *)
(* get_key thread finds an empty pipe and a send_key that has read nothing.*)
Sessions ==
  /\ main_pc \in {"loop", "start_program", "exited"} => gk_pc \in {"unborn", "dead"}
  /\ main_pc # "join" => sk_pc \in {"unborn", "dead"}
  /\ gk_pc = "start" => key_pipe = <<>> /\ sk_pc \in {"unborn", "read", "dead"}

(* At most one select key is on its way, and none while get_key is between *)
(* its check of the flag and its write.                                    *)
OneSelectKey ==
  /\ gk_pc \in {"getch", "hung?", "idle?", "cancel", "mark", "lock", "write"} =>
       ~SelectInPipe /\ ~SelectInSend
  /\ SelectInSend => ~SelectInPipe
  /\ \A i, j \in 1 .. Len(key_pipe) :
       Index(key_pipe[i]) = "select" /\ Index(key_pipe[j]) = "select" => i = j
  /\ sk_pc = "select" => Index(sk_key) = "select"

(* in_select_window is up from get_key's mark to send_key's clear.         *)
FlagUp ==
  /\ SelectInPipe \/ SelectInSend => in_select_window
  /\ gk_pc \in {"getch", "hung?", "idle?", "mark"} => ~in_select_window
  /\ gk_pc \in {"mark", "lock"} => Index(gk_key) = "select"
  /\ gk_pc = "lock" => in_select_window
  /\ gk_pc = "write" => (in_select_window <=> Index(gk_key) = "select")

(* get_key waits for its own key, or send_key is gone.                     *)
AwaitedKey ==
  in_select_window /\ gk_pc \in {"check", "wait", "asleep"} /\ gk_key \in BoundKeys =>
    \/ Index(gk_key) = "select" /\ \/ \E i \in 1 .. Len(key_pipe) : key_pipe[i] = gk_key
                                   \/ InSend /\ sk_key = gk_key
    \/ sk_pc = "dead" /\ main_pc # "create"

(* Where running_plugin is up although no plugin runs: a session that has  *)
(* not begun, or one that ends.                                            *)
PluginFlag ==
  /\ sk_pc \in {"plugin", "select"} => running_plugin
  /\ running_plugin /\ main_pc = "create" => gk_pc \in {"start", "dead"}
  /\ running_plugin /\ sk_pc \in {"read", "clear", "signal", "unlock", "quit?"} =>
       gk_pc \in {"start", "dead"} \/ (~running /\ sk_pc # "read")

(* The inductive invariant.                                                *)
KeyInv ==
  /\ TypeOK
  /\ Sessions
  /\ OneSelectKey
  /\ FlagUp
  /\ AwaitedKey
  /\ PluginFlag

-----------------------------------------------------------------------------
(* Before main() creates the threads there is nothing to keep apart.       *)
LEMMA InitEstablishesKeyInv == Init => KeyInv
<1> SUFFICES ASSUME Init PROVE KeyInv
  OBVIOUS
<1>1. Len(key_pipe) = 0 /\ key_pipe \in Seq(Keys)
  BY EmptySeq DEF Init
<1>2. TypeOK
  <2>1. plugin_key_index \in [Keys -> PluginKinds]
    BY DEF Init
  <2>2. Len(key_pipe) <= KeyPipeSize
    BY <1>1, KeysAssumption
  <2>3. QED BY <1>1, <2>1, <2>2, KeysAssumption, Zenon DEF Init, TypeOK
<1>3. QED
  BY <1>1, <1>2 DEF Init, KeyInv, Sessions, OneSelectKey, FlagUp, AwaitedKey, PluginFlag,
     SelectInPipe, SelectInSend, InSend

-----------------------------------------------------------------------------
(* The pipe is first in, first out: what a write and a read do to it.      *)
LEMMA WriteToPipe ==
  ASSUME TypeOK, GkWrite
  PROVE  /\ key_pipe' \in Seq(Keys) /\ Len(key_pipe') = Len(key_pipe) + 1
         /\ Len(key_pipe) \in Nat /\ Len(key_pipe') <= KeyPipeSize
         /\ \A i \in 1 .. Len(key_pipe) : key_pipe'[i] = key_pipe[i]
         /\ key_pipe'[Len(key_pipe) + 1] = gk_key
<1>1. key_pipe \in Seq(Keys) /\ gk_key \in Keys /\ KeyPipeSize \in Nat
  BY KeysAssumption DEF TypeOK
<1>2. key_pipe' = Append(key_pipe, gk_key) /\ Len(key_pipe) < KeyPipeSize
  BY DEF GkWrite
<1>3. QED BY <1>1, <1>2, AppendProperties, LenProperties

(* Reading takes its first key and makes it one shorter.                   *)
LEMMA ReadFromPipe ==
  ASSUME TypeOK, SkRead
  PROVE  /\ key_pipe' \in Seq(Keys) /\ Len(key_pipe) \in Nat \ {0}
         /\ Len(key_pipe') = Len(key_pipe) - 1 /\ Len(key_pipe') <= KeyPipeSize
         /\ \A i \in 1 .. Len(key_pipe') : key_pipe'[i] = key_pipe[i + 1]
         /\ Head(key_pipe) = key_pipe[1] /\ Head(key_pipe) \in Keys
<1>1. key_pipe \in Seq(Keys) /\ KeyPipeSize \in Nat /\ Len(key_pipe) <= KeyPipeSize
  BY KeysAssumption DEF TypeOK
<1>2. key_pipe' = Tail(key_pipe) /\ key_pipe # <<>>
  BY DEF SkRead
<1>3. Len(key_pipe) \in Nat \ {0}
  BY <1>1, <1>2, LenProperties, EmptySeq
<1>4. QED BY <1>1, <1>2, <1>3, HeadTailProperties

(* The types, the flags apart: the provers treat the two differently.      *)
FlagTypes ==
  /\ in_select_window \in BOOLEAN /\ running_plugin \in BOOLEAN
  /\ restart_prog \in BOOLEAN /\ running \in BOOLEAN
  /\ mutex_held \in BOOLEAN /\ asleep \in BOOLEAN
  /\ gk_cancelled \in BOOLEAN /\ sk_cancelled \in BOOLEAN

OtherTypes ==
  /\ plugin_key_index \in [Keys -> PluginKinds]
  /\ key_pipe \in Seq(Keys) /\ Len(key_pipe) <= KeyPipeSize
  /\ main_pc \in {"loop", "create", "join", "start_program", "exited"}
  /\ gk_pc \in {"unborn", "start", "check", "wait", "asleep", "getch", "hung?", "idle?", "cancel",
                "mark", "lock", "write", "dead"}
  /\ sk_pc \in {"unborn", "read", "run", "plugin", "select", "return", "clear", "signal",
                "unlock", "quit?", "dead"}
  /\ gk_key \in Keys /\ sk_key \in Keys

(* Every step leaves the flags Boolean.                                    *)
LEMMA NextPreservesFlagTypes == FlagTypes /\ [Next]_vars => FlagTypes'
<1> SUFFICES ASSUME FlagTypes, [Next]_vars PROVE FlagTypes'
  OBVIOUS
<1> USE DEF FlagTypes, flags, gkVars, skVars, sync, cancels
<1>1. CASE GkStart
  BY <1>1, Zenon DEF GkStart
<1>2. CASE GkCheck
  BY <1>2, Zenon DEF GkCheck
<1>3. CASE GkSleep
  BY <1>3, Zenon DEF GkSleep
<1>4. CASE GkWake
  BY <1>4, Zenon DEF GkWake
<1>5. CASE GkIsHung
  BY <1>5, Zenon DEF GkIsHung
<1>6. CASE GkCancelSendKey
  BY <1>6, Zenon DEF GkCancelSendKey
<1>7. CASE GkIsIdle
  BY <1>7, Zenon DEF GkIsIdle
<1>8. CASE GkMarkSelect
  BY <1>8, Zenon DEF GkMarkSelect
<1>9. CASE GkLock
  BY <1>9, Zenon DEF GkLock
<1>10. CASE GkDie
  BY <1>10, Zenon DEF GkDie
<1>11. CASE SkRunPlugin
  BY <1>11, Zenon DEF SkRunPlugin
<1>12. CASE SkReturn
  BY <1>12, Zenon DEF SkReturn
<1>13. CASE SkClear
  BY <1>13, Zenon DEF SkClear
<1>14. CASE SkSignal
  BY <1>14, Zenon DEF SkSignal
<1>15. CASE SkUnlock
  BY <1>15, Zenon DEF SkUnlock
<1>16. CASE SkQuit
  BY <1>16, Zenon DEF SkQuit
<1>17. CASE SkDie
  BY <1>17, Zenon DEF SkDie
<1>18. CASE SkTakeTerminal
  BY <1>18, Zenon DEF SkTakeTerminal
<1>19. CASE SkQuitInSelect
  BY <1>19, Zenon DEF SkQuitInSelect
<1>20. CASE SkLeaveSelect
  BY <1>20, Zenon DEF SkLeaveSelect
<1>21. CASE SkFinishPlugin
  BY <1>21, Zenon DEF SkFinishPlugin
<1>22. CASE SkFailPlugin
  BY <1>22, Zenon DEF SkFailPlugin
<1>23. CASE MainCreateSendKey
  BY <1>23, Zenon DEF MainCreateSendKey
<1>24. CASE MainJoin
  BY <1>24, Zenon DEF MainJoin
<1>25. CASE MainRestart
  BY <1>25, Zenon DEF MainRestart
<1>26. CASE GkWakeSpuriously
  BY <1>26, Zenon DEF GkWakeSpuriously
<1>27. CASE MainCreateGetKey
  BY <1>27, Zenon DEF MainCreateGetKey
<1>28. CASE GkWrite
  BY <1>28, Zenon DEF GkWrite
<1>29. CASE SkRead
  BY <1>29, Zenon DEF SkRead
<1>30. ASSUME NEW k \in Keys, GkGetch(k) PROVE FlagTypes'
  BY <1>30, Zenon DEF GkGetch
<1>31. CASE Sigint \/ MainExit
  BY <1>31, Zenon DEF Sigint, MainExit, ExitProcess
<1>32. CASE UNCHANGED vars
  BY <1>32, Zenon DEF vars
<1>33. QED
  BY <1>1, <1>2, <1>3, <1>4, <1>5, <1>6, <1>7, <1>8, <1>9, <1>10, <1>11, <1>12,
     <1>13, <1>14, <1>15, <1>16, <1>17, <1>18, <1>19, <1>20, <1>21, <1>22, <1>23, <1>24,
     <1>25, <1>26, <1>27, <1>28, <1>29, <1>30, <1>31, <1>32
     DEF Next, MainStep, GetKeyStep, SendKeyStep, PluginStep, Terminated

(* Every step leaves the threads at one of their steps, with keys, and the *)
(* pipe within its size.                                                   *)
LEMMA NextPreservesOtherTypes == TypeOK /\ [Next]_vars => OtherTypes'
<1> SUFFICES ASSUME TypeOK, OtherTypes, [Next]_vars PROVE OtherTypes'
  BY DEF TypeOK, OtherTypes
<1> USE KeysAssumption
<1> USE DEF OtherTypes, flags, gkVars, skVars, sync, cancels
<1>1. CASE GkStart
  BY <1>1 DEF GkStart
<1>2. CASE GkCheck
  BY <1>2 DEF GkCheck
<1>3. CASE GkSleep
  BY <1>3 DEF GkSleep
<1>4. CASE GkWake
  BY <1>4 DEF GkWake
<1>5. CASE GkIsHung
  BY <1>5 DEF GkIsHung
<1>6. CASE GkCancelSendKey
  BY <1>6 DEF GkCancelSendKey
<1>7. CASE GkIsIdle
  BY <1>7 DEF GkIsIdle
<1>8. CASE GkMarkSelect
  BY <1>8 DEF GkMarkSelect
<1>9. CASE GkLock
  BY <1>9 DEF GkLock
<1>10. CASE GkDie
  BY <1>10 DEF GkDie
<1>11. CASE SkRunPlugin
  BY <1>11 DEF SkRunPlugin
<1>12. CASE SkReturn
  BY <1>12 DEF SkReturn
<1>13. CASE SkClear
  BY <1>13 DEF SkClear
<1>14. CASE SkSignal
  BY <1>14 DEF SkSignal
<1>15. CASE SkUnlock
  BY <1>15 DEF SkUnlock
<1>16. CASE SkQuit
  BY <1>16 DEF SkQuit
<1>17. CASE SkDie
  BY <1>17 DEF SkDie
<1>18. CASE SkTakeTerminal
  BY <1>18 DEF SkTakeTerminal
<1>19. CASE SkQuitInSelect
  BY <1>19 DEF SkQuitInSelect
<1>20. CASE SkLeaveSelect
  BY <1>20 DEF SkLeaveSelect
<1>21. CASE SkFinishPlugin
  BY <1>21 DEF SkFinishPlugin
<1>22. CASE SkFailPlugin
  BY <1>22 DEF SkFailPlugin
<1>23. CASE MainCreateSendKey
  BY <1>23 DEF MainCreateSendKey
<1>24. CASE MainJoin
  BY <1>24 DEF MainJoin
<1>25. CASE MainRestart
  BY <1>25 DEF MainRestart
<1>26. CASE GkWakeSpuriously
  BY <1>26 DEF GkWakeSpuriously
<1>27. ASSUME NEW k \in Keys, GkGetch(k) PROVE OtherTypes'
  BY <1>27 DEF GkGetch
<1>28. CASE Sigint \/ MainExit
  BY <1>28 DEF Sigint, MainExit, ExitProcess
<1>29. CASE UNCHANGED vars
  BY <1>29 DEF vars
<1>30. CASE MainCreateGetKey
  <2>1. Len(key_pipe') = 0 /\ key_pipe' \in Seq(Keys)
    BY <1>30, EmptySeq DEF MainCreateGetKey
  <2>2. QED BY <1>30, <2>1 DEF MainCreateGetKey
<1>31. CASE GkWrite
  BY <1>31, WriteToPipe DEF GkWrite
<1>32. CASE SkRead
  BY <1>32, ReadFromPipe DEF SkRead
<1>33. QED
  BY <1>1, <1>2, <1>3, <1>4, <1>5, <1>6, <1>7, <1>8, <1>9, <1>10, <1>11, <1>12,
     <1>13, <1>14, <1>15, <1>16, <1>17, <1>18, <1>19, <1>20, <1>21, <1>22, <1>23, <1>24,
     <1>25, <1>26, <1>27, <1>28, <1>29, <1>30, <1>31, <1>32
     DEF Next, MainStep, GetKeyStep, SendKeyStep, PluginStep, Terminated

(* Every step preserves the types.                                         *)
LEMMA NextPreservesTypeOK == TypeOK /\ [Next]_vars => TypeOK'
<1>1. TypeOK => FlagTypes
  BY DEF TypeOK, FlagTypes
<1>2. FlagTypes' /\ OtherTypes' => TypeOK'
  BY DEF TypeOK, FlagTypes, OtherTypes
<1>3. QED BY <1>1, <1>2, NextPreservesFlagTypes, NextPreservesOtherTypes

(* Every step preserves KeyInv, action by action.                          *)
LEMMA NextPreservesKeyInv == KeyInv /\ [Next]_vars => KeyInv'
<1> SUFFICES ASSUME KeyInv, [Next]_vars PROVE KeyInv'
  OBVIOUS
<1>a. TypeOK /\ TypeOK'
  BY NextPreservesTypeOK DEF KeyInv
<1> DEFINE Rest == Sessions /\ OneSelectKey /\ FlagUp /\ AwaitedKey /\ PluginFlag
<1> SUFFICES Rest'
  BY <1>a DEF KeyInv
<1> USE KeysAssumption
<1> USE DEF KeyInv, Sessions, OneSelectKey, FlagUp, AwaitedKey, PluginFlag,
        SelectInPipe, SelectInSend, InSend, Index, flags, gkVars, skVars, sync, cancels
<1>1. CASE GkStart
  BY <1>1 DEF GkStart
<1>2. CASE GkCheck
  BY <1>2 DEF GkCheck
<1>3. CASE GkSleep
  BY <1>3 DEF GkSleep
<1>4. CASE GkWake
  BY <1>4 DEF GkWake
<1>5. CASE GkIsHung
  BY <1>5 DEF GkIsHung
<1>6. CASE GkCancelSendKey
  BY <1>6 DEF GkCancelSendKey
<1>7. CASE GkIsIdle
  BY <1>7 DEF GkIsIdle
<1>8. CASE GkMarkSelect
  BY <1>8 DEF GkMarkSelect
<1>9. CASE GkLock
  BY <1>9 DEF GkLock
<1>10. CASE GkDie
  BY <1>10 DEF GkDie
<1>11. CASE SkRunPlugin
  BY <1>11 DEF SkRunPlugin
<1>12. CASE SkReturn
  BY <1>12 DEF SkReturn
<1>13. CASE SkClear
  BY <1>13 DEF SkClear
<1>14. CASE SkSignal
  BY <1>14 DEF SkSignal
<1>15. CASE SkUnlock
  BY <1>15 DEF SkUnlock
<1>16. CASE SkQuit
  BY <1>16 DEF SkQuit
<1>17. CASE SkDie
  BY <1>17 DEF SkDie
<1>18. CASE SkTakeTerminal
  BY <1>18 DEF SkTakeTerminal
<1>19. CASE SkQuitInSelect
  BY <1>19 DEF SkQuitInSelect
<1>20. CASE SkLeaveSelect
  BY <1>20 DEF SkLeaveSelect
<1>21. CASE SkFinishPlugin
  BY <1>21 DEF SkFinishPlugin
<1>22. CASE SkFailPlugin
  BY <1>22 DEF SkFailPlugin
<1>23. CASE MainCreateSendKey
  BY <1>23 DEF MainCreateSendKey
<1>24. CASE MainJoin
  BY <1>24 DEF MainJoin
<1>25. CASE MainRestart
  BY <1>25 DEF MainRestart
<1>26. CASE GkWakeSpuriously
  BY <1>26 DEF GkWakeSpuriously
<1>27. ASSUME NEW k \in Keys, GkGetch(k) PROVE Rest'
  BY <1>27 DEF GkGetch
<1>28. CASE Sigint \/ MainExit
  BY <1>28 DEF Sigint, MainExit, ExitProcess
<1>29. CASE UNCHANGED vars
  BY <1>29 DEF vars
<1>30. CASE MainCreateGetKey
  <2>1. Len(key_pipe') = 0
    BY <1>30, EmptySeq DEF MainCreateGetKey
  <2>2. QED BY <1>30, <2>1 DEF MainCreateGetKey
<1>31. CASE GkWrite
  BY <1>31, <1>a, WriteToPipe DEF GkWrite
<1>32. CASE SkRead
  <2>1. /\ Len(key_pipe) \in Nat \ {0} /\ Len(key_pipe') = Len(key_pipe) - 1
        /\ \A i \in 1 .. Len(key_pipe') : key_pipe'[i] = key_pipe[i + 1]
        /\ sk_key' = key_pipe[1] /\ 1 \in 1 .. Len(key_pipe)
    BY <1>32, <1>a, ReadFromPipe DEF SkRead
  <2>2. \A i \in 1 .. Len(key_pipe') : i + 1 \in 1 .. Len(key_pipe) /\ i + 1 # 1
    BY <2>1
  <2>3. /\ sk_pc = "read" /\ sk_pc' \in {"run", "quit?"}
        /\ running' => running
        /\ sk_key' \in Letters => sk_pc' = "run"
        /\ key_pipe # <<>>
        /\ UNCHANGED <<plugin_key_index, in_select_window, running_plugin, main_pc, gk_pc, gk_key>>
    BY <1>32, <2>1, ReadFromPipe, <1>a DEF SkRead
  <2>4. Sessions'
    BY <2>3
  <2>5. OneSelectKey'
    BY <2>1, <2>2, <2>3
  <2>6. FlagUp'
    BY <2>1, <2>2, <2>3
  <2>7. AwaitedKey'
    <3> SUFFICES ASSUME in_select_window, gk_pc \in {"check", "wait", "asleep"},
                        gk_key \in BoundKeys
                 PROVE  /\ Index(gk_key) = "select"
                        /\ \/ \E i \in 1 .. Len(key_pipe') : key_pipe'[i] = gk_key
                           \/ InSend' /\ sk_key' = gk_key
      BY <2>3
    <3>1. PICK i \in 1 .. Len(key_pipe) : key_pipe[i] = gk_key
      BY <2>3
    <3>2. CASE i = 1
      BY <2>1, <2>3, <3>1, <3>2
    <3>3. CASE i # 1
      <4>1. i - 1 \in 1 .. Len(key_pipe') /\ key_pipe'[i - 1] = gk_key
        BY <2>1, <3>1, <3>3
      <4>2. QED BY <2>3, <4>1
    <3>4. QED BY <3>2, <3>3
  <2>8. PluginFlag'
    BY <2>3
  <2>9. QED BY <2>4, <2>5, <2>6, <2>7, <2>8
<1>33. QED
  BY <1>1, <1>2, <1>3, <1>4, <1>5, <1>6, <1>7, <1>8, <1>9, <1>10, <1>11, <1>12,
     <1>13, <1>14, <1>15, <1>16, <1>17, <1>18, <1>19, <1>20, <1>21, <1>22, <1>23, <1>24,
     <1>25, <1>26, <1>27, <1>28, <1>29, <1>30, <1>31, <1>32
     DEF Next, MainStep, GetKeyStep, SendKeyStep, PluginStep, Terminated

(* The invariant holds in every reachable state of the threads.            *)
THEOREM KeyInvariant == Spec => []KeyInv
BY InitEstablishesKeyInv, NextPreservesKeyInv, PTL DEF Spec

(* The types of the shared variables, and that the pipe holds no more keys *)
(* than it can.                                                            *)
THEOREM KeyThreadsTypeCorrect == Spec => []TypeOK
BY KeyInvariant, PTL DEF KeyInv

(* get_key and a select plugin never read the terminal at the same time.   *)
THEOREM TerminalHasOneReader == Spec => []OneTerminalReader
<1>1. KeyInv => OneTerminalReader
  BY DEF KeyInv, OneSelectKey, SelectInSend, InSend, OneTerminalReader
<1>2. QED BY <1>1, KeyInvariant, PTL

(* Wherever get_key acts on running_plugin or in_select_window, the flag   *)
(* says what send_key is doing.                                            *)
THEOREM FlagsAreTrue == Spec => []FlagsTellTruth
<1>1. KeyInv => RunningPluginFlag
  BY DEF KeyInv, TypeOK, PluginFlag, RunningPluginFlag
<1>2. KeyInv => WaitsOnlyForSelect
  <2> SUFFICES ASSUME KeyInv, gk_pc = "asleep", in_select_window, gk_key \in BoundKeys,
                      sk_pc = "read", key_pipe = <<>>
               PROVE  FALSE
    BY DEF WaitsOnlyForSelect
  <2>1. Len(key_pipe) = 0
    BY EmptySeq
  <2>2. QED BY <2>1 DEF KeyInv, AwaitedKey, InSend
<1>3. QED BY <1>1, <1>2, KeyInvariant, PTL DEF FlagsTellTruth
=============================================================================
